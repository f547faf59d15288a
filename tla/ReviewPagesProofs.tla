------------------------- MODULE ReviewPagesProofs -------------------------
(***************************************************************************)
(* Theorems about ReviewPages, for every set of transactions the parser    *)
(* may deliver, every PARAMETERS_MAX_NUM and every size of the fee's text. *)
(*                                                                         *)
(* Two invariants: IndInv says where texts and pairs lie and that they are *)
(* intact, SInv what the pairs say and under which labels.  The second     *)
(* rests on the first and on what CommonProofs shows of the tables.     *)
(***************************************************************************)
EXTENDS ReviewPages, CommonProofs, TLAPS

-----------------------------------------------------------------------------
(* Texts and pairs.                                                        *)

LEMMA TextFacts ==
    ASSUME NEW at \in Nat, NEW size \in Nat, NEW what \in Whats, NEW index \in Nat
    PROVE  /\ Text(at, size, what, index) \in Texts
           /\ Text(at, size, what, index).at = at
           /\ Text(at, size, what, index).size = size
           /\ Text(at, size, what, index).says.what = what
  BY DEF Text, Says, Texts

LEMMA PairFacts ==
    ASSUME NEW item \in Texts, NEW value \in Texts
    PROVE  /\ Pair(item, value) \in [item : Texts, value : Texts]
           /\ Pair(item, value).item = item
           /\ Pair(item, value).value = value
  BY DEF Pair

LEMMA FixedFacts ==
    ASSUME NEW item \in Whats
    PROVE  /\ Fixed(item) \in Texts
           /\ Fixed(item).at = 0 /\ Fixed(item).size = 0
           /\ Fixed(item).says.what = item
  BY TextFacts DEF Fixed

LEMMA ParamFacts ==
    ASSUME NEW slot \in Nat, NEW k \in Nat
    PROVE  /\ Param(slot, k) \in Texts
           /\ Param(slot, k).at = Slot(slot)
           /\ Param(slot, k).size = MAX_BUFFER_LEN
           /\ Param(slot, k).says.what = "param"
<1>1. Slot(slot) \in Nat /\ MAX_BUFFER_LEN \in Nat /\ "param" \in Whats
  BY DEF Slot, MAX_BUFFER_LEN, Whats
<1> QED BY <1>1, TextFacts DEF Param

\* Texts inside g_buffers.
GoodTexts(set) ==
    /\ set \subseteq Texts
    /\ \A t \in set : t.at + t.size <= Slot(NUM_PAIRS)

LEMMA OverwriteGood ==
    ASSUME NEW old, NEW new, GoodTexts(old), GoodTexts(new)
    PROVE  GoodTexts(Overwrite(old, new)) /\ new \subseteq Overwrite(old, new)
  BY DEF GoodTexts, Overwrite

\* A text that nothing written from slot n on can touch.
Settled(t, set, n) == t.size = 0 \/ (t \in set /\ t.at + t.size <= Slot(n))

SettledPairs(ps, set, n) ==
    \A p \in 0 .. NUM_PAIRS - 1 : Settled(ps[p].item, set, n) /\ Settled(ps[p].value, set, n)

LEMMA SettledStays ==
    ASSUME NEW old, NEW new, NEW n \in Nat, NEW m \in Nat, n <= m,
           NEW t \in Texts, Settled(t, old, n), new \subseteq Texts,
           \A u \in new : u.at >= Slot(n) \/ u.at + u.size = 0
    PROVE  Settled(t, Overwrite(old, new), m)
<1>1. CASE t.size = 0
  BY <1>1 DEF Settled
<1>2. CASE t \in old /\ t.at + t.size <= Slot(n)
  <2>1. t.at \in Nat /\ t.size \in Nat
    BY DEF Texts
  <2>2. \A u \in new : u.at \in Nat /\ u.size \in Nat
    BY DEF Texts
  <2>3. \A u \in new : Apart(t, u)
    BY <1>2, <2>1, <2>2 DEF Apart, Slot, MAX_BUFFER_LEN
  <2>4. t \in Overwrite(old, new)
    BY <1>2, <2>3 DEF Overwrite
  <2>5. t.at + t.size <= Slot(m)
    BY <1>2, <2>1 DEF Slot, MAX_BUFFER_LEN
  <2> QED BY <2>4, <2>5 DEF Settled
<1> QED BY <1>1, <1>2 DEF Settled

PairsType == [0 .. NUM_PAIRS - 1 -> [item : Texts, value : Texts]]

LEMMA PairsStaySettled ==
    ASSUME NEW old, NEW new, NEW n \in Nat, NEW m \in Nat, n <= m,
           NEW ps \in PairsType, SettledPairs(ps, old, n), new \subseteq Texts,
           \A u \in new : u.at >= Slot(n) \/ u.at + u.size = 0
    PROVE  SettledPairs(ps, Overwrite(old, new), m)
<1>1. \A p \in 0 .. NUM_PAIRS - 1 : ps[p].item \in Texts /\ ps[p].value \in Texts
  BY DEF PairsType
<1> QED BY <1>1, SettledStays DEF SettledPairs
-----------------------------------------------------------------------------
(* The invariant.  While pairs are placed, what they show lies below the   *)
(* slot that is written next (SettledPairs), the fee and the signer above  *)
(* all of these slots, and no pair that is counted is a stale one.         *)

Placed(p) == pairs[p].item.says.what # "stale"

AllPlaced == \A p \in 0 .. nbPairs - 1 : Placed(p)

AllIntact ==
    \A p \in 0 .. NUM_PAIRS - 1 : Intact(pairs[p].item) /\ Intact(pairs[p].value)

ParamsInv ==
    /\ ~Blind /\ nbPairs = Len(Layout) /\ i <= Len(Layout)
    /\ SettledPairs(pairs, texts, i)
    /\ \A k \in 1 .. i : Placed(Layout[k].pos)

PeersInv ==
    /\ ~Blind /\ Peers /\ i <= 3 /\ nbPairs <= 1 + 2 * i /\ curr <= 1 + 4 * i
    /\ SettledPairs(pairs, texts, curr)
    /\ AllPlaced

AmountsInv ==
    /\ ~Blind /\ Peers /\ nbPairs <= 8
    /\ SettledPairs(pairs, texts, PARAMETERS_MAX_NUM)
    /\ AllPlaced

TransfersInv ==
    /\ ~Blind /\ Native /\ tx.method \in TransferMethods
    /\ i >= 1 /\ nbPairs = 3 * i /\ 3 * i <= PARAMETERS_MAX_NUM
    /\ SettledPairs(pairs, texts, 3 * i)
    /\ AllPlaced

ClosingInv == nbPairs <= PARAMETERS_MAX_NUM /\ AllIntact /\ AllPlaced

IndInv ==
    /\ TypeOK /\ tx \in Transactions
    /\ stage \in {"blind", "params", "peers", "amounts", "transfers", "closing"} =>
           Signer \in texts
    /\ stage \in {"start", "blind"} => SettledPairs(pairs, texts, 0)
    /\ stage = "params"    => ParamsInv
    /\ stage = "peers"     => PeersInv
    /\ stage = "amounts"   => AmountsInv
    /\ stage = "transfers" => TransfersInv
    /\ stage = "closing"   => ClosingInv
    /\ PairsComplete /\ ParametersIntact

LEMMA TypeFacts ==
    ASSUME TypeOK
    PROVE  GoodTexts(texts) /\ pairs \in PairsType
  BY DEF TypeOK, GoodTexts, PairsType

LEMMA Sizes ==
    /\ PARAMETERS_MAX_NUM \in Nat /\ PARAMETERS_MAX_NUM >= 14
    /\ NUM_PAIRS = PARAMETERS_MAX_NUM + 2
  BY SlotAssumption DEF NUM_PAIRS

\* A parameter in a slot of g_buffers is a good text.
LEMMA ParamGood ==
    ASSUME NEW slot \in Nat, NEW k \in Nat, slot < NUM_PAIRS
    PROVE  /\ GoodTexts({Param(slot, k)})
           /\ Param(slot, k).at + Param(slot, k).size = Slot(slot + 1)
<1>1. /\ Param(slot, k) \in Texts /\ Param(slot, k).at = Slot(slot)
      /\ Param(slot, k).size = MAX_BUFFER_LEN
  BY ParamFacts
<1> QED BY <1>1, Sizes DEF GoodTexts, Slot, MAX_BUFFER_LEN

\* The signer's slot lies above every slot below it.
LEMMA SignerFacts ==
    /\ Signer \in Texts /\ Signer.at = Slot(PARAMETERS_MAX_NUM + 1) /\ Signer.size = ADDRESS_SIZE
    /\ Signer.says.what = "SIGNER" /\ GoodTexts({Signer})
<1>1. Slot(PARAMETERS_MAX_NUM + 1) \in Nat /\ ADDRESS_SIZE \in Nat /\ "SIGNER" \in Whats
  BY Sizes DEF Slot, MAX_BUFFER_LEN, ADDRESS_SIZE, Whats
<1>2. /\ Signer \in Texts /\ Signer.at = Slot(PARAMETERS_MAX_NUM + 1)
      /\ Signer.size = ADDRESS_SIZE /\ Signer.says.what = "SIGNER"
  BY <1>1, TextFacts DEF Signer
<1> QED BY <1>2, Sizes DEF GoodTexts, Slot, MAX_BUFFER_LEN, ADDRESS_SIZE

LEMMA SignerStays ==
    ASSUME NEW old, NEW new, Signer \in old, new \subseteq Texts,
           \A u \in new : u.at + u.size <= Slot(PARAMETERS_MAX_NUM + 1)
    PROVE  Signer \in Overwrite(old, new)
<1>1. \A u \in new : u.at \in Nat /\ u.size \in Nat
  BY DEF Texts
<1>2. \A u \in new : Apart(Signer, u)
  BY <1>1, SignerFacts, Sizes DEF Apart, Slot, MAX_BUFFER_LEN, ADDRESS_SIZE
<1> QED BY <1>2 DEF Overwrite

LEMMA SeqElements ==
    ASSUME NEW S, NEW s \in Seq(S)
    PROVE  Len(s) \in Nat /\ \A k \in 1 .. Len(s) : s[k] \in S
  OBVIOUS

KindsOf(t) == [k \in 1 .. Len(t.params) |-> t.params[k].kind]

\* The facts about a transaction that the page relies on.
LEMMA TransactionFacts ==
    ASSUME tx \in Transactions
    PROVE  /\ Len(tx.params) \in Nat
           /\ ~Blind => /\ GoodLayout(Layout)
                        /\ tx.method \in PeerMethods => Len(Layout) = 1
                        /\ Native /\ tx.method \in TransferMethods => Len(Layout) = 3
           /\ Peers => /\ pubkey_num \in Nat /\ Len(tx.params) = 2 + 2 * pubkey_num
           /\ \A k \in 0 .. Len(tx.params) - 1 : Value(k) \in Nat
<1>0. WellParsed(tx, PARAMETERS_MAX_NUM)
  BY TransactionAssumption
<1>1. tx.params \in Seq([kind : PARAM_KINDS, value : Nat])
  BY TransactionAssumption DEF WellParsed
<1>2. Len(tx.params) \in Nat /\ \A k \in 1 .. Len(tx.params) : tx.params[k].value \in Nat
  <2>1. \A k \in 1 .. Len(tx.params) : tx.params[k] \in [kind : PARAM_KINDS, value : Nat]
    BY <1>1, SeqElements
  <2> QED BY <1>1, <2>1
<1>3. \A k \in 0 .. Len(tx.params) - 1 : Value(k) \in Nat
  BY <1>2 DEF Value
<1>4. tx.type \in ContractTypes /\ (~Blind => tx.method \in KnownMethods)
  BY <1>0 DEF WellParsed, Blind, KnownMethods
<1>5. ~Blind => /\ GoodLayout(Layout)
                /\ tx.method \in PeerMethods => Len(Layout) = 1
                /\ Native /\ tx.method \in TransferMethods => Len(Layout) = 3
  BY <1>4, LayoutShape DEF Layout, Native
<1>6. Peers => Len(tx.params) >= 2 /\ Len(tx.params) = 2 + 2 * pubkey_num
  <2> SUFFICES ASSUME Peers PROVE Len(tx.params) >= 2 /\ Len(tx.params) = 2 + 2 * pubkey_num
    OBVIOUS
  <2>1. tx.method \in PeerMethods /\ tx.method # Unknown
    BY DEF Peers, PeerMethods, Unknown
  <2>2. PICK n \in Nat :
            /\ tx.contract \in Contracts /\ tx.method \in Methods(tx.contract)
            /\ KindsOf(tx) = AllEntries(tx.contract, tx.method, n) /\ tx.params[2].value = n
    BY <1>0, <2>1, Sizes DEF WellParsed, KindsOf
  <2>3. tx.contract = "GOV"
    BY <2>1, <2>2, SignatureTable
  <2>4. Len(KindsOf(tx)) = 2 * n + 2
    BY <2>1, <2>2, <2>3, PeersEntries
  <2>5. Len(KindsOf(tx)) = Len(tx.params)
    BY <1>2 DEF KindsOf
  <2>6. pubkey_num = n
    BY <2>2 DEF pubkey_num, Value
  <2> QED BY <2>2, <2>4, <2>5, <2>6
<1>7. Peers => pubkey_num \in Nat
  BY <1>2, <1>3, <1>6 DEF pubkey_num
<1> QED BY <1>2, <1>3, <1>5, <1>6, <1>7
-----------------------------------------------------------------------------
(* Consequences used by several steps.                                     *)

\* Below slot 0 there is nothing but string constants.
LEMMA SettledAtZero ==
    ASSUME NEW ps \in PairsType, NEW set, SettledPairs(ps, set, 0), NEW other
    PROVE  SettledPairs(ps, other, 0)
<1>1. \A p \in 0 .. NUM_PAIRS - 1 : ps[p].item \in Texts /\ ps[p].value \in Texts
  BY DEF PairsType
<1>2. \A t \in Texts : Settled(t, set, 0) => t.size = 0
  BY DEF Settled, Texts, Slot, MAX_BUFFER_LEN
<1> QED BY <1>1, <1>2 DEF SettledPairs, Settled

LEMMA SettledRaise ==
    ASSUME NEW ps \in PairsType, NEW set, NEW n \in Nat, NEW m \in Nat, n <= m,
           SettledPairs(ps, set, n)
    PROVE  SettledPairs(ps, set, m)
<1>1. \A p \in 0 .. NUM_PAIRS - 1 : ps[p].item \in Texts /\ ps[p].value \in Texts
  BY DEF PairsType
<1>2. \A t \in Texts : Settled(t, set, n) => Settled(t, set, m)
  BY DEF Settled, Texts, Slot, MAX_BUFFER_LEN
<1> QED BY <1>1, <1>2 DEF SettledPairs

LEMMA SettledIntact ==
    ASSUME NEW n, SettledPairs(pairs, texts, n)
    PROVE  AllIntact
  BY DEF SettledPairs, Settled, AllIntact, Intact

\* One more pair.
LEMMA PairsExtend ==
    ASSUME NEW ps \in PairsType, NEW set, NEW n, SettledPairs(ps, set, n),
           NEW p \in 0 .. NUM_PAIRS - 1, NEW item \in Texts, NEW value \in Texts,
           Settled(item, set, n), Settled(value, set, n)
    PROVE  /\ [ps EXCEPT ![p] = Pair(item, value)] \in PairsType
           /\ SettledPairs([ps EXCEPT ![p] = Pair(item, value)], set, n)
<1> DEFINE qs == [ps EXCEPT ![p] = Pair(item, value)]
<1>1. /\ Pair(item, value) \in [item : Texts, value : Texts]
      /\ Pair(item, value).item = item /\ Pair(item, value).value = value
  BY PairFacts
<1>2. qs \in PairsType
  BY <1>1 DEF PairsType
<1>3. \A q \in 0 .. NUM_PAIRS - 1 : qs[q] = IF q = p THEN Pair(item, value) ELSE ps[q]
  BY DEF PairsType
<1>4. SettledPairs(qs, set, n)
  BY <1>1, <1>3 DEF SettledPairs
<1> QED BY <1>2, <1>4

LEMMA FixedSettled ==
    ASSUME NEW item \in Whats, NEW set, NEW n
    PROVE  Settled(Fixed(item), set, n)
  BY FixedFacts DEF Settled

LEMMA ItemFacts == \A item \in Items : item \in Whats /\ item # "stale"
  BY DEF Items, Whats

LEMMA ParamsAllPlaced ==
    ASSUME IndInv, stage = "params", i = Len(Layout)
    PROVE  AllPlaced /\ i \in 1 .. 4
<1>1. ParamsInv /\ GoodLayout(Layout)
  BY TransactionFacts DEF IndInv, ParamsInv
<1>2. /\ i \in 1 .. 4
      /\ \A p \in 0 .. i - 1 : \E k \in 1 .. i : Layout[k].pos = p
  BY <1>1 DEF GoodLayout
<1> QED BY <1>1, <1>2 DEF ParamsInv, AllPlaced

-----------------------------------------------------------------------------
(* The steps.                                                              *)

LEMMA InitInv == Init => IndInv
<1> SUFFICES ASSUME Init PROVE IndInv
  OBVIOUS
<1>1. Fixed("stale") \in Texts /\ Fixed("stale").size = 0
  BY FixedFacts DEF Whats
<1>2. Stale \in [item : Texts, value : Texts] /\ Stale.item.size = 0 /\ Stale.value.size = 0
  BY <1>1, PairFacts DEF Stale
<1>3. pairs \in PairsType /\ SettledPairs(pairs, texts, 0)
  BY <1>2 DEF Init, PairsType, SettledPairs, Settled
<1>4. TypeOK
  BY <1>3, Sizes, FeeAssumption DEF Init, TypeOK, PairsType
<1> QED BY <1>3, <1>4 DEF Init, IndInv, PairsComplete, ParametersIntact, Shown

LEMMA DrawFeesInv ==
    ASSUME IndInv, DrawFees
    PROVE  IndInv'
<1>1. PICK size \in FeeSizes : texts' = Overwrite({Fee(size)}, {Signer})
  BY DEF DrawFees
<1>2. size \in 1 .. 67
  BY FeeAssumption DEF MAX_BUFFER_LEN
<1>3. GoodTexts({Fee(size)})
  <2>1. Slot(PARAMETERS_MAX_NUM) + AMOUNT_SIZE \in Nat /\ "GAS_FEE" \in Whats
    BY Sizes DEF Slot, MAX_BUFFER_LEN, AMOUNT_SIZE, Whats
  <2> DEFINE at == Slot(PARAMETERS_MAX_NUM) + AMOUNT_SIZE
  <2>3. Fee(size) = Text(at, size, "GAS_FEE", 0)
    BY DEF Fee
  <2>4. at \in Nat /\ size \in Nat /\ 0 \in Nat
    BY <1>2, <2>1
  <2> HIDE DEF at
  <2>5. Fee(size) \in Texts /\ Fee(size).size = size /\ Fee(size).at = at
    BY <2>1, <2>3, <2>4, TextFacts
  <2>2. /\ Fee(size) \in Texts /\ Fee(size).size = size
        /\ Fee(size).at = Slot(PARAMETERS_MAX_NUM) + AMOUNT_SIZE
    BY <2>5 DEF at
  <2> QED BY <1>2, <2>2, Sizes DEF GoodTexts, Slot, MAX_BUFFER_LEN, AMOUNT_SIZE
<1>4. GoodTexts(texts') /\ Signer \in texts'
  BY <1>1, <1>3, SignerFacts, OverwriteGood
<1>5. pairs \in PairsType /\ SettledPairs(pairs, texts, 0)
  BY TypeFacts DEF IndInv, DrawFees, At_
<1>6. SettledPairs(pairs, texts', 0)
  BY <1>5, SettledAtZero
<1>7. ~Blind => Len(Layout) \in 1 .. 4
  BY TransactionFacts DEF IndInv, GoodLayout
<1>8. TypeOK'
  <2>1. /\ i' = 0
        /\ \/ stage' = "blind" /\ nbPairs' = 0
           \/ stage' = "params" /\ nbPairs' \in 1 .. 4
    BY <1>7, Zenon DEF DrawFees
  <2>2. nbPairs' \in 0 .. NUM_PAIRS /\ stage' \in {"blind", "params"} /\ i' = 0
    BY <2>1, Sizes
  <2>3. pairs' = pairs /\ curr' = curr /\ total' = total
    BY DEF DrawFees
  <2> QED BY <1>4, <2>2, <2>3 DEF IndInv, TypeOK, GoodTexts
<1>9. stage' = "params" => ParamsInv'
  <2> SUFFICES ASSUME stage' = "params" PROVE ParamsInv'
    OBVIOUS
  <2>1. ~Blind /\ i' = 0 /\ nbPairs' = Len(Layout) /\ UNCHANGED <<tx, pairs>>
    BY DEF DrawFees, At_
  <2> QED BY <1>6, <1>7, <2>1 DEF ParamsInv, Blind, Layout
<1>10. /\ tx' \in Transactions /\ stage' \in {"blind", "params"}
       /\ pairs' = pairs
  BY DEF IndInv, DrawFees, At_
<1>11. SettledPairs(pairs, texts, 0)'
  BY <1>6, <1>10 DEF SettledPairs, Settled
<1> QED BY <1>4, <1>8, <1>9, <1>10, <1>11 DEF IndInv, PairsComplete, ParametersIntact, Shown

LEMMA RefuseInv ==
    ASSUME IndInv, Refuse
    PROVE  IndInv'
<1>1. TypeOK'
  BY DEF IndInv, Refuse, TypeOK
<1> QED BY <1>1 DEF IndInv, Refuse, PairsComplete, ParametersIntact, Shown

\* A step to the stage that closes the page.
LEMMA ToClosing ==
    ASSUME IndInv, stage' = "closing", tx' = tx, i' = i, curr' = curr,
           total' \in 0 .. WordSize - 1,
           nbPairs' \in Nat, nbPairs' <= PARAMETERS_MAX_NUM,
           GoodTexts(texts'), Signer \in texts', pairs' \in PairsType,
           AllIntact', AllPlaced'
    PROVE  IndInv'
<1>1. TypeOK'
  BY Sizes DEF IndInv, TypeOK, GoodTexts, PairsType
<1> QED BY <1>1 DEF IndInv, ClosingInv, PairsComplete, ParametersIntact, Shown

LEMMA FinishParamsInv ==
    ASSUME IndInv, FinishParams
    PROVE  IndInv'
<1>1. stage = "params" /\ i = Len(Layout) /\ ParamsInv /\ TypeOK /\ Signer \in texts
  BY DEF IndInv, FinishParams, ParamsPlaced, At_
<1>2. AllPlaced /\ i \in 1 .. 4 /\ AllIntact
  BY <1>1, ParamsAllPlaced, SettledIntact DEF ParamsInv
<1>3. UNCHANGED <<tx, texts, pairs, nbPairs, i, curr, total>> /\ stage' = "closing"
  BY DEF FinishParams, ParamsPlaced, At_
<1>4. AllIntact' /\ AllPlaced'
  BY <1>2, <1>3 DEF AllIntact, Intact, AllPlaced, Placed
<1>5. nbPairs' \in Nat /\ nbPairs' <= PARAMETERS_MAX_NUM
  BY <1>1, <1>2, <1>3, Sizes DEF ParamsInv
<1>6. GoodTexts(texts') /\ pairs' \in PairsType /\ total' \in 0 .. WordSize - 1
  BY <1>1, <1>3, TypeFacts DEF TypeOK
<1> QED BY <1>1, <1>3, <1>4, <1>5, <1>6, ToClosing

LEMMA FinishPeersInv ==
    ASSUME IndInv, FinishPeers
    PROVE  IndInv'
<1>1. stage = "peers" /\ PeersInv /\ TypeOK /\ Signer \in texts
  BY DEF IndInv, FinishPeers, At_
<1>2. AllPlaced /\ AllIntact
  BY <1>1, SettledIntact DEF PeersInv
<1>3. UNCHANGED <<tx, texts, pairs, nbPairs, i, curr, total>> /\ stage' = "closing"
  BY DEF FinishPeers, At_
<1>4. AllIntact' /\ AllPlaced'
  BY <1>2, <1>3 DEF AllIntact, Intact, AllPlaced, Placed
<1>5. nbPairs' \in Nat /\ nbPairs' <= PARAMETERS_MAX_NUM
  BY <1>1, <1>3, Sizes DEF PeersInv, TypeOK
<1>6. GoodTexts(texts') /\ pairs' \in PairsType /\ total' \in 0 .. WordSize - 1
  BY <1>1, <1>3, TypeFacts DEF TypeOK
<1> QED BY <1>1, <1>3, <1>4, <1>5, <1>6, ToClosing

LEMMA FinishTransfersInv ==
    ASSUME IndInv, FinishTransfers
    PROVE  IndInv'
<1>1. stage = "transfers" /\ TransfersInv /\ TypeOK /\ Signer \in texts
  BY DEF IndInv, FinishTransfers, At_
<1>2. AllPlaced /\ AllIntact
  BY <1>1, SettledIntact DEF TransfersInv
<1>3. UNCHANGED <<tx, texts, pairs, nbPairs, i, curr, total>> /\ stage' = "closing"
  BY DEF FinishTransfers, At_
<1>4. AllIntact' /\ AllPlaced'
  BY <1>2, <1>3 DEF AllIntact, Intact, AllPlaced, Placed
<1>5. nbPairs' \in Nat /\ nbPairs' <= PARAMETERS_MAX_NUM
  BY <1>1, <1>3 DEF TransfersInv, TypeOK
<1>6. GoodTexts(texts') /\ pairs' \in PairsType /\ total' \in 0 .. WordSize - 1
  BY <1>1, <1>3, TypeFacts DEF TypeOK
<1> QED BY <1>1, <1>3, <1>4, <1>5, <1>6, ToClosing

LEMMA AddStakeFeeInv ==
    ASSUME IndInv, AddStakeFee
    PROVE  IndInv'
<1>1. stage = "params" /\ i = Len(Layout) /\ ParamsInv /\ TypeOK /\ Signer \in texts
  BY DEF IndInv, AddStakeFee, ParamsPlaced, At_
<1>2. AllPlaced /\ nbPairs \in 1 .. 4 /\ i \in Nat
  BY <1>1, ParamsAllPlaced DEF ParamsInv
<1> DEFINE item  == Fixed("STAKE_FEE")
           value == Fixed("STAKE_FEE_ONG")
<1>3. /\ UNCHANGED <<tx, texts, i, curr, total>> /\ stage' = "closing"
      /\ pairs' = [pairs EXCEPT ![nbPairs] = Pair(item, value)] /\ nbPairs' = nbPairs + 1
  BY DEF AddStakeFee, ParamsPlaced, At_
<1>4. /\ item \in Texts /\ value \in Texts /\ item.says.what = "STAKE_FEE"
      /\ Settled(item, texts, i) /\ Settled(value, texts, i)
  BY FixedFacts, FixedSettled DEF Whats
<1>5. pairs \in PairsType /\ nbPairs \in 0 .. NUM_PAIRS - 1
  BY <1>1, <1>2, TypeFacts, Sizes
<1> HIDE DEF item, value
<1>6. pairs' \in PairsType /\ SettledPairs(pairs', texts, i)
  BY <1>1, <1>3, <1>4, <1>5, PairsExtend DEF ParamsInv
<1>7. AllIntact'
  BY <1>3, <1>6 DEF AllIntact, Intact, SettledPairs, Settled
<1>8. Pair(item, value).item = item
  BY <1>4, PairFacts
<1>9. AllPlaced'
  BY <1>2, <1>3, <1>4, <1>5, <1>8 DEF AllPlaced, Placed, PairsType
<1>10. /\ nbPairs' \in Nat /\ nbPairs' <= PARAMETERS_MAX_NUM
       /\ GoodTexts(texts') /\ total' \in 0 .. WordSize - 1
  BY <1>1, <1>2, <1>3, Sizes, TypeFacts DEF TypeOK
<1> QED BY <1>1, <1>3, <1>6, <1>7, <1>9, <1>10, ToClosing

LEMMA BlindSigningInv ==
    ASSUME IndInv, ui_display_bs_transaction
    PROVE  IndInv'
<1> DEFINE address == Param(0, 0)
           a == Fixed("BLIND_SIGN_TX")
           b == Fixed("BLIND_SIGNING")
           c == Fixed("CONTRACT_ADDRESS")
           ps == [pairs EXCEPT ![0] = Pair(a, b)]
<1>1. /\ stage = "blind" /\ TypeOK /\ Signer \in texts /\ SettledPairs(pairs, texts, 0)
      /\ pairs \in PairsType /\ GoodTexts(texts)
  BY TypeFacts DEF IndInv, ui_display_bs_transaction, At_
<1>2. /\ UNCHANGED <<tx, i, curr, total>> /\ stage' = "closing" /\ nbPairs' = 2
      /\ texts' = Overwrite(texts, {address})
      /\ pairs' = [pairs EXCEPT ![0] = Pair(a, b), ![1] = Pair(c, address)]
  BY DEF ui_display_bs_transaction, At_
<1>3. /\ a \in Texts /\ b \in Texts /\ c \in Texts
      /\ a.says.what = "BLIND_SIGN_TX" /\ c.says.what = "CONTRACT_ADDRESS"
      /\ Settled(a, texts', 1) /\ Settled(b, texts', 1) /\ Settled(c, texts', 1)
  BY FixedFacts, FixedSettled DEF Whats
<1>4. /\ GoodTexts({address}) /\ address \in Texts /\ address.at = Slot(0)
      /\ address.at + address.size = Slot(1)
  <2>1. 0 \in Nat /\ 0 < NUM_PAIRS /\ 0 + 1 = 1
    BY Sizes
  <2> QED BY <2>1, ParamFacts, ParamGood
<1> HIDE DEF a, b, c, address
<1>5. GoodTexts(texts') /\ address \in texts'
  BY <1>1, <1>2, <1>4, OverwriteGood
<1>6. Signer \in texts'
  <2>1. Slot(1) <= Slot(PARAMETERS_MAX_NUM + 1)
    BY Sizes DEF Slot, MAX_BUFFER_LEN
  <2> QED BY <1>1, <1>2, <1>4, <2>1, SignerStays
<1>7. SettledPairs(pairs, texts', 1)
  <2>1. 0 \in Nat /\ 1 \in Nat /\ 0 <= 1 /\ {address} \subseteq Texts
    BY <1>4
  <2>2. \A u \in {address} : u.at >= Slot(0) \/ u.at + u.size = 0
    BY <1>4 DEF Slot, MAX_BUFFER_LEN
  <2> QED BY <1>1, <1>2, <2>1, <2>2, PairsStaySettled
<1>8. Settled(address, texts', 1)
  BY <1>4, <1>5 DEF Settled, Slot, MAX_BUFFER_LEN
<1>9. 0 \in 0 .. NUM_PAIRS - 1 /\ 1 \in 0 .. NUM_PAIRS - 1
  BY Sizes
<1>10. ps \in PairsType /\ SettledPairs(ps, texts', 1)
  BY <1>1, <1>3, <1>7, <1>9, PairsExtend
<1>11. pairs' = [ps EXCEPT ![1] = Pair(c, address)]
  BY <1>2
<1> HIDE DEF ps
<1>12. pairs' \in PairsType /\ SettledPairs(pairs', texts', 1)
  BY <1>3, <1>4, <1>8, <1>9, <1>10, <1>11, PairsExtend
<1>13. AllIntact'
  BY <1>12 DEF AllIntact, Intact, SettledPairs, Settled
<1>14. Pair(a, b).item = a /\ Pair(c, address).item = c
  BY <1>3, <1>4, PairFacts
<1>15. AllPlaced'
  BY <1>1, <1>2, <1>3, <1>9, <1>14 DEF AllPlaced, Placed, PairsType
<1>16. nbPairs' \in Nat /\ nbPairs' <= PARAMETERS_MAX_NUM /\ total' \in 0 .. WordSize - 1
  BY <1>1, <1>2, Sizes DEF TypeOK
<1> QED BY <1>1, <1>2, <1>5, <1>6, <1>12, <1>13, <1>15, <1>16, ToClosing

LEMMA PlaceParamInv ==
    ASSUME IndInv, PlaceParam
    PROVE  IndInv'
<1> DEFINE text == Param(i, i)
           label == Layout[i + 1]
           item == Fixed(label.item)
<1>1. /\ stage = "params" /\ ParamsInv /\ TypeOK /\ Signer \in texts
      /\ pairs \in PairsType /\ GoodTexts(texts) /\ GoodLayout(Layout) /\ tx \in Transactions
  BY TypeFacts, TransactionFacts DEF IndInv, PlaceParam, At_, ParamsInv
<1>2. /\ i \in 0 .. 3 /\ i + 1 \in 0 .. 4
      /\ \A k \in 1 .. i + 1 : Layout[k].item \in Items /\ Layout[k].pos \in 0 .. NUM_PAIRS - 1
  <2>1. PICK n \in 1 .. 4 : Len(Layout) = n
    BY <1>1 DEF GoodLayout
  <2>2. i \in Nat /\ i < n
    BY <1>1, <2>1 DEF PlaceParam, TypeOK
  <2>3. \A k \in 1 .. n : Layout[k].item \in Items /\ Layout[k].pos \in 0 .. n - 1
    BY <1>1, <2>1 DEF GoodLayout
  <2> QED BY <2>2, <2>3, Sizes
<1>3. /\ UNCHANGED <<tx, stage, nbPairs, curr, total>> /\ i' = i + 1
      /\ texts' = Overwrite(texts, {text})
      /\ pairs' = [pairs EXCEPT ![label.pos] = Pair(item, text)]
  BY DEF PlaceParam, At_
<1>4. /\ label.item \in Whats /\ label.item # "stale"
      /\ label.pos \in 0 .. NUM_PAIRS - 1
  BY <1>2, ItemFacts
<1>5. /\ GoodTexts({text}) /\ text \in Texts /\ text.at = Slot(i)
      /\ text.at + text.size = Slot(i + 1) /\ i < NUM_PAIRS
  <2>1. i \in Nat /\ i < NUM_PAIRS
    BY <1>2, Sizes
  <2> QED BY <2>1, ParamFacts, ParamGood
<1>6. item \in Texts /\ item.says.what # "stale" /\ Settled(item, texts', i + 1)
  BY <1>4, FixedFacts, FixedSettled
<1> HIDE DEF text, item
<1>7. GoodTexts(texts') /\ text \in texts'
  BY <1>1, <1>3, <1>5, OverwriteGood
<1>8. Signer \in texts'
  <2>1. Slot(i + 1) <= Slot(PARAMETERS_MAX_NUM + 1)
    BY <1>2, Sizes DEF Slot, MAX_BUFFER_LEN
  <2> QED BY <1>1, <1>3, <1>5, <2>1, SignerStays
<1>9. SettledPairs(pairs, texts', i + 1)
  <2>1. i + 1 \in Nat /\ i <= i + 1 /\ SettledPairs(pairs, texts, i)
    BY <1>1, <1>2 DEF ParamsInv
  <2>2. i \in Nat /\ {text} \subseteq Texts
    BY <1>2, <1>5
  <2>3. \A u \in {text} : u.at >= Slot(i) \/ u.at + u.size = 0
    BY <1>5, <2>2 DEF Slot, MAX_BUFFER_LEN
  <2> QED BY <1>1, <1>3, <2>1, <2>2, <2>3, PairsStaySettled
<1>10. Settled(text, texts', i + 1)
  BY <1>2, <1>5, <1>7 DEF Settled, Slot, MAX_BUFFER_LEN
<1>11. pairs' \in PairsType /\ SettledPairs(pairs', texts', i + 1)
  BY <1>1, <1>3, <1>4, <1>5, <1>6, <1>9, <1>10, PairsExtend
<1>12. Pair(item, text).item = item
  BY <1>5, <1>6, PairFacts
<1>13. \A k \in 1 .. i + 1 : pairs'[Layout[k].pos].item.says.what # "stale"
  <2> SUFFICES ASSUME NEW k \in 1 .. i + 1
               PROVE  pairs'[Layout[k].pos].item.says.what # "stale"
    OBVIOUS
  <2>1. Layout[k].pos \in 0 .. NUM_PAIRS - 1
    BY <1>2
  <2>2. CASE Layout[k].pos = label.pos
    BY <1>1, <1>3, <1>4, <1>6, <1>12, <2>2 DEF PairsType
  <2>3. CASE Layout[k].pos # label.pos
    <3>1. k \in 1 .. i
      BY <1>2, <2>3
    <3> QED BY <1>1, <1>3, <2>1, <2>3, <3>1 DEF PairsType, ParamsInv, Placed
  <2> QED BY <2>2, <2>3
<1>14. ParamsInv'
  <2>1. ~Blind' /\ Layout' = Layout /\ nbPairs' = Len(Layout)
    BY <1>1, <1>3 DEF ParamsInv, Blind, Layout
  <2>2. i' <= Len(Layout)
    BY <1>1, <1>3 DEF PlaceParam, TypeOK, GoodLayout
  <2> QED BY <1>3, <1>11, <1>13, <2>1, <2>2 DEF ParamsInv, Placed
<1>15. TypeOK'
  <2>1. i' \in Nat
    BY <1>2, <1>3
  <2> QED BY <1>1, <1>3, <1>7, <1>11, <2>1 DEF TypeOK, GoodTexts, PairsType
<1> QED BY <1>1, <1>3, <1>8, <1>14, <1>15 DEF IndInv, PairsComplete, ParametersIntact, Shown

LEMMA EnterPeersInv ==
    ASSUME IndInv, EnterPeers
    PROVE  IndInv'
<1>1. stage = "params" /\ i = Len(Layout) /\ ParamsInv /\ TypeOK /\ tx \in Transactions
  BY DEF IndInv, EnterPeers, ParamsPlaced, At_
<1>2. AllPlaced /\ i \in Nat
  BY <1>1, ParamsAllPlaced
<1>3. /\ UNCHANGED <<tx, texts, pairs, nbPairs, total>> /\ stage' = "peers"
      /\ i' = 0 /\ curr' = nbPairs /\ Peers
  BY DEF EnterPeers, ParamsPlaced, At_
<1>4. Len(Layout) = 1
  BY <1>1, <1>3, TransactionFacts DEF ParamsInv, Peers
<1>5. nbPairs = 1 /\ i = 1 /\ SettledPairs(pairs, texts, 1) /\ ~Blind
  BY <1>1, <1>4 DEF ParamsInv
<1>6. PeersInv'
  BY <1>2, <1>3, <1>5
     DEF PeersInv, AllPlaced, Placed, Blind, Peers, Native, SettledPairs, Settled
<1>7. TypeOK'
  BY <1>1, <1>3, <1>5 DEF TypeOK
<1> QED BY <1>1, <1>3, <1>6, <1>7 DEF IndInv, PairsComplete, ParametersIntact, Shown

LEMMA EnterTransfersInv ==
    ASSUME IndInv, EnterTransfers
    PROVE  IndInv'
<1>1. stage = "params" /\ i = Len(Layout) /\ ParamsInv /\ TypeOK /\ tx \in Transactions
  BY DEF IndInv, EnterTransfers, ParamsPlaced, At_
<1>2. AllPlaced /\ i \in Nat
  BY <1>1, ParamsAllPlaced
<1>3. /\ UNCHANGED <<tx, texts, pairs, nbPairs, curr, total>> /\ stage' = "transfers"
      /\ i' = 1 /\ Native /\ tx.method \in TransferMethods
  BY DEF EnterTransfers, ParamsPlaced, At_
<1>4. Len(Layout) = 3
  BY <1>1, <1>3, TransactionFacts DEF ParamsInv
<1>5. nbPairs = 3 /\ i = 3 /\ SettledPairs(pairs, texts, 3) /\ ~Blind
  BY <1>1, <1>4 DEF ParamsInv
<1>6. 3 * i' = 3 /\ 3 * i' <= PARAMETERS_MAX_NUM /\ nbPairs' = 3 * i'
  BY <1>3, <1>5, Sizes
<1>7. SettledPairs(pairs', texts', 3 * i') /\ AllPlaced'
  BY <1>2, <1>3, <1>5, <1>6 DEF AllPlaced, Placed
<1>8. TransfersInv'
  BY <1>3, <1>5, <1>6, <1>7 DEF TransfersInv, Blind, Native
<1>9. TypeOK'
  BY <1>1, <1>3 DEF TypeOK
<1> QED BY <1>1, <1>3, <1>8, <1>9 DEF IndInv, PairsComplete, ParametersIntact, Shown

LEMMA AddAmountInv ==
    ASSUME IndInv, AddAmount
    PROVE  IndInv'
<1>1. /\ stage = "amounts" /\ AmountsInv /\ TypeOK /\ tx \in Transactions
      /\ i \in Nat /\ i < pubkey_num /\ total \in Nat /\ WordSize \in Nat \ {0}
  BY FeeAssumption DEF IndInv, AddAmount, At_, TypeOK
<1>2. /\ UNCHANGED <<tx, stage, texts, pairs, nbPairs, curr>> /\ i' = i + 1
      /\ total' = (total + Amount) % WordSize
  BY DEF AddAmount, At_
<1>3. Amount \in Nat
  <2>1. pubkey_num \in Nat /\ Len(tx.params) = 2 + 2 * pubkey_num
    BY <1>1, TransactionFacts DEF AmountsInv
  <2>2. i + 2 + pubkey_num \in 0 .. Len(tx.params) - 1
    BY <1>1, <2>1
  <2> QED BY <1>1, <2>2, TransactionFacts DEF Amount
<1>4. total' \in 0 .. WordSize - 1 /\ i' \in Nat
  BY <1>1, <1>2, <1>3
<1>5. TypeOK'
  BY <1>1, <1>2, <1>4 DEF TypeOK
<1>6. AmountsInv'
  BY <1>1, <1>2
     DEF AmountsInv, AllPlaced, Placed, Blind, Peers, Native, SettledPairs, Settled
<1> QED BY <1>1, <1>2, <1>5, <1>6 DEF IndInv, PairsComplete, ParametersIntact, Shown

LEMMA PlaceTotalInv ==
    ASSUME IndInv, PlaceTotal
    PROVE  IndInv'
<1> DEFINE item == Fixed("TOTAL")
           P    == PARAMETERS_MAX_NUM
<1>1. /\ stage = "amounts" /\ AmountsInv /\ TypeOK /\ Signer \in texts
      /\ pairs \in PairsType /\ GoodTexts(texts) /\ nbPairs \in 0 .. 8
      /\ SettledPairs(pairs, texts, P) /\ AllPlaced
  BY TypeFacts DEF IndInv, PlaceTotal, At_, TypeOK, AmountsInv
<1>2. /\ UNCHANGED <<tx, i, curr, total>> /\ stage' = "closing" /\ nbPairs' = nbPairs + 1
      /\ texts' = Overwrite(texts, {Total})
      /\ pairs' = [pairs EXCEPT ![nbPairs] = Pair(item, Total)]
  BY DEF PlaceTotal, At_
<1>3. item \in Texts /\ item.says.what = "TOTAL" /\ Settled(item, texts', P + 1)
  BY FixedFacts, FixedSettled DEF Whats
<1>4. Total \in Texts /\ Total.at = Slot(P) /\ Total.size = AMOUNT_SIZE
  <2>1. Slot(P) \in Nat /\ AMOUNT_SIZE \in Nat /\ "TOTAL" \in Whats
    BY Sizes DEF Slot, MAX_BUFFER_LEN, AMOUNT_SIZE, Whats
  <2> QED BY <2>1, TextFacts DEF Total
<1> HIDE DEF item
<1>5. GoodTexts({Total}) /\ Total.at + Total.size <= Slot(P + 1)
  BY <1>4, Sizes DEF GoodTexts, Slot, MAX_BUFFER_LEN, AMOUNT_SIZE
<1>6. GoodTexts(texts') /\ Total \in texts' /\ Signer \in texts'
  BY <1>1, <1>2, <1>4, <1>5, OverwriteGood, SignerStays
<1>7. SettledPairs(pairs, texts', P + 1)
  <2>1. P \in Nat /\ P + 1 \in Nat /\ P <= P + 1 /\ {Total} \subseteq Texts
    BY <1>4, Sizes
  <2>2. \A u \in {Total} : u.at >= Slot(P) \/ u.at + u.size = 0
    BY <1>4, Sizes DEF Slot, MAX_BUFFER_LEN
  <2> QED BY <1>1, <1>2, <2>1, <2>2, PairsStaySettled
<1>8. Settled(Total, texts', P + 1)
  BY <1>5, <1>6 DEF Settled
<1>9. nbPairs \in 0 .. NUM_PAIRS - 1
  BY <1>1, Sizes
<1>10. pairs' \in PairsType /\ SettledPairs(pairs', texts', P + 1)
  BY <1>1, <1>2, <1>3, <1>4, <1>7, <1>8, <1>9, PairsExtend
<1>11. AllIntact'
  BY <1>10 DEF AllIntact, Intact, SettledPairs, Settled
<1>12. Pair(item, Total).item = item
  BY <1>3, <1>4, PairFacts
<1>13. AllPlaced'
  BY <1>1, <1>2, <1>3, <1>9, <1>12 DEF AllPlaced, Placed, PairsType
<1>14. nbPairs' \in Nat /\ nbPairs' <= P /\ total' \in 0 .. WordSize - 1
  BY <1>1, <1>2, Sizes DEF TypeOK
<1> QED BY <1>1, <1>2, <1>6, <1>10, <1>11, <1>13, <1>14, ToClosing

LEMMA PlaceRestInv ==
    ASSUME IndInv, PlaceRest
    PROVE  IndInv'
<1> DEFINE item == Fixed("NODE_AMOUNT")
           rest == Text(Slot(curr), MAX_BUFFER_LEN, "NODE_AMOUNT", pubkey_num - MAX_PUBKEY_DISPLAY)
           P    == PARAMETERS_MAX_NUM
<1>1. /\ stage = "peers" /\ PeersInv /\ TypeOK /\ Signer \in texts /\ tx \in Transactions
      /\ pairs \in PairsType /\ GoodTexts(texts) /\ AllPlaced
      /\ SettledPairs(pairs, texts, curr)
  BY TypeFacts DEF IndInv, PlaceRest, At_, PeersInv
<1>2. /\ UNCHANGED tx /\ stage' = "amounts" /\ nbPairs' = nbPairs + 1
      /\ i' = 0 /\ curr' = curr + 1 /\ total' = 0
      /\ texts' = Overwrite(texts, {rest})
      /\ pairs' = [pairs EXCEPT ![nbPairs] = Pair(item, rest)]
      /\ pubkey_num > MAX_PUBKEY_DISPLAY
  BY DEF PlaceRest, At_
<1>3. curr \in 0 .. 13 /\ nbPairs \in 0 .. 7
  BY <1>1 DEF PeersInv, TypeOK
<1>4. item \in Texts /\ item.says.what = "NODE_AMOUNT" /\ Settled(item, texts', P)
  BY FixedFacts, FixedSettled DEF Whats
<1>5. rest \in Texts /\ rest.at = Slot(curr) /\ rest.size = MAX_BUFFER_LEN
  <2>1. pubkey_num \in Nat
    BY <1>1, TransactionFacts DEF PeersInv
  <2>2. /\ Slot(curr) \in Nat /\ MAX_BUFFER_LEN \in Nat /\ "NODE_AMOUNT" \in Whats
        /\ pubkey_num - MAX_PUBKEY_DISPLAY \in Nat
    BY <1>2, <1>3, <2>1 DEF Slot, MAX_BUFFER_LEN, MAX_PUBKEY_DISPLAY, Whats
  <2> QED BY <2>2, TextFacts
<1> HIDE DEF item, rest
<1>6. GoodTexts({rest}) /\ rest.at + rest.size <= Slot(P)
  BY <1>3, <1>5, Sizes DEF GoodTexts, Slot, MAX_BUFFER_LEN
<1>7. GoodTexts(texts') /\ rest \in texts'
  BY <1>1, <1>2, <1>6, OverwriteGood
<1>8. Signer \in texts'
  <2>1. rest.at + rest.size <= Slot(P + 1)
    BY <1>3, <1>5, Sizes DEF Slot, MAX_BUFFER_LEN
  <2> QED BY <1>1, <1>2, <1>5, <2>1, SignerStays
<1>9. SettledPairs(pairs, texts', P)
  <2>1. curr \in Nat /\ P \in Nat /\ curr <= P /\ {rest} \subseteq Texts
    BY <1>3, <1>5, Sizes
  <2>2. \A u \in {rest} : u.at >= Slot(curr) \/ u.at + u.size = 0
    BY <1>3, <1>5 DEF Slot, MAX_BUFFER_LEN
  <2> QED BY <1>1, <1>2, <2>1, <2>2, PairsStaySettled
<1>10. Settled(rest, texts', P)
  BY <1>6, <1>7 DEF Settled
<1>11. nbPairs \in 0 .. NUM_PAIRS - 1
  BY <1>3, Sizes
<1>12. pairs' \in PairsType /\ SettledPairs(pairs', texts', P)
  BY <1>1, <1>2, <1>4, <1>5, <1>9, <1>10, <1>11, PairsExtend
<1>13. Pair(item, rest).item = item
  BY <1>4, <1>5, PairFacts
<1>14. AllPlaced'
  BY <1>1, <1>2, <1>3, <1>4, <1>11, <1>13 DEF AllPlaced, Placed, PairsType
<1>15. AmountsInv'
  <2>1. ~Blind' /\ Peers'
    BY <1>1, <1>2 DEF PeersInv, Blind, Peers, Native
  <2>2. nbPairs' <= 8
    BY <1>2, <1>3
  <2>3. SettledPairs(pairs, texts, P)'
    BY <1>12 DEF SettledPairs, Settled
  <2> QED BY <1>14, <2>1, <2>2, <2>3 DEF AmountsInv
<1>16. TypeOK'
  <2>1. nbPairs' \in 0 .. NUM_PAIRS /\ curr' \in Nat /\ total' \in 0 .. WordSize - 1 /\ i' \in Nat
    BY <1>2, <1>3, Sizes, FeeAssumption
  <2> QED BY <1>2, <1>7, <1>12, <2>1 DEF TypeOK, GoodTexts, PairsType
<1> QED BY <1>1, <1>2, <1>8, <1>15, <1>16 DEF IndInv, PairsComplete, ParametersIntact, Shown

\* A text that fills the slots from n up to m, or a string constant.
Fills(t, n, m) ==
    \/ t.at = 0 /\ t.size = 0 /\ m = n
    \/ t.at = Slot(n) /\ t.size = MAX_BUFFER_LEN /\ m = n + 1

\* Writing the next slot spoils nothing that is settled below it.
LEMMA WriteNext ==
    ASSUME NEW old, GoodTexts(old), Signer \in old,
           NEW n \in 0 .. 12, NEW m \in Nat, NEW t \in Texts, Fills(t, n, m)
    PROVE  /\ GoodTexts(Overwrite(old, {t})) /\ Signer \in Overwrite(old, {t})
           /\ m \in {n, n + 1} /\ Settled(t, Overwrite(old, {t}), m)
           /\ \A u \in Texts : Settled(u, old, n) => Settled(u, Overwrite(old, {t}), m)
           /\ \A ps \in PairsType : SettledPairs(ps, old, n) => SettledPairs(ps, Overwrite(old, {t}), m)
<1>1. m \in {n, n + 1} /\ n \in Nat /\ n <= m /\ {t} \subseteq Texts
  BY DEF Fills
<1>2. /\ \A u \in {t} : u.at >= Slot(n) \/ u.at + u.size = 0
      /\ t.at + t.size <= Slot(m)
      /\ t.at + t.size <= Slot(PARAMETERS_MAX_NUM + 1) /\ t.at + t.size <= Slot(NUM_PAIRS)
  BY Sizes DEF Fills, Slot, MAX_BUFFER_LEN
<1>3. GoodTexts({t})
  BY <1>2 DEF GoodTexts
<1>4. GoodTexts(Overwrite(old, {t})) /\ t \in Overwrite(old, {t})
  BY <1>3, OverwriteGood
<1>5. Signer \in Overwrite(old, {t})
  BY <1>1, <1>2, SignerStays
<1>6. Settled(t, Overwrite(old, {t}), m)
  BY <1>2, <1>4 DEF Settled
<1>7. \A u \in Texts : Settled(u, old, n) => Settled(u, Overwrite(old, {t}), m)
  BY <1>1, <1>2, SettledStays
<1>8. \A ps \in PairsType : SettledPairs(ps, old, n) => SettledPairs(ps, Overwrite(old, {t}), m)
  BY <1>1, <1>2, PairsStaySettled
<1> QED BY <1>1, <1>4, <1>5, <1>6, <1>7, <1>8

LEMMA LabelFacts ==
    ASSUME NEW slot \in Nat, NEW item \in Whats, i \in Nat
    PROVE  /\ Label(slot, item) \in Texts /\ Label(slot, item).says.what = item
           /\ Fills(Label(slot, item), slot, slot + LabelSlots) /\ LabelSlots \in {0, 1}
<1>1. /\ Slot(slot) \in Nat /\ MAX_BUFFER_LEN \in Nat /\ i + 1 \in Nat
  BY DEF Slot, MAX_BUFFER_LEN
<1>2. CASE i = 0 /\ pubkey_num = 1
  BY <1>2, FixedFacts DEF Label, LabelSlots, Fills
<1>3. CASE ~(i = 0 /\ pubkey_num = 1)
  BY <1>1, <1>3, TextFacts DEF Label, LabelSlots, Fills
<1> QED BY <1>2, <1>3

LEMMA ParamFills ==
    ASSUME NEW slot \in Nat, NEW k \in Nat
    PROVE  Param(slot, k) \in Texts /\ Fills(Param(slot, k), slot, slot + 1)
  BY ParamFacts DEF Fills

\* A label and its value can be placed in the slots from n up to m, as pair p.
CanPlace(old, ps, n, k, m, label, value, p) ==
    /\ GoodTexts(old) /\ Signer \in old
    /\ ps \in PairsType /\ n \in 0 .. 11 /\ SettledPairs(ps, old, n)
    /\ k \in Nat /\ m \in Nat /\ label \in Texts /\ value \in Texts
    /\ Fills(label, n, k) /\ Fills(value, k, m) /\ p \in 0 .. NUM_PAIRS - 1

\* The result of placing them.
IsPlaced(new, qs, ps, m, label, p) ==
    /\ GoodTexts(new) /\ Signer \in new
    /\ qs \in PairsType /\ SettledPairs(qs, new, m)
    /\ qs[p].item = label /\ \A q \in 0 .. NUM_PAIRS - 1 : q # p => qs[q] = ps[q]

LEMMA LabelledPair ==
    ASSUME NEW old, NEW ps, NEW n, NEW k, NEW m, NEW label, NEW value, NEW p,
           CanPlace(old, ps, n, k, m, label, value, p)
    PROVE  IsPlaced(Overwrite(Overwrite(old, {label}), {value}),
                    [ps EXCEPT ![p] = Pair(label, value)], ps, m, label, p)
<1> DEFINE new == Overwrite(Overwrite(old, {label}), {value})
           qs  == [ps EXCEPT ![p] = Pair(label, value)]
<1>a. /\ GoodTexts(old) /\ Signer \in old
      /\ ps \in PairsType /\ n \in 0 .. 11 /\ SettledPairs(ps, old, n)
      /\ k \in Nat /\ m \in Nat /\ label \in Texts /\ value \in Texts
      /\ Fills(label, n, k) /\ Fills(value, k, m) /\ p \in 0 .. NUM_PAIRS - 1
  BY DEF CanPlace
<1> DEFINE mid == Overwrite(old, {label})
<1>0. new = Overwrite(mid, {value})
  OBVIOUS
<1> HIDE DEF new
<1>1. n \in 0 .. 12 /\ k \in 0 .. 12
  BY <1>a DEF Fills
<1>2. /\ GoodTexts(mid) /\ Signer \in mid /\ Settled(label, mid, k)
      /\ SettledPairs(ps, mid, k)
  BY <1>a, <1>1, WriteNext
<1> HIDE DEF mid
<1>3. /\ GoodTexts(new) /\ Signer \in new /\ Settled(label, new, m)
      /\ Settled(value, new, m) /\ SettledPairs(ps, new, m)
  <2>1. /\ GoodTexts(new) /\ Signer \in new /\ Settled(value, new, m)
        /\ \A u \in Texts : Settled(u, mid, k) => Settled(u, new, m)
        /\ \A rs \in PairsType : SettledPairs(rs, mid, k) => SettledPairs(rs, new, m)
    BY <1>a, <1>0, <1>1, <1>2, WriteNext
  <2> QED BY <1>a, <1>2, <2>1
<1>4. qs \in PairsType /\ SettledPairs(qs, new, m)
  BY <1>a, <1>3, PairsExtend
<1>5. qs[p].item = label /\ \A q \in 0 .. NUM_PAIRS - 1 : q # p => qs[q] = ps[q]
  BY <1>a, PairFacts DEF PairsType
<1> QED BY <1>3, <1>4, <1>5 DEF IsPlaced, new

LEMMA PlacePeerInv ==
    ASSUME IndInv, PlacePeer
    PROVE  IndInv'
<1> DEFINE both         == pubkey_num <= MAX_PUBKEY_DISPLAY
           s            == LabelSlots
           n            == curr + s + 1
           key          == Param(KeySlot, i + 2)
           amount       == Param(KeySlot + 1 + LabelSlots, i + 2 + pubkey_num)
           key_label    == Label(curr, "PEER_PUBKEY")
           amount_label == Label(KeySlot + 1, "PEER_AMOUNT")
           keys         == Overwrite(Overwrite(texts, {key_label}), {key})
           ps           == [pairs EXCEPT ![nbPairs] = Pair(key_label, key)]
<1>1. /\ stage = "peers" /\ PeersInv /\ TypeOK /\ Signer \in texts /\ tx \in Transactions
      /\ pairs \in PairsType /\ GoodTexts(texts) /\ AllPlaced
      /\ SettledPairs(pairs, texts, curr) /\ ~Blind /\ Peers
      /\ nbPairs <= 1 + 2 * i /\ curr <= 1 + 4 * i /\ nbPairs \in Nat /\ curr \in Nat /\ i \in Nat
  BY TypeFacts DEF IndInv, PlacePeer, At_, PeersInv, TypeOK
<1>2. /\ UNCHANGED <<tx, stage, total>> /\ i' = i + 1 /\ i < Displayed
      /\ texts' = IF both THEN Overwrite(Overwrite(keys, {amount_label}), {amount}) ELSE keys
      /\ pairs' = IF both THEN [pairs EXCEPT ![nbPairs] = Pair(key_label, key),
                                             ![nbPairs + 1] = Pair(amount_label, amount)]
                          ELSE ps
      /\ nbPairs' = nbPairs + (IF both THEN 2 ELSE 1)
      /\ curr' = n + (IF both THEN s + 1 ELSE 0)
  BY DEF PlacePeer, At_, KeySlot
<1>3. pubkey_num \in Nat /\ i \in 0 .. 2
  <2>1. pubkey_num \in Nat
    BY <1>1, TransactionFacts
  <2> QED BY <1>1, <1>2, <2>1 DEF Displayed, MAX_PUBKEY_DISPLAY
<1>4. curr \in 0 .. 9 /\ nbPairs \in 0 .. 5 /\ s \in {0, 1} /\ n \in 0 .. 11
  <2>1. s \in {0, 1}
    BY DEF LabelSlots
  <2> QED BY <1>1, <1>3, <2>1
<1>5. nbPairs \in 0 .. NUM_PAIRS - 1 /\ nbPairs + 1 \in 0 .. NUM_PAIRS - 1
  BY <1>4, Sizes
<1>6. "PEER_PUBKEY" \in Whats /\ "PEER_AMOUNT" \in Whats
  BY DEF Whats, Items
<1>7. /\ key_label \in Texts /\ key_label.says.what = "PEER_PUBKEY"
      /\ Fills(key_label, curr, curr + s)
  BY <1>1, <1>6, LabelFacts
<1>8. key \in Texts /\ Fills(key, curr + s, curr + s + 1)
  <2>1. curr + s \in Nat /\ i + 2 \in Nat
    BY <1>3, <1>4
  <2> QED BY <2>1, ParamFills DEF KeySlot
<1>9. /\ amount_label \in Texts /\ amount_label.says.what = "PEER_AMOUNT"
      /\ Fills(amount_label, n, n + s)
  <2>1. KeySlot + 1 = n /\ n \in Nat
    BY <1>4 DEF KeySlot
  <2> QED BY <1>1, <1>6, <2>1, LabelFacts
<1>10. amount \in Texts /\ Fills(amount, n + s, n + s + 1)
  <2>1. KeySlot + 1 + LabelSlots = n + s /\ n + s \in Nat /\ i + 2 + pubkey_num \in Nat
    BY <1>3, <1>4 DEF KeySlot
  <2> QED BY <2>1, ParamFills
<1> HIDE DEF key, amount, key_label, amount_label
<1>11. /\ GoodTexts(keys) /\ Signer \in keys /\ ps \in PairsType /\ SettledPairs(ps, keys, n)
       /\ ps[nbPairs].item = key_label
       /\ \A q \in 0 .. NUM_PAIRS - 1 : q # nbPairs => ps[q] = pairs[q]
  <2> DEFINE k == curr + s
  <2>1. curr \in 0 .. 11 /\ k \in Nat /\ n \in Nat
    BY <1>4
  <2>2. Fills(key_label, curr, k) /\ Fills(key, k, n)
    BY <1>4, <1>7, <1>8
  <2>3. keys = Overwrite(Overwrite(texts, {key_label}), {key})
    OBVIOUS
  <2>4. ps = [pairs EXCEPT ![nbPairs] = Pair(key_label, key)]
    OBVIOUS
  <2> HIDE DEF k, n, keys, ps
  <2>5. CanPlace(texts, pairs, curr, k, n, key_label, key, nbPairs)
    BY <1>1, <1>5, <1>7, <1>8, <2>1, <2>2 DEF CanPlace
  <2>6. IsPlaced(keys, ps, pairs, n, key_label, nbPairs)
    BY <2>3, <2>4, <2>5, LabelledPair
  <2> QED BY <2>6 DEF IsPlaced
<1>12. \A q \in 0 .. nbPairs : ps[q].item.says.what # "stale"
  BY <1>1, <1>4, <1>5, <1>7, <1>11 DEF AllPlaced, Placed
<1>13. /\ GoodTexts(texts') /\ Signer \in texts' /\ pairs' \in PairsType
       /\ SettledPairs(pairs', texts', curr') /\ AllPlaced'
       /\ nbPairs' <= 1 + 2 * i' /\ curr' <= 1 + 4 * i' /\ nbPairs' \in 0 .. NUM_PAIRS /\ curr' \in Nat
  <2>1. CASE ~both
    <3>1. texts' = keys /\ pairs' = ps /\ nbPairs' = nbPairs + 1 /\ curr' = n
      BY <1>2, <1>4, <2>1
    <3>2. AllPlaced'
      BY <1>4, <1>12, <3>1 DEF AllPlaced, Placed
    <3>3. /\ nbPairs' <= 1 + 2 * i' /\ curr' <= 1 + 4 * i'
          /\ nbPairs' \in 0 .. NUM_PAIRS /\ curr' \in Nat
      BY <1>1, <1>2, <1>4, <1>5, <3>1, Sizes
    <3> QED BY <1>11, <3>1, <3>2, <3>3
  <2>2. CASE both
    <3> DEFINE new == Overwrite(Overwrite(keys, {amount_label}), {amount})
               qs  == [ps EXCEPT ![nbPairs + 1] = Pair(amount_label, amount)]
    <3>1. texts' = new /\ pairs' = qs /\ nbPairs' = nbPairs + 2 /\ curr' = n + s + 1
      BY <1>2, <1>4, <2>2
    <3>2. s \in {0, 1}
      BY <1>4
    <3> HIDE DEF ps, keys, s
    <3>3. /\ GoodTexts(new) /\ Signer \in new /\ qs \in PairsType /\ SettledPairs(qs, new, n + s + 1)
          /\ qs[nbPairs + 1].item = amount_label
          /\ \A q \in 0 .. NUM_PAIRS - 1 : q # nbPairs + 1 => qs[q] = ps[q]
      <4> DEFINE k == n + s
                 m == n + s + 1
                 p == nbPairs + 1
      <4>1. n \in 0 .. 11 /\ k \in Nat /\ m \in Nat /\ p \in 0 .. NUM_PAIRS - 1
        BY <1>4, <1>5, <3>2
      <4>2. Fills(amount_label, n, k) /\ Fills(amount, k, m)
        BY <1>9, <1>10
      <4>3. new = Overwrite(Overwrite(keys, {amount_label}), {amount})
        OBVIOUS
      <4>4. qs = [ps EXCEPT ![p] = Pair(amount_label, amount)]
        OBVIOUS
      <4> HIDE DEF k, m, p, n
      <4>5. /\ GoodTexts(keys) /\ Signer \in keys /\ ps \in PairsType /\ SettledPairs(ps, keys, n)
            /\ amount \in Texts /\ amount_label \in Texts
        BY <1>9, <1>10, <1>11
      <4> HIDE DEF new, qs
      <4>6. CanPlace(keys, ps, n, k, m, amount_label, amount, p)
        BY <4>1, <4>2, <4>5 DEF CanPlace
      <4>7. IsPlaced(new, qs, ps, m, amount_label, p)
        BY <4>3, <4>4, <4>6, LabelledPair
      <4> QED BY <4>7 DEF IsPlaced, m, p
    <3> HIDE DEF new, qs, n
    <3>4. \A q \in 0 .. nbPairs + 1 : qs[q].item.says.what # "stale"
      <4> SUFFICES ASSUME NEW q \in 0 .. nbPairs + 1 PROVE qs[q].item.says.what # "stale"
        OBVIOUS
      <4>1. CASE q = nbPairs + 1
        BY <1>9, <3>3, <4>1
      <4>2. CASE q # nbPairs + 1
        <5>1. q \in 0 .. nbPairs /\ q \in 0 .. NUM_PAIRS - 1
          BY <1>4, <1>5, <4>2, Sizes
        <5> QED BY <1>12, <3>3, <4>2, <5>1
      <4> QED BY <4>1, <4>2
    <3>5. AllPlaced'
      <4>1. 0 .. nbPairs' - 1 = 0 .. nbPairs + 1
        BY <1>4, <3>1
      <4> QED BY <3>1, <3>4, <4>1 DEF AllPlaced, Placed
    <3>6. /\ nbPairs' <= 1 + 2 * i' /\ curr' <= 1 + 4 * i'
          /\ nbPairs' \in 0 .. NUM_PAIRS /\ curr' \in Nat
      BY <1>1, <1>2, <1>4, <1>5, <3>1, <3>2, Sizes DEF n
    <3> QED BY <3>1, <3>3, <3>5, <3>6
  <2> QED BY <2>1, <2>2
<1>14. PeersInv'
  <2>1. ~Blind' /\ Peers' /\ i' <= 3
    BY <1>1, <1>2, <1>3 DEF Blind, Peers, Native
  <2>2. SettledPairs(pairs, texts, curr)'
    BY <1>13 DEF SettledPairs, Settled
  <2> QED BY <1>13, <2>1, <2>2 DEF PeersInv
<1>15. TypeOK'
  <2>1. i' \in Nat
    BY <1>2, <1>3
  <2> QED BY <1>1, <1>2, <1>13, <2>1 DEF TypeOK, GoodTexts, PairsType
<1> QED BY <1>1, <1>2, <1>13, <1>14, <1>15 DEF IndInv, PairsComplete, ParametersIntact, Shown

LEMMA PlaceTransferInv ==
    ASSUME IndInv, PlaceTransfer
    PROVE  IndInv'
<1> DEFINE text(k)  == Param(3 * i + k, 3 * i + k)
           new      == {Param(3 * i + k, 3 * i + k) : k \in 0 .. 2}
           placed   == {Position(Layout[k].pos) : k \in 1 .. 3}
           entry(p) == CHOOSE k \in 0 .. 2 : Position(Layout[k + 1].pos) = p
           m        == 3 * (i + 1)
<1>1. /\ stage = "transfers" /\ TransfersInv /\ TypeOK /\ Signer \in texts /\ tx \in Transactions
      /\ pairs \in PairsType /\ GoodTexts(texts) /\ AllPlaced
      /\ SettledPairs(pairs, texts, 3 * i) /\ ~Blind
      /\ Native /\ tx.method \in TransferMethods
      /\ i \in Nat /\ i >= 1 /\ nbPairs = 3 * i
  BY TypeFacts DEF IndInv, PlaceTransfer, At_, TransfersInv, TypeOK
<1>2. /\ UNCHANGED <<tx, stage, curr, total>> /\ i' = i + 1 /\ nbPairs' = nbPairs + 3
      /\ texts' = Overwrite(texts, new)
      /\ pairs' = [p \in DOMAIN pairs \cup placed |->
                      IF p \in placed
                      THEN Pair(Fixed(Layout[entry(p) + 1].item), text(entry(p)))
                      ELSE pairs[p]]
      /\ 3 * i + 2 < PARAMETERS_MAX_NUM
  BY DEF PlaceTransfer, At_, MoreTransfers
<1>3. Len(Layout) = 3 /\ GoodLayout(Layout)
  BY <1>1, TransactionFacts
<1>4. /\ \A k \in 1 .. 3 : Layout[k].item \in Items /\ Layout[k].pos \in 0 .. 2
      /\ \A p \in 0 .. 2 : \E k \in 1 .. 3 : Layout[k].pos = p
  BY <1>3 DEF GoodLayout
<1>5. placed = 3 * i .. 3 * i + 2
  <2>1. \A p \in placed : p \in 3 * i .. 3 * i + 2
    BY <1>1, <1>4 DEF Position
  <2>2. ASSUME NEW p \in 3 * i .. 3 * i + 2 PROVE p \in placed
    <3>1. p - 3 * i \in 0 .. 2 /\ p = p - 3 * i + 3 * i
      BY <1>1
    <3>2. PICK k \in 1 .. 3 : Layout[k].pos = p - 3 * i
      BY <1>4, <3>1
    <3>3. Position(Layout[k].pos) = p
      BY <1>1, <3>1, <3>2 DEF Position
    <3> QED BY <3>3
  <2> QED BY <2>1, <2>2
<1>6. \A p \in placed : entry(p) \in 0 .. 2
  <2> SUFFICES ASSUME NEW p \in placed PROVE \E k \in 0 .. 2 : Position(Layout[k + 1].pos) = p
    OBVIOUS
  <2>1. PICK k \in 1 .. 3 : Position(Layout[k].pos) = p
    OBVIOUS
  <2>2. k - 1 \in 0 .. 2 /\ (k - 1) + 1 = k
    OBVIOUS
  <2> QED BY <2>1, <2>2
<1>7. \A k \in 0 .. 2 : /\ text(k) \in Texts /\ text(k) \in new
                        /\ text(k).at = Slot(3 * i + k) /\ text(k).size = MAX_BUFFER_LEN
                        /\ text(k).at + text(k).size <= Slot(m)
                        /\ text(k).at + text(k).size <= Slot(PARAMETERS_MAX_NUM)
                        /\ text(k).at >= Slot(3 * i)
  <2> SUFFICES ASSUME NEW k \in 0 .. 2
               PROVE  /\ text(k) \in Texts /\ text(k) \in new
                      /\ text(k).at = Slot(3 * i + k) /\ text(k).size = MAX_BUFFER_LEN
                      /\ text(k).at + text(k).size <= Slot(m)
                      /\ text(k).at + text(k).size <= Slot(PARAMETERS_MAX_NUM)
                      /\ text(k).at >= Slot(3 * i)
    OBVIOUS
  <2>1. 3 * i + k \in Nat
    BY <1>1
  <2>2. /\ text(k) \in Texts /\ text(k).at = Slot(3 * i + k) /\ text(k).size = MAX_BUFFER_LEN
    BY <2>1, ParamFacts
  <2>3. text(k) \in new
    OBVIOUS
  <2> HIDE DEF text
  <2>4. /\ text(k).at + text(k).size <= Slot(m)
        /\ text(k).at + text(k).size <= Slot(PARAMETERS_MAX_NUM)
        /\ text(k).at >= Slot(3 * i)
    BY <1>1, <1>2, <2>1, <2>2, Sizes DEF Slot, MAX_BUFFER_LEN
  <2> QED BY <2>2, <2>3, <2>4
<1>8. /\ new \subseteq Texts /\ GoodTexts(new)
      /\ \A u \in new : u.at >= Slot(3 * i) \/ u.at + u.size = 0
      /\ \A u \in new : u.at + u.size <= Slot(PARAMETERS_MAX_NUM + 1)
  <2>1. \A u \in new : \E k \in 0 .. 2 : u = text(k)
    OBVIOUS
  <2> HIDE DEF text, new
  <2>2. \A u \in new : /\ u \in Texts /\ u.at \in Nat /\ u.size \in Nat /\ u.at >= Slot(3 * i)
                       /\ u.at + u.size <= Slot(PARAMETERS_MAX_NUM)
    BY <1>7, <2>1 DEF Texts
  <2>3. /\ Slot(PARAMETERS_MAX_NUM) <= Slot(NUM_PAIRS)
        /\ Slot(PARAMETERS_MAX_NUM) <= Slot(PARAMETERS_MAX_NUM + 1)
        /\ Slot(PARAMETERS_MAX_NUM) \in Nat /\ Slot(NUM_PAIRS) \in Nat
        /\ Slot(PARAMETERS_MAX_NUM + 1) \in Nat
    BY Sizes DEF Slot, MAX_BUFFER_LEN
  <2> QED BY <2>2, <2>3 DEF GoodTexts
<1> HIDE DEF new, text, entry, placed
<1>9. GoodTexts(texts') /\ new \subseteq texts' /\ Signer \in texts'
  BY <1>1, <1>2, <1>8, OverwriteGood, SignerStays
<1>10. SettledPairs(pairs, texts', m) /\ m \in Nat /\ 3 * i \in Nat
  <2>1. 3 * i \in Nat /\ m \in Nat /\ 3 * i <= m
    BY <1>1
  <2> DEFINE n == 3 * i
  <2>2. n \in Nat /\ n <= m /\ SettledPairs(pairs, texts, n) /\ \A u \in new : u.at >= Slot(n) \/ u.at + u.size = 0
    BY <1>1, <1>8, <2>1
  <2> HIDE DEF n, m
  <2>3. SettledPairs(pairs, Overwrite(texts, new), m)
    BY <1>1, <1>8, <2>1, <2>2, PairsStaySettled
  <2> QED BY <1>2, <2>1, <2>3
<1>11. \A k \in 0 .. 2 : Settled(text(k), texts', m)
  BY <1>7, <1>9 DEF Settled
<1> HIDE DEF m
<1>12. DOMAIN pairs \cup placed = 0 .. NUM_PAIRS - 1
  <2>1. DOMAIN pairs = 0 .. NUM_PAIRS - 1
    BY <1>1 DEF PairsType
  <2>2. placed \subseteq 0 .. NUM_PAIRS - 1
    BY <1>1, <1>2, <1>5, Sizes
  <2> QED BY <2>1, <2>2
<1>13. \A p \in placed : LET item == Fixed(Layout[entry(p) + 1].item)
                         IN  /\ item \in Texts /\ item.says.what # "stale"
                             /\ Settled(item, texts', m)
  <2> SUFFICES ASSUME NEW p \in placed
               PROVE  LET item == Fixed(Layout[entry(p) + 1].item)
                      IN  /\ item \in Texts /\ item.says.what # "stale"
                          /\ Settled(item, texts', m)
    OBVIOUS
  <2>1. entry(p) + 1 \in 1 .. 3
    BY <1>6
  <2>2. Layout[entry(p) + 1].item \in Whats /\ Layout[entry(p) + 1].item # "stale"
    BY <1>4, <2>1, ItemFacts
  <2> QED BY <2>2, FixedFacts, FixedSettled
<1>14. \A p \in 0 .. NUM_PAIRS - 1 :
          /\ p \in placed => /\ pairs'[p].item.says.what # "stale"
                             /\ pairs'[p] \in [item : Texts, value : Texts]
                             /\ Settled(pairs'[p].item, texts', m)
                             /\ Settled(pairs'[p].value, texts', m)
          /\ p \notin placed => pairs'[p] = pairs[p]
  <2>1. \A p \in 0 .. NUM_PAIRS - 1 : p \notin placed => pairs'[p] = pairs[p]
    BY <1>2, <1>12
  <2>2. ASSUME NEW p \in placed
        PROVE  /\ pairs'[p].item.says.what # "stale"
               /\ pairs'[p] \in [item : Texts, value : Texts]
               /\ Settled(pairs'[p].item, texts', m) /\ Settled(pairs'[p].value, texts', m)
    <3> DEFINE item  == Fixed(Layout[entry(p) + 1].item)
               value == text(entry(p))
    <3>1. pairs'[p] = Pair(item, value)
      BY <1>2
    <3>2. item \in Texts /\ item.says.what # "stale" /\ Settled(item, texts', m)
      BY <1>13
    <3>3. value \in Texts /\ Settled(value, texts', m)
      BY <1>6, <1>7, <1>11
    <3> HIDE DEF item, value
    <3> QED BY <3>1, <3>2, <3>3, PairFacts
  <2> QED BY <2>1, <2>2
<1>15. pairs' \in PairsType
  <2>1. \A p \in 0 .. NUM_PAIRS - 1 : pairs'[p] \in [item : Texts, value : Texts]
    BY <1>1, <1>14 DEF PairsType
  <2>2. pairs' = [p \in 0 .. NUM_PAIRS - 1 |-> pairs'[p]]
    BY <1>2, <1>12
  <2> QED BY <2>1, <2>2 DEF PairsType
<1>16. SettledPairs(pairs', texts', m)
  BY <1>10, <1>14 DEF SettledPairs
<1>17. AllPlaced'
  <2> SUFFICES ASSUME NEW p \in 0 .. nbPairs' - 1 PROVE pairs'[p].item.says.what # "stale"
    BY DEF AllPlaced, Placed
  <2>1. p \in 0 .. NUM_PAIRS - 1 /\ (p \notin placed => p \in 0 .. nbPairs - 1)
    BY <1>1, <1>2, <1>5, Sizes
  <2> QED BY <1>1, <1>14, <2>1 DEF AllPlaced, Placed
<1>18. TransfersInv'
  <2>1. i' >= 1 /\ nbPairs' = 3 * i' /\ 3 * i' <= PARAMETERS_MAX_NUM /\ m = 3 * i'
    BY <1>1, <1>2, Sizes DEF m
  <2>2. SettledPairs(pairs, texts, 3 * i)'
    BY <1>16, <2>1 DEF SettledPairs, Settled
  <2> QED BY <1>1, <1>2, <1>17, <2>1, <2>2 DEF TransfersInv, Blind, Native
<1>19. TypeOK'
  <2>1. nbPairs' \in 0 .. NUM_PAIRS /\ i' \in Nat
    BY <1>1, <1>2, Sizes
  <2> QED BY <1>1, <1>2, <1>9, <1>15, <2>1 DEF TypeOK, GoodTexts, PairsType
<1> QED BY <1>1, <1>2, <1>9, <1>18, <1>19 DEF IndInv, PairsComplete, ParametersIntact, Shown

LEMMA CloseInv ==
    ASSUME IndInv, Close
    PROVE  IndInv'
<1> DEFINE a  == Fixed("GAS_FEE")
           b  == Fixed("SIGNER")
           f  == Fee(0)
           ps == [pairs EXCEPT ![nbPairs] = Pair(a, f)]
<1>1. /\ stage = "closing" /\ ClosingInv /\ TypeOK /\ Signer \in texts
      /\ pairs \in PairsType /\ GoodTexts(texts) /\ AllPlaced /\ AllIntact
      /\ nbPairs \in Nat /\ nbPairs <= PARAMETERS_MAX_NUM
  BY TypeFacts DEF IndInv, Close, At_, ClosingInv, TypeOK
<1>2. /\ UNCHANGED <<tx, texts, i, curr, total>> /\ stage' = "shown" /\ nbPairs' = nbPairs + 2
      /\ pairs' = [pairs EXCEPT ![nbPairs] = Pair(a, f), ![nbPairs + 1] = Pair(b, Signer)]
  BY DEF Close, At_
<1>3. /\ a \in Texts /\ a.says.what = "GAS_FEE" /\ b \in Texts /\ b.size = 0
      /\ b.says.what = "SIGNER"
  BY FixedFacts DEF Whats
<1>4. f \in Texts /\ Signer \in Texts
  <2>1. Slot(PARAMETERS_MAX_NUM) + AMOUNT_SIZE \in Nat /\ "GAS_FEE" \in Whats /\ 0 \in Nat
    BY Sizes DEF Slot, MAX_BUFFER_LEN, AMOUNT_SIZE, Whats
  <2> QED BY <2>1, TextFacts, SignerFacts DEF Fee
<1> HIDE DEF a, b, f
<1>5. nbPairs \in 0 .. NUM_PAIRS - 1 /\ nbPairs + 1 \in 0 .. NUM_PAIRS - 1 /\ nbPairs # nbPairs + 1
  BY <1>1, Sizes
<1>6. /\ Pair(a, f) \in [item : Texts, value : Texts] /\ Pair(a, f).item = a
      /\ Pair(b, Signer) \in [item : Texts, value : Texts]
      /\ Pair(b, Signer).item = b /\ Pair(b, Signer).value = Signer
  BY <1>3, <1>4, PairFacts
<1>7. /\ pairs' \in PairsType
      /\ pairs'[nbPairs] = Pair(a, f) /\ pairs'[nbPairs + 1] = Pair(b, Signer)
      /\ \A p \in 0 .. nbPairs - 1 : pairs'[p] = pairs[p]
  <2>1. ps \in PairsType
    BY <1>1, <1>6 DEF PairsType
  <2>2. pairs' = [ps EXCEPT ![nbPairs + 1] = Pair(b, Signer)]
    BY <1>2
  <2>3. \A p \in 0 .. nbPairs - 1 : p \in 0 .. NUM_PAIRS - 1 /\ p # nbPairs /\ p # nbPairs + 1
    BY <1>1, Sizes
  <2>4. \A p \in 0 .. NUM_PAIRS - 1 : ps[p] = IF p = nbPairs THEN Pair(a, f) ELSE pairs[p]
    BY <1>1 DEF PairsType
  <2> HIDE DEF ps
  <2>5. pairs' \in PairsType
    BY <1>6, <2>1, <2>2 DEF PairsType
  <2>6. \A p \in 0 .. NUM_PAIRS - 1 : pairs'[p] = IF p = nbPairs + 1 THEN Pair(b, Signer) ELSE ps[p]
    BY <2>1, <2>2 DEF PairsType
  <2> QED BY <1>5, <2>3, <2>4, <2>5, <2>6
<1>8. \A p \in 0 .. nbPairs' - 1 : p \in 0 .. nbPairs - 1 \/ p = nbPairs \/ p = nbPairs + 1
  BY <1>1, <1>2
<1>9. TypeOK'
  <2>1. nbPairs' \in 0 .. NUM_PAIRS
    BY <1>1, <1>2, Sizes
  <2> QED BY <1>1, <1>2, <1>7, <2>1 DEF TypeOK, GoodTexts, PairsType
<1>10. PairsComplete'
  <2>1. \A p \in 0 .. nbPairs' - 1 : pairs'[p].item.says.what # "stale"
    BY <1>1, <1>3, <1>6, <1>7, <1>8 DEF AllPlaced, Placed
  <2>2. Stale.item.says.what = "stale"
    <3>1. Fixed("stale") \in Texts /\ Fixed("stale").says.what = "stale"
      BY FixedFacts DEF Whats
    <3> QED BY <3>1, PairFacts DEF Stale
  <2> QED BY <2>1, <2>2 DEF PairsComplete, ShownPairs
<1>11. ParametersIntact'
  <2> SUFFICES ASSUME NEW p \in 0 .. nbPairs' - 1, pairs'[p].item.says.what # "GAS_FEE"
               PROVE  Intact(pairs[p].item)' /\ Intact(pairs[p].value)'
    BY DEF ParametersIntact, ShownPairs, Intact
  <2>1. CASE p \in 0 .. nbPairs - 1
    <3>1. p \in 0 .. NUM_PAIRS - 1 /\ pairs'[p] = pairs[p]
      BY <1>1, <1>7, <2>1, Sizes
    <3> QED BY <1>1, <1>2, <3>1 DEF AllIntact, Intact
  <2>2. CASE p = nbPairs
    BY <1>3, <1>6, <1>7, <2>2
  <2>3. CASE p = nbPairs + 1
    BY <1>1, <1>2, <1>3, <1>6, <1>7, <2>3 DEF Intact
  <2> QED BY <1>8, <2>1, <2>2, <2>3
<1>12. tx' \in Transactions
  BY <1>2 DEF IndInv
<1> QED BY <1>2, <1>9, <1>10, <1>11, <1>12 DEF IndInv

LEMMA StutterInv ==
    ASSUME IndInv, UNCHANGED vars
    PROVE  IndInv'
<1>1. UNCHANGED <<tx, stage, texts, pairs, nbPairs, i, curr, total>>
  BY DEF vars
<1>2. TypeOK' /\ PairsComplete' /\ ParametersIntact'
  BY <1>1 DEF IndInv, TypeOK, PairsComplete, ParametersIntact, Shown, ShownPairs, Intact
<1>3. AllPlaced <=> AllPlaced'
  BY <1>1 DEF AllPlaced, Placed
<1>4. \A n : SettledPairs(pairs, texts, n) <=> SettledPairs(pairs', texts', n)
  BY <1>1
<1>5. stage' = "params" => ParamsInv'
  BY <1>1, <1>4 DEF IndInv, ParamsInv, Placed, Blind, Layout
<1>6. stage' = "peers" => PeersInv'
  BY <1>1, <1>3, <1>4 DEF IndInv, PeersInv, Blind, Peers, Native
<1>7. stage' = "amounts" => AmountsInv'
  BY <1>1, <1>3, <1>4 DEF IndInv, AmountsInv, Blind, Peers, Native
<1>8. stage' = "transfers" => TransfersInv'
  BY <1>1, <1>3, <1>4 DEF IndInv, TransfersInv, Blind, Native
<1>9. stage' = "closing" => ClosingInv'
  BY <1>1, <1>3 DEF IndInv, ClosingInv, AllIntact, Intact
<1>10. stage' \in {"start", "blind"} => SettledPairs(pairs', texts', 0)
  BY <1>1 DEF IndInv
<1> QED BY <1>1, <1>2, <1>5, <1>6, <1>7, <1>8, <1>9, <1>10 DEF IndInv

LEMMA StepInv == IndInv /\ [Next]_vars => IndInv'
<1> SUFFICES ASSUME IndInv, [Next]_vars PROVE IndInv'
  OBVIOUS
<1>1. CASE DrawFees
  BY <1>1, DrawFeesInv
<1>2. CASE Refuse
  BY <1>2, RefuseInv
<1>3. CASE ui_display_bs_transaction
  BY <1>3, BlindSigningInv
<1>4. CASE PlaceParam
  BY <1>4, PlaceParamInv
<1>5. CASE FinishParams
  BY <1>5, FinishParamsInv
<1>6. CASE AddStakeFee
  BY <1>6, AddStakeFeeInv
<1>7. CASE EnterPeers
  BY <1>7, EnterPeersInv
<1>8. CASE PlacePeer
  BY <1>8, PlacePeerInv
<1>9. CASE FinishPeers
  BY <1>9, FinishPeersInv
<1>10. CASE PlaceRest
  BY <1>10, PlaceRestInv
<1>11. CASE AddAmount
  BY <1>11, AddAmountInv
<1>12. CASE PlaceTotal
  BY <1>12, PlaceTotalInv
<1>13. CASE EnterTransfers
  BY <1>13, EnterTransfersInv
<1>14. CASE PlaceTransfer
  BY <1>14, PlaceTransferInv
<1>15. CASE FinishTransfers
  BY <1>15, FinishTransfersInv
<1>16. CASE Close
  BY <1>16, CloseInv
<1>17. CASE UNCHANGED vars
  BY <1>17, StutterInv
<1> QED
  BY <1>1, <1>2, <1>3, <1>4, <1>5, <1>6, <1>7, <1>8, <1>9, <1>10, <1>11, <1>12, <1>13, <1>14,
     <1>15, <1>16, <1>17 DEF Next
-----------------------------------------------------------------------------
(* The second invariant: what the pairs say, and of what kind it is.  So   *)
(* far as the page has come, the pairs say the parameters that are placed, *)
(* each under a label of its kind, and total the amounts added.            *)

SaysOf(ps, n) == {ps[p].value.says : p \in 0 .. n - 1}

ParamsSaid(ps, n, ks) == \A k \in ks : Says("param", k) \in SaysOf(ps, n)

\* No pair shows a total.
NoTotalIn(ps) == \A p \in 0 .. NUM_PAIRS - 1 : ps[p].value.says.what # "TOTAL"

TotalRight ==
    /\ stage \notin {"closing", "shown", "refused"} => NoTotalIn(pairs)
    /\ stage = "amounts" =>
           i \in 0 .. pubkey_num /\ total = Sums(AmountsOfPeers)[i] % WordSize
    /\ stage \in {"closing", "shown"} => NoTotalIn(pairs) \/ total = SumOfAmounts % WordSize

\* A call that is shown with its parameters and made as one of its contract's type.
Clear == ~Blind /\ Intended

AllLabelled == \A p \in 0 .. NUM_PAIRS - 1 : Labelled(pairs[p])

\* Of num peers, the parameters of the first n: keys and, of few, amounts.
OfPeers(n, num) ==
    2 .. 1 + n \cup (IF num <= MAX_PUBKEY_DISPLAY THEN 2 + num .. 1 + num + n ELSE {})

Rest(num) == Says("NODE_AMOUNT", num - MAX_PUBKEY_DISPLAY)

AllSaid(ps, n) ==
    /\ ParamsSaid(ps, n, (0 .. Len(tx.params) - 1) \ LeftOut)
    /\ Peers /\ pubkey_num > 3 => {Rest(pubkey_num), Says("TOTAL", 0)} \subseteq SaysOf(ps, n)

SaidSoFar ==
    /\ stage # "blind"
    /\ stage = "params" =>
           \A k \in 1 .. i : pairs[Layout[k].pos].value.says = Says("param", k - 1)
    /\ stage = "peers" => ParamsSaid(pairs, nbPairs, {0} \cup OfPeers(i, pubkey_num))
    /\ stage = "amounts" =>
           /\ pubkey_num > 3
           /\ ParamsSaid(pairs, nbPairs, {0} \cup OfPeers(3, pubkey_num))
           /\ Rest(pubkey_num) \in SaysOf(pairs, nbPairs)
    /\ stage = "transfers" => ParamsSaid(pairs, nbPairs, 0 .. 3 * i - 1)
    /\ stage \in {"closing", "shown"} => AllSaid(pairs, nbPairs)

SInv == TotalRight /\ (Clear => AllLabelled /\ SaidSoFar)

\* Whatever a text says, says it.
LEMMA Speaks ==
    /\ \A what, index : Says(what, index).what = what /\ Says(what, index).index = index
    /\ \A at, size, what, index : Text(at, size, what, index).says = Says(what, index)
    /\ \A item : Fixed(item).says = Says(item, 0)
    /\ \A slot, k : Param(slot, k).says = Says("param", k)
    /\ \A item, value : Pair(item, value).item = item /\ Pair(item, value).value = value
<1>1. \A what, index : Says(what, index).what = what /\ Says(what, index).index = index
  BY DEF Says
<1>2. \A at, size, what, index : Text(at, size, what, index).says = Says(what, index)
  BY DEF Text
<1>3. \A item, value : Pair(item, value).item = item /\ Pair(item, value).value = value
  BY DEF Pair
<1> QED BY <1>1, <1>2, <1>3 DEF Fixed, Param

\* The steps leave the transaction alone, and what is said of it.
LEMMA Kept ==
    ASSUME tx' = tx
    PROVE  /\ pubkey_num' = pubkey_num /\ AmountsOfPeers' = AmountsOfPeers
           /\ SumOfAmounts' = SumOfAmounts /\ Layout' = Layout
           /\ Clear' = Clear
           /\ AllLabelled' <=> \A p \in 0 .. NUM_PAIRS - 1 : Labelled(pairs'[p])
           /\ AllSaid(pairs, nbPairs)' <=> AllSaid(pairs', nbPairs')
<1>1. pubkey_num' = pubkey_num
  BY DEF pubkey_num, Value
<1>2. AmountsOfPeers' = AmountsOfPeers
  BY <1>1 DEF AmountsOfPeers, Value
<1>3. SumOfAmounts' = SumOfAmounts
  BY <1>2 DEF SumOfAmounts
<1>4. Layout' = Layout /\ Clear' = Clear
  BY DEF Layout, Clear, Blind, Intended
<1>5. AllLabelled' <=> \A p \in 0 .. NUM_PAIRS - 1 : Labelled(pairs'[p])
  BY <1>1 DEF AllLabelled, Labelled, Kind
<1>6. AllSaid(pairs, nbPairs)' <=> AllSaid(pairs', nbPairs')
  BY <1>1 DEF AllSaid, LeftOut, Peers, Native
<1> QED BY <1>1, <1>2, <1>3, <1>4, <1>5, <1>6

\* A product that is less than its factor.
LEMMA NoMultiple ==
    ASSUME NEW w \in Nat, w > 0, NEW k \in Int, w * k < w, w * k > -w
    PROVE  k = 0
<1>1. CASE k >= 1
  <2>1. w * k >= w
    BY <1>1
  <2> QED BY <2>1
<1>2. CASE k <= -1
  <2>1. w * k <= -w
    BY <1>2
  <2> QED BY <2>1
<1> QED BY <1>1, <1>2

\* A sum that is reduced at each step is reduced.
LEMMA ReducedSum ==
    ASSUME NEW a \in Nat, NEW b \in Nat, NEW w \in Nat \ {0}
    PROVE  ((a % w) + b) % w = (a + b) % w
<1> DEFINE r1 == a % w
           k1 == a \div w
           r2 == (r1 + b) % w
           k2 == (r1 + b) \div w
           r3 == (a + b) % w
           k3 == (a + b) \div w
<1>0. w \in Nat /\ w > 0
  OBVIOUS
<1>1. k1 \in Int /\ r1 \in 0 .. w - 1 /\ a = w * k1 + r1
  OBVIOUS
<1> HIDE DEF r1, k1
<1>2. k2 \in Int /\ r2 \in 0 .. w - 1 /\ r1 + b = w * k2 + r2
  BY <1>1
<1>3. k3 \in Int /\ r3 \in 0 .. w - 1 /\ a + b = w * k3 + r3
  OBVIOUS
<1> HIDE DEF r2, k2, r3, k3
<1> DEFINE k == k3 - k1 - k2
<1>4. k \in Int /\ w * k = w * k3 - w * k1 - w * k2
  BY <1>0, <1>1, <1>2, <1>3
<1>5. w * k = r2 - r3
  <2>1. w * k1 \in Int /\ w * k2 \in Int /\ w * k3 \in Int
    BY <1>0, <1>1, <1>2, <1>3
  <2> HIDE DEF k
  <2> QED BY <1>1, <1>2, <1>3, <1>4, <2>1
<1> HIDE DEF k
<1>6. k = 0
  BY <1>0, <1>2, <1>3, <1>4, <1>5, NoMultiple
<1>7. r2 = r3
  BY <1>0, <1>2, <1>3, <1>5, <1>6
<1> QED BY <1>7 DEF r1, r2, r3

\* What is said stays said while pairs are added.
LEMMA SaidGrows ==
    ASSUME NEW ps, NEW qs, NEW n \in Nat, NEW m \in Nat, n <= m,
           \A p \in 0 .. n - 1 : qs[p] = ps[p]
    PROVE  SaysOf(ps, n) \subseteq SaysOf(qs, m)
<1>1. \A p \in 0 .. n - 1 : p \in 0 .. m - 1
  OBVIOUS
<1> QED BY <1>1 DEF SaysOf

LEMMA SaidBy ==
    ASSUME NEW ps, NEW n \in Nat, NEW p \in 0 .. n - 1
    PROVE  ps[p].value.says \in SaysOf(ps, n)
  BY DEF SaysOf

NoTotalPair(pair) == pair.value.says.what # "TOTAL"

LEMMA NoTotalKept ==
    ASSUME NEW ps \in PairsType, NoTotalIn(ps), NEW p, NEW v, NoTotalPair(v)
    PROVE  NoTotalIn([ps EXCEPT ![p] = v])
<1> DEFINE qs == [ps EXCEPT ![p] = v]
<1>1. \A r \in 0 .. NUM_PAIRS - 1 : qs[r] = IF r = p THEN v ELSE ps[r]
  BY DEF PairsType
<1> HIDE DEF qs
<1>2. NoTotalIn(qs)
  BY <1>1 DEF NoTotalIn, NoTotalPair
<1> QED BY <1>2 DEF qs

LEMMA NoTotalKeptTwice ==
    ASSUME NEW ps \in PairsType, NoTotalIn(ps), NEW p, NEW q, NEW v, NEW w,
           NoTotalPair(v), NoTotalPair(w)
    PROVE  NoTotalIn([ps EXCEPT ![p] = v, ![q] = w])
<1> DEFINE qs == [ps EXCEPT ![p] = v, ![q] = w]
<1>1. \A r \in 0 .. NUM_PAIRS - 1 : qs[r] = IF r = q THEN w ELSE IF r = p THEN v ELSE ps[r]
  BY DEF PairsType
<1> HIDE DEF qs
<1>2. NoTotalIn(qs)
  BY <1>1 DEF NoTotalIn, NoTotalPair
<1> QED BY <1>2 DEF qs

LEMMA AmountsFacts ==
    ASSUME tx \in Transactions, Peers
    PROVE  /\ AmountsOfPeers \in Seq(Nat) /\ Len(AmountsOfPeers) = pubkey_num
           /\ pubkey_num \in Nat
           /\ \A n \in 0 .. pubkey_num : Sums(AmountsOfPeers)[n] \in Nat
           /\ Sums(AmountsOfPeers)[0] = 0
           /\ \A n \in 1 .. pubkey_num :
                  /\ AmountsOfPeers[n] = Value(1 + pubkey_num + n) /\ AmountsOfPeers[n] \in Nat
                  /\ Sums(AmountsOfPeers)[n] = Sums(AmountsOfPeers)[n - 1] + AmountsOfPeers[n]
           /\ SumOfAmounts = Sums(AmountsOfPeers)[pubkey_num]
<1> DEFINE n == pubkey_num
           s == AmountsOfPeers
<1>1. /\ n \in Nat /\ Len(tx.params) = 2 + 2 * n
      /\ \A k \in 0 .. Len(tx.params) - 1 : Value(k) \in Nat
  BY TransactionFacts
<1>2. s = [k \in 1 .. n |-> Value(1 + n + k)]
  BY DEF AmountsOfPeers
<1> HIDE DEF n, s
<1>3. \A k \in 1 .. n : Value(1 + n + k) \in Nat
  <2>1. \A k \in 1 .. n : 1 + n + k \in 0 .. Len(tx.params) - 1
    BY <1>1
  <2> QED BY <1>1, <2>1
<1>4. s \in Seq(Nat) /\ Len(s) = n /\ \A k \in 1 .. n : s[k] = Value(1 + n + k) /\ s[k] \in Nat
  <2>1. s \in [1 .. n -> Nat]
    BY <1>2, <1>3
  <2>2. s \in Seq(Nat) /\ Len(s) = n
    BY <1>1, <2>1
  <2> QED BY <1>2, <1>3, <2>2
<1>5. /\ \A k \in 0 .. n : Sums(s)[k] \in Nat
      /\ Sums(s)[0] = 0
      /\ \A k \in 1 .. n : Sums(s)[k] = Sums(s)[k - 1] + s[k]
  BY <1>4, SumsFacts
<1>6. SumOfAmounts = Sums(s)[n]
  BY <1>4 DEF SumOfAmounts, SumOf, s
<1> QED BY <1>1, <1>4, <1>5, <1>6 DEF n, s

LEMMA TotalStep ==
    ASSUME IndInv, TotalRight, [Next]_vars
    PROVE  TotalRight'
<1>1. pairs \in PairsType /\ TypeOK /\ tx \in Transactions
  BY TypeFacts DEF IndInv
<1>2. CASE DrawFees
  <2>1. stage = "start" /\ pairs' = pairs /\ stage' \in {"blind", "params"}
    BY <1>2 DEF DrawFees, At_
  <2> QED BY <2>1 DEF TotalRight, NoTotalIn
<1>3. CASE Refuse
  <2>1. stage' = "refused"
    BY <1>3 DEF Refuse
  <2> QED BY <2>1 DEF TotalRight
<1>4. CASE ui_display_bs_transaction
  <2> DEFINE v == Pair(Fixed("BLIND_SIGN_TX"), Fixed("BLIND_SIGNING"))
             w == Pair(Fixed("CONTRACT_ADDRESS"), Param(0, 0))
  <2>1. stage = "blind" /\ pairs' = [pairs EXCEPT ![0] = v, ![1] = w] /\ stage' = "closing"
    BY <1>4 DEF ui_display_bs_transaction, At_
  <2>2. NoTotalPair(v) /\ NoTotalPair(w)
    BY Speaks DEF NoTotalPair
  <2> HIDE DEF v, w
  <2>3. NoTotalIn(pairs')
    BY <1>1, <2>1, <2>2, NoTotalKeptTwice DEF TotalRight
  <2> QED BY <2>1, <2>3 DEF TotalRight, NoTotalIn
<1>5. CASE PlaceParam
  <2> DEFINE v == Pair(Fixed(Layout[i + 1].item), Param(i, i))
             p == Layout[i + 1].pos
  <2>1. stage = "params" /\ pairs' = [pairs EXCEPT ![p] = v] /\ stage' = "params"
    BY <1>5 DEF PlaceParam, At_
  <2>2. NoTotalPair(v) /\ NoTotalIn(pairs)
    BY <2>1, Speaks DEF NoTotalPair, TotalRight
  <2> HIDE DEF v, p
  <2>3. NoTotalIn(pairs')
    BY <1>1, <2>1, <2>2, NoTotalKept
  <2> QED BY <2>1, <2>3 DEF TotalRight, NoTotalIn
<1>6. CASE FinishParams
  <2>1. stage = "params" /\ pairs' = pairs /\ stage' = "closing"
    BY <1>6 DEF FinishParams, ParamsPlaced, At_
  <2> QED BY <2>1 DEF TotalRight, NoTotalIn
<1>7. CASE AddStakeFee
  <2> DEFINE v == Pair(Fixed("STAKE_FEE"), Fixed("STAKE_FEE_ONG"))
  <2>1. stage = "params" /\ pairs' = [pairs EXCEPT ![nbPairs] = v] /\ stage' = "closing"
    BY <1>7 DEF AddStakeFee, ParamsPlaced, At_
  <2>2. NoTotalPair(v)
    BY Speaks DEF NoTotalPair
  <2> HIDE DEF v
  <2>3. NoTotalIn(pairs')
    BY <1>1, <2>1, <2>2, NoTotalKept DEF TotalRight
  <2> QED BY <2>1, <2>3 DEF TotalRight, NoTotalIn
<1>8. CASE EnterPeers
  <2>1. stage = "params" /\ pairs' = pairs /\ stage' = "peers"
    BY <1>8 DEF EnterPeers, ParamsPlaced, At_
  <2> QED BY <2>1 DEF TotalRight, NoTotalIn
<1>9. CASE PlacePeer
  <2> DEFINE v == Pair(Label(curr, "PEER_PUBKEY"), Param(KeySlot, i + 2))
             w == Pair(Label(KeySlot + 1, "PEER_AMOUNT"),
                       Param(KeySlot + 1 + LabelSlots, i + 2 + pubkey_num))
  <2>1. /\ stage = "peers" /\ stage' = "peers"
        /\ \/ pairs' = [pairs EXCEPT ![nbPairs] = v]
           \/ pairs' = [pairs EXCEPT ![nbPairs] = v, ![nbPairs + 1] = w]
    BY <1>9, Zenon DEF PlacePeer, At_
  <2>2. NoTotalPair(v) /\ NoTotalPair(w)
    BY Speaks DEF NoTotalPair
  <2> HIDE DEF v, w
  <2>3. NoTotalIn(pairs')
    BY <1>1, <2>1, <2>2, NoTotalKept, NoTotalKeptTwice DEF TotalRight
  <2> QED BY <2>1, <2>3 DEF TotalRight, NoTotalIn
<1>10. CASE FinishPeers
  <2>1. stage = "peers" /\ pairs' = pairs /\ stage' = "closing"
    BY <1>10 DEF FinishPeers, At_
  <2> QED BY <2>1 DEF TotalRight, NoTotalIn
<1>11. CASE PlaceRest
  <2> DEFINE rest == Text(Slot(curr), MAX_BUFFER_LEN, "NODE_AMOUNT",
                          pubkey_num - MAX_PUBKEY_DISPLAY)
             v == Pair(Fixed("NODE_AMOUNT"), rest)
  <2>1. /\ stage = "peers" /\ pairs' = [pairs EXCEPT ![nbPairs] = v]
        /\ stage' = "amounts" /\ i' = 0 /\ total' = 0 /\ tx' = tx
    BY <1>11 DEF PlaceRest, At_
  <2>2. NoTotalPair(v)
    BY Speaks DEF NoTotalPair
  <2> HIDE DEF v, rest
  <2>3. NoTotalIn(pairs')
    BY <1>1, <2>1, <2>2, NoTotalKept DEF TotalRight
  <2>4. pubkey_num' \in Nat /\ Sums(AmountsOfPeers')[0] = 0
    BY <1>1, <2>1, AmountsFacts, Kept DEF IndInv, PeersInv
  <2>5. i' \in 0 .. pubkey_num' /\ total' = 0 % WordSize
    BY <2>1, <2>4, FeeAssumption
  <2> QED BY <2>1, <2>3, <2>4, <2>5 DEF TotalRight, NoTotalIn
<1>12. CASE AddAmount
  <2> DEFINE S == Sums(AmountsOfPeers)
  <2>1. /\ stage = "amounts" /\ pairs' = pairs /\ stage' = "amounts" /\ i' = i + 1 /\ tx' = tx
        /\ total' = (total + Amount) % WordSize /\ i < pubkey_num
    BY <1>12 DEF AddAmount, At_
  <2>2. Peers /\ i \in Nat /\ pubkey_num \in Nat
    BY <1>1, <2>1, AmountsFacts DEF IndInv, AmountsInv, TypeOK
  <2>3. total = S[i] % WordSize /\ NoTotalIn(pairs)
    BY <2>1 DEF TotalRight
  <2>4. /\ i + 1 \in 1 .. pubkey_num /\ (i + 1) - 1 = i /\ i \in 0 .. pubkey_num
        /\ 1 + pubkey_num + (i + 1) = i + 2 + pubkey_num
    BY <2>1, <2>2
  <2>5. S[i + 1] = S[i] + Amount /\ S[i] \in Nat /\ Amount \in Nat
    <3>1. /\ AmountsOfPeers[i + 1] = Value(1 + pubkey_num + (i + 1))
          /\ AmountsOfPeers[i + 1] \in Nat /\ S[i] \in Nat
          /\ S[i + 1] = S[(i + 1) - 1] + AmountsOfPeers[i + 1]
      BY <1>1, <2>2, <2>4, AmountsFacts
    <3> QED BY <2>4, <3>1 DEF Amount
  <2> HIDE DEF S
  <2>6. total' = S[i + 1] % WordSize
    BY <2>1, <2>3, <2>5, ReducedSum, FeeAssumption
  <2>7. total' = Sums(AmountsOfPeers')[i'] % WordSize /\ pubkey_num' = pubkey_num
    BY <2>1, <2>6, Kept DEF S
  <2>8. i' \in 0 .. pubkey_num'
    BY <2>1, <2>4, <2>7
  <2> QED BY <2>1, <2>3, <2>7, <2>8 DEF TotalRight, NoTotalIn
<1>13. CASE PlaceTotal
  <2>1. /\ stage = "amounts" /\ stage' = "closing" /\ i = pubkey_num /\ tx' = tx /\ total' = total
    BY <1>13 DEF PlaceTotal, At_
  <2>2. SumOfAmounts = Sums(AmountsOfPeers)[pubkey_num]
    BY <1>1, <2>1, AmountsFacts DEF IndInv, AmountsInv
  <2>3. total' = SumOfAmounts' % WordSize
    BY <2>1, <2>2, Kept DEF TotalRight
  <2> QED BY <2>1, <2>3 DEF TotalRight
<1>14. CASE EnterTransfers
  <2>1. stage = "params" /\ pairs' = pairs /\ stage' = "transfers"
    BY <1>14 DEF EnterTransfers, ParamsPlaced, At_
  <2> QED BY <2>1 DEF TotalRight, NoTotalIn
<1>15. CASE PlaceTransfer
  <2> DEFINE placed   == {Position(Layout[k].pos) : k \in 1 .. 3}
             entry(p) == CHOOSE k \in 0 .. 2 : Position(Layout[k + 1].pos) = p
             v(p)     == Pair(Fixed(Layout[entry(p) + 1].item),
                              Param(3 * i + entry(p), 3 * i + entry(p)))
  <2>1. /\ stage = "transfers" /\ stage' = "transfers"
        /\ pairs' = [p \in DOMAIN pairs \cup placed |-> IF p \in placed THEN v(p) ELSE pairs[p]]
    BY <1>15 DEF PlaceTransfer, At_
  <2>2. ASSUME NEW p PROVE NoTotalPair(v(p))
    <3>1. \A item, slot, k : NoTotalPair(Pair(Fixed(item), Param(slot, k)))
      BY Speaks DEF NoTotalPair
    <3> QED BY <3>1
  <2> HIDE DEF v, placed, entry
  <2>3. DOMAIN pairs = 0 .. NUM_PAIRS - 1
    BY <1>1 DEF PairsType
  <2>4. NoTotalIn(pairs')
    BY <2>1, <2>2, <2>3 DEF TotalRight, NoTotalIn, NoTotalPair
  <2> QED BY <2>1, <2>4 DEF TotalRight, NoTotalIn
<1>16. CASE FinishTransfers
  <2>1. stage = "transfers" /\ pairs' = pairs /\ stage' = "closing"
    BY <1>16 DEF FinishTransfers, At_
  <2> QED BY <2>1 DEF TotalRight, NoTotalIn
<1>17. CASE Close
  <2> DEFINE v == Pair(Fixed("GAS_FEE"), Fee(0))
             w == Pair(Fixed("SIGNER"), Signer)
  <2>1. /\ stage = "closing" /\ pairs' = [pairs EXCEPT ![nbPairs] = v, ![nbPairs + 1] = w]
        /\ stage' = "shown" /\ tx' = tx /\ total' = total
    BY <1>17 DEF Close, At_
  <2>2. NoTotalPair(v) /\ NoTotalPair(w)
    BY Speaks DEF NoTotalPair, Fee, Signer
  <2> HIDE DEF v, w
  <2>3. NoTotalIn(pairs) => NoTotalIn(pairs')
    BY <1>1, <2>1, <2>2, NoTotalKeptTwice
  <2>4. NoTotalIn(pairs) \/ total' = SumOfAmounts' % WordSize
    BY <2>1, Kept DEF TotalRight
  <2> QED BY <2>1, <2>3, <2>4 DEF TotalRight, NoTotalIn
<1>18. CASE UNCHANGED vars
  <2>1. stage' = stage /\ pairs' = pairs /\ i' = i /\ total' = total /\ tx' = tx
    BY <1>18 DEF vars
  <2> QED BY <2>1, Kept DEF TotalRight, NoTotalIn
<1> QED
  BY <1>2, <1>3, <1>4, <1>5, <1>6, <1>7, <1>8, <1>9, <1>10, <1>11, <1>12, <1>13, <1>14, <1>15,
     <1>16, <1>17, <1>18 DEF Next

-----------------------------------------------------------------------------
(* What the tables say of a call that is shown and made as one of its      *)
(* contract's type.                                                        *)

TransferList == Native /\ tx.method \in TransferMethods

KindsMatch ==
    \A k \in 1 .. Len(Layout) : k <= Len(tx.params) => Kind(k - 1) \in Announces(Layout[k].item)

PeersMatch ==
    \A k \in 0 .. pubkey_num - 1 : Kind(k + 2) = "PUBKEY" /\ Kind(k + 2 + pubkey_num) = "AMOUNT"

TransfersMatch ==
    \A m \in Nat, k \in 0 .. 2 :
        3 * m + k < Len(tx.params) => Kind(3 * m + k) \in Announces(Layout[k + 1].item)

LEMMA Remainders ==
    ASSUME NEW m \in Nat, NEW k \in 0 .. 2
    PROVE  (3 * m + k) % 3 = k
  OBVIOUS

LEMMA ClearFacts ==
    ASSUME tx \in Transactions, Clear
    PROVE  /\ KindsMatch
           /\ tx.method \in PeerMethods => Peers
           /\ Peers => PeersMatch
           /\ TransferList => TransfersMatch /\ \E n \in Nat : Len(tx.params) = 3 * n
           /\ ~Peers /\ ~TransferList =>
                  Len(tx.params) = Len(Layout) + (IF tx.method = "registerCandidate" THEN 1 ELSE 0)
           /\ tx.method = "registerCandidate" => Native /\ Len(tx.params) = 4
<1> DEFINE contract == tx.contract
           method == tx.method
           kinds == KindsOf(tx)
<1>1. /\ WellParsed(tx, PARAMETERS_MAX_NUM) /\ tx.type = IntendedType(contract)
      /\ method # Unknown
  BY TransactionAssumption DEF Clear, Intended, Blind
<1>2. PICK n \in Nat :
          /\ contract \in Contracts /\ method \in Methods(contract)
          /\ kinds = AllEntries(contract, method, n)
          /\ method \in PeerMethods => tx.params[2].value = n
  BY <1>1, Sizes DEF WellParsed, KindsOf
<1>3. Len(tx.params) \in Nat /\ Len(kinds) = Len(tx.params)
      /\ \A k \in 1 .. Len(tx.params) : Kind(k - 1) = kinds[k]
  <2>1. Len(tx.params) \in Nat
    BY TransactionFacts
  <2>2. \A k \in 1 .. Len(tx.params) : (k - 1) + 1 = k
    OBVIOUS
  <2> QED BY <2>1, <2>2 DEF KindsOf, Kind
<1>4. Layout = init_dipslay_pos_and_item(IntendedType(contract), method)
  BY <1>1 DEF Layout
<1>5. TablesAgree(contract, method, kinds)
  BY <1>2, Tables
<1>6. Len(Layout) \in 1 .. 4
  BY <1>1, TransactionFacts DEF Blind, GoodLayout
<1>7. Native <=> contract \in {"ONT", "ONG", "GOV"}
  BY <1>1, <1>2 DEF Native, IntendedType, Contracts
<1>8. /\ method \in PeerMethods \cup {"registerCandidate"} => contract = "GOV"
      /\ Native /\ method \in TransferMethods => contract \in {"ONT", "ONG"}
      /\ method \in TransferMethods => method # "registerCandidate"
  BY <1>2, <1>7
     DEF Methods, Contracts, GovernanceMethods, PeerMethods, TransferMethods, TransferFromMethods,
         ApproveMethods
<1> HIDE DEF contract, method, kinds
<1>9. KindsMatch
  <2>1. FitsLabels(kinds, Layout)
    BY <1>4, <1>5 DEF TablesAgree
  <2> SUFFICES ASSUME NEW k \in 1 .. Len(Layout), k <= Len(tx.params)
               PROVE  Kind(k - 1) \in Announces(Layout[k].item)
    BY DEF KindsMatch
  <2>2. k \in 1 .. Len(tx.params) /\ k <= Len(kinds)
    BY <1>3, <1>6
  <2>3. Kind(k - 1) = kinds[k] /\ kinds[k] \in Announces(Layout[k].item)
    BY <1>3, <2>1, <2>2 DEF FitsLabels
  <2> QED BY <2>3
<1>10. method \in PeerMethods => Peers
  BY <1>7, <1>8 DEF Peers, method
<1>11. Peers => PeersMatch
  <2> SUFFICES ASSUME Peers PROVE PeersMatch
    OBVIOUS
  <2>1. method \in PeerMethods /\ contract = "GOV"
    BY <1>8 DEF Peers, method
  <2>2. /\ Len(kinds) = 2 * n + 2
        /\ \A k \in 1 .. n : kinds[2 + k] = "PUBKEY" /\ kinds[2 + n + k] = "AMOUNT"
    BY <1>2, <2>1, PeersEntries
  <2>3. pubkey_num = n
    BY <1>2, <2>1 DEF pubkey_num, Value
  <2> SUFFICES ASSUME NEW k \in 0 .. n - 1
               PROVE  Kind(k + 2) = "PUBKEY" /\ Kind(k + 2 + n) = "AMOUNT"
    BY <2>3 DEF PeersMatch
  <2>4. /\ k + 1 \in 1 .. n
        /\ 2 + (k + 1) \in 1 .. Len(tx.params) /\ (2 + (k + 1)) - 1 = k + 2
        /\ 2 + n + (k + 1) \in 1 .. Len(tx.params) /\ (2 + n + (k + 1)) - 1 = k + 2 + n
    BY <1>3, <2>2
  <2>5. Kind((2 + (k + 1)) - 1) = kinds[2 + (k + 1)]
        /\ Kind((2 + n + (k + 1)) - 1) = kinds[2 + n + (k + 1)]
    BY <1>3, <2>4
  <2> QED BY <2>2, <2>4, <2>5
<1>12. TransferList => TransfersMatch /\ \E m \in Nat : Len(tx.params) = 3 * m
  <2> SUFFICES ASSUME TransferList
               PROVE  TransfersMatch /\ \E m \in Nat : Len(tx.params) = 3 * m
    OBVIOUS
  <2>1. method \in TransferMethods /\ contract \in {"ONT", "ONG"}
    BY <1>8 DEF TransferList, method
  <2>2. Len(kinds) = 3 * n /\ \A k \in 0 .. 3 * n - 1 : kinds[k + 1] = KindInList(k)
    BY <1>2, <2>1, ListEntries, ZenonT(30)
  <2>3. Layout = <<At("FROM", 0), At("TO", 2), At("AMOUNT", 1)>>
    <3>1. IntendedType(contract) = "NATIVE_CONTRACT"
      BY <2>1 DEF IntendedType
    <3>2. init_dipslay_pos_and_item("NATIVE_CONTRACT", method)
              = <<At("FROM", 0), At("TO", 2), At("AMOUNT", 1)>>
      BY <2>1 DEF init_dipslay_pos_and_item, Reversed, TransferMethods, TransferFromMethods,
                  ApproveMethods, PeerMethods
    <3> QED BY <1>4, <3>1, <3>2
  <2>4. Layout[1].item = "FROM" /\ Layout[2].item = "TO" /\ Layout[3].item = "AMOUNT"
    BY <2>3, AtFields
  <2>5. /\ KindInList(0) \in Announces(Layout[0 + 1].item)
        /\ KindInList(1) \in Announces(Layout[1 + 1].item)
        /\ KindInList(2) \in Announces(Layout[2 + 1].item)
    <3>1. Triple[1] = "ADDR" /\ Triple[2] = "ADDR" /\ Triple[3] = "AMOUNT"
      BY DEF Triple
    <3>2. (0 % 3) + 1 = 1 /\ (1 % 3) + 1 = 2 /\ (2 % 3) + 1 = 3 /\ 0 + 1 = 1 /\ 1 + 1 = 2 /\ 2 + 1 = 3
      OBVIOUS
    <3> QED BY <2>4, <3>1, <3>2, Announced DEF KindInList
  <2>6. TransfersMatch
    <3> SUFFICES ASSUME NEW m \in Nat, NEW k \in 0 .. 2, 3 * m + k < Len(tx.params)
                 PROVE  Kind(3 * m + k) \in Announces(Layout[k + 1].item)
      BY DEF TransfersMatch
    <3> DEFINE j == 3 * m + k
    <3>1. j \in 0 .. 3 * n - 1 /\ j + 1 \in 1 .. Len(tx.params) /\ (j + 1) - 1 = j
      BY <1>3, <2>2
    <3>2. j % 3 = k
      BY Remainders
    <3>3. k % 3 = k
      OBVIOUS
    <3> HIDE DEF j
    <3>4. Kind(j) = KindInList(j)
      BY <1>3, <2>2, <3>1
    <3>5. KindInList(j) = KindInList(k)
      BY <3>2, <3>3 DEF KindInList
    <3>6. k = 0 \/ k = 1 \/ k = 2
      OBVIOUS
    <3> QED BY <2>5, <3>4, <3>5, <3>6 DEF j
  <2> QED BY <1>3, <2>2, <2>6
<1>13. ~Peers /\ ~TransferList =>
           Len(tx.params) = Len(Layout) + (IF method = "registerCandidate" THEN 1 ELSE 0)
  <2> SUFFICES ASSUME ~Peers, ~TransferList
               PROVE  Len(tx.params) = Len(Layout)
                                         + (IF method = "registerCandidate" THEN 1 ELSE 0)
    OBVIOUS
  <2>1. ~Listed(contract, method)
    BY <1>7, <1>10 DEF Listed, TransferList, method
  <2> QED BY <1>3, <1>4, <1>5, <2>1 DEF TablesAgree
<1>14. method = "registerCandidate" => Native /\ Len(tx.params) = 4
  <2> SUFFICES ASSUME method = "registerCandidate" PROVE Native /\ Len(tx.params) = 4
    OBVIOUS
  <2>1. contract = "GOV"
    BY <1>8
  <2>2. Len(kinds) = 4
    BY <1>2, <2>1, CandidateEntries
  <2> QED BY <1>3, <1>7, <2>1, <2>2
<1> QED BY <1>9, <1>10, <1>11, <1>12, <1>13, <1>14 DEF method
-----------------------------------------------------------------------------
(* Every value stands under a label of its kind.                           *)

LabelledIn(ps) == \A p \in 0 .. NUM_PAIRS - 1 : Labelled(ps[p])

LEMMA LabelledKept ==
    ASSUME NEW ps \in PairsType, LabelledIn(ps), NEW p, NEW v, Labelled(v)
    PROVE  LabelledIn([ps EXCEPT ![p] = v])
<1> DEFINE qs == [ps EXCEPT ![p] = v]
<1>1. \A r \in 0 .. NUM_PAIRS - 1 : qs[r] = IF r = p THEN v ELSE ps[r]
  BY DEF PairsType
<1> HIDE DEF qs
<1>2. LabelledIn(qs)
  BY <1>1 DEF LabelledIn
<1> QED BY <1>2 DEF qs

LEMMA LabelledKeptTwice ==
    ASSUME NEW ps \in PairsType, LabelledIn(ps), NEW p, NEW q, NEW v, NEW w,
           Labelled(v), Labelled(w)
    PROVE  LabelledIn([ps EXCEPT ![p] = v, ![q] = w])
<1> DEFINE qs == [ps EXCEPT ![p] = v, ![q] = w]
<1>1. \A r \in 0 .. NUM_PAIRS - 1 : qs[r] = IF r = q THEN w ELSE IF r = p THEN v ELSE ps[r]
  BY DEF PairsType
<1> HIDE DEF qs
<1>2. LabelledIn(qs)
  BY <1>1 DEF LabelledIn
<1> QED BY <1>2 DEF qs

\* A pair that shows no parameter, and one with a label of the table.
LEMMA OtherLabelled ==
    ASSUME NEW item, NEW value, value.says.what # "param"
    PROVE  Labelled(Pair(item, value))
  BY Speaks DEF Labelled

LEMMA FixedLabelled ==
    ASSUME NEW item, NEW slot, NEW k, Kind(k) \in Announces(item)
    PROVE  Labelled(Pair(Fixed(item), Param(slot, k)))
<1> DEFINE pair == Pair(Fixed(item), Param(slot, k))
<1>1. /\ pair.value.says.index = k /\ pair.item.says.what = item /\ pair.item.says.index = 0
  BY Speaks
<1> HIDE DEF pair
<1>2. Labelled(pair)
  BY <1>1 DEF Labelled
<1> QED BY <1>2 DEF pair

LEMMA LabelSays ==
    ASSUME NEW slot, NEW item
    PROVE  Label(slot, item).says.what = item /\ Label(slot, item).says.index \in {0, i + 1}
<1>1. CASE i = 0 /\ pubkey_num = 1
  BY <1>1, Speaks DEF Label
<1>2. CASE ~(i = 0 /\ pubkey_num = 1)
  BY <1>2, Speaks DEF Label
<1> QED BY <1>1, <1>2

LEMMA PeerLabelled ==
    ASSUME i \in 0 .. pubkey_num - 1, pubkey_num \in Nat, PeersMatch, NEW a, NEW b, NEW c, NEW d
    PROVE  /\ Labelled(Pair(Label(a, "PEER_PUBKEY"), Param(b, i + 2)))
           /\ Labelled(Pair(Label(c, "PEER_AMOUNT"), Param(d, i + 2 + pubkey_num)))
<1>1. Kind(i + 2) = "PUBKEY" /\ Kind(i + 2 + pubkey_num) = "AMOUNT"
  BY DEF PeersMatch
<1>2. "PUBKEY" \in Announces("PEER_PUBKEY") /\ "AMOUNT" \in Announces("PEER_AMOUNT")
  BY DEF Announces
<1>3. Labelled(Pair(Label(a, "PEER_PUBKEY"), Param(b, i + 2)))
  <2> DEFINE pair == Pair(Label(a, "PEER_PUBKEY"), Param(b, i + 2))
  <2>1. /\ pair.value.says.index = i + 2 /\ pair.item.says.what = "PEER_PUBKEY"
        /\ pair.item.says.index \in {0, i + 1}
    BY Speaks, LabelSays
  <2> HIDE DEF pair
  <2>2. Labelled(pair)
    BY <1>1, <1>2, <2>1 DEF Labelled
  <2> QED BY <2>2 DEF pair
<1>4. Labelled(Pair(Label(c, "PEER_AMOUNT"), Param(d, i + 2 + pubkey_num)))
  <2> DEFINE pair == Pair(Label(c, "PEER_AMOUNT"), Param(d, i + 2 + pubkey_num))
  <2>1. /\ pair.value.says.index = i + 2 + pubkey_num /\ pair.item.says.what = "PEER_AMOUNT"
        /\ pair.item.says.index \in {0, i + 1}
    BY Speaks, LabelSays
  <2> HIDE DEF pair
  <2>2. Labelled(pair)
    BY <1>1, <1>2, <2>1 DEF Labelled
  <2> QED BY <2>2 DEF pair
<1> QED BY <1>3, <1>4

LEMMA LabelledStep ==
    ASSUME IndInv, Clear, AllLabelled, stage # "blind", [Next]_vars
    PROVE  AllLabelled'
<1>1. /\ pairs \in PairsType /\ TypeOK /\ tx \in Transactions /\ tx' = tx /\ LabelledIn(pairs)
  <2>1. pairs \in PairsType /\ TypeOK /\ tx \in Transactions
    BY TypeFacts DEF IndInv
  <2>2. tx' = tx
    BY DEF Next, DrawFees, Refuse, ui_display_bs_transaction, PlaceParam, FinishParams, AddStakeFee,
           EnterPeers, PlacePeer, FinishPeers, PlaceRest, AddAmount, PlaceTotal, EnterTransfers,
           PlaceTransfer, FinishTransfers, Close, ParamsPlaced, At_, vars
  <2> QED BY <2>1, <2>2 DEF AllLabelled, LabelledIn
<1> SUFFICES LabelledIn(pairs')
  BY <1>1, Kept DEF LabelledIn
<1>2. CASE pairs' = pairs
  BY <1>1, <1>2
<1>3. CASE ui_display_bs_transaction
  BY <1>3 DEF ui_display_bs_transaction, At_
<1>4. CASE PlaceParam
  <2> DEFINE v == Pair(Fixed(Layout[i + 1].item), Param(i, i))
             p == Layout[i + 1].pos
  <2>1. /\ stage = "params" /\ pairs' = [pairs EXCEPT ![p] = v]
        /\ i < Len(Layout) /\ i < Len(tx.params)
    BY <1>4 DEF PlaceParam, At_, Convertible, HasParam
  <2>2. i + 1 \in 1 .. Len(Layout) /\ i + 1 <= Len(tx.params) /\ (i + 1) - 1 = i
    BY <1>1, <2>1, TransactionFacts DEF Clear, GoodLayout, TypeOK
  <2>3. Kind(i) \in Announces(Layout[i + 1].item)
    <3>1. KindsMatch
      BY <1>1, ClearFacts
    <3> QED BY <2>2, <3>1 DEF KindsMatch
  <2>4. Labelled(v)
    BY <2>3, FixedLabelled
  <2> HIDE DEF v, p
  <2> QED BY <1>1, <2>1, <2>4, LabelledKept
<1>5. CASE AddStakeFee
  <2> DEFINE v == Pair(Fixed("STAKE_FEE"), Fixed("STAKE_FEE_ONG"))
  <2>1. pairs' = [pairs EXCEPT ![nbPairs] = v]
    BY <1>5 DEF AddStakeFee
  <2>2. Labelled(v)
    BY Speaks, OtherLabelled
  <2> HIDE DEF v
  <2> QED BY <1>1, <2>1, <2>2, LabelledKept
<1>6. CASE PlacePeer
  <2> DEFINE v == Pair(Label(curr, "PEER_PUBKEY"), Param(KeySlot, i + 2))
             w == Pair(Label(KeySlot + 1, "PEER_AMOUNT"),
                       Param(KeySlot + 1 + LabelSlots, i + 2 + pubkey_num))
  <2>1. /\ stage = "peers" /\ i < Displayed
        /\ \/ pairs' = [pairs EXCEPT ![nbPairs] = v]
           \/ pairs' = [pairs EXCEPT ![nbPairs] = v, ![nbPairs + 1] = w]
    BY <1>6, Zenon DEF PlacePeer, At_
  <2>2. Peers
    BY <2>1 DEF IndInv, PeersInv
  <2>3. pubkey_num \in Nat /\ i \in 0 .. pubkey_num - 1
    BY <1>1, <2>1, <2>2, TransactionFacts DEF Displayed, MAX_PUBKEY_DISPLAY, TypeOK
  <2>4. PeersMatch
    BY <1>1, <2>2, ClearFacts
  <2>5. Labelled(v) /\ Labelled(w)
    BY <2>3, <2>4, PeerLabelled
  <2> HIDE DEF v, w
  <2> QED BY <1>1, <2>1, <2>5, LabelledKept, LabelledKeptTwice
<1>7. CASE PlaceRest
  <2> DEFINE rest == Text(Slot(curr), MAX_BUFFER_LEN, "NODE_AMOUNT",
                          pubkey_num - MAX_PUBKEY_DISPLAY)
             v == Pair(Fixed("NODE_AMOUNT"), rest)
  <2>1. pairs' = [pairs EXCEPT ![nbPairs] = v]
    BY <1>7 DEF PlaceRest
  <2>2. Labelled(v)
    BY Speaks, OtherLabelled
  <2> HIDE DEF v, rest
  <2> QED BY <1>1, <2>1, <2>2, LabelledKept
<1>8. CASE PlaceTotal
  <2> DEFINE v == Pair(Fixed("TOTAL"), Total)
  <2>1. pairs' = [pairs EXCEPT ![nbPairs] = v]
    BY <1>8 DEF PlaceTotal
  <2>2. Labelled(v)
    BY Speaks, OtherLabelled DEF Total
  <2> HIDE DEF v
  <2> QED BY <1>1, <2>1, <2>2, LabelledKept
<1>9. CASE PlaceTransfer
  <2> DEFINE placed   == {Position(Layout[k].pos) : k \in 1 .. 3}
             entry(p) == CHOOSE k \in 0 .. 2 : Position(Layout[k + 1].pos) = p
             v(p)     == Pair(Fixed(Layout[entry(p) + 1].item),
                              Param(3 * i + entry(p), 3 * i + entry(p)))
  <2>1. /\ stage = "transfers" /\ \A k \in 0 .. 2 : Convertible(3 * i + k)
        /\ pairs' = [p \in DOMAIN pairs \cup placed |-> IF p \in placed THEN v(p) ELSE pairs[p]]
    BY <1>9 DEF PlaceTransfer, At_
  <2>2. \A p \in placed : entry(p) \in 0 .. 2
    <3> SUFFICES ASSUME NEW p \in placed PROVE \E k \in 0 .. 2 : Position(Layout[k + 1].pos) = p
      OBVIOUS
    <3>1. PICK k \in 1 .. 3 : Position(Layout[k].pos) = p
      OBVIOUS
    <3>2. k - 1 \in 0 .. 2 /\ (k - 1) + 1 = k
      OBVIOUS
    <3> QED BY <3>1, <3>2
  <2>3. TransfersMatch /\ i \in Nat
    BY <1>1, <2>1, ClearFacts DEF IndInv, TransfersInv, TransferList, TypeOK
  <2>4. \A k \in 0 .. 2 : Kind(3 * i + k) \in Announces(Layout[k + 1].item)
    BY <2>1, <2>3 DEF TransfersMatch, Convertible, HasParam
  <2>5. \A p \in placed : Labelled(v(p))
    <3> SUFFICES ASSUME NEW p \in placed PROVE Labelled(v(p))
      OBVIOUS
    <3> DEFINE k == entry(p)
    <3>1. Kind(3 * i + k) \in Announces(Layout[k + 1].item)
      BY <2>2, <2>4
    <3> HIDE DEF k
    <3>2. Labelled(Pair(Fixed(Layout[k + 1].item), Param(3 * i + k, 3 * i + k)))
      BY <3>1, FixedLabelled
    <3> QED BY <3>2 DEF k
  <2> HIDE DEF v, placed, entry
  <2>6. DOMAIN pairs = 0 .. NUM_PAIRS - 1
    BY <1>1 DEF PairsType
  <2> QED BY <1>1, <2>1, <2>5, <2>6 DEF LabelledIn
<1>10. CASE Close
  <2> DEFINE v == Pair(Fixed("GAS_FEE"), Fee(0))
             w == Pair(Fixed("SIGNER"), Signer)
  <2>1. pairs' = [pairs EXCEPT ![nbPairs] = v, ![nbPairs + 1] = w]
    BY <1>10 DEF Close
  <2>2. Labelled(v) /\ Labelled(w)
    BY Speaks, OtherLabelled DEF Fee, Signer
  <2> HIDE DEF v, w
  <2> QED BY <1>1, <2>1, <2>2, LabelledKeptTwice
<1> QED
  BY <1>2, <1>3, <1>4, <1>5, <1>6, <1>7, <1>8, <1>9, <1>10
     DEF Next, DrawFees, Refuse, FinishParams, EnterPeers, FinishPeers, AddAmount, EnterTransfers,
         FinishTransfers, vars
-----------------------------------------------------------------------------
(* Every parameter is said.                                                *)

LEMMA SaidMore ==
    ASSUME NEW ps, NEW qs, NEW n \in Nat, NEW m \in Nat, n <= m,
           \A p \in 0 .. n - 1 : qs[p] = ps[p], NEW ks, ParamsSaid(ps, n, ks)
    PROVE  ParamsSaid(qs, m, ks)
  BY SaidGrows DEF ParamsSaid

LEMMA SaidFewer ==
    ASSUME NEW ps, NEW n, NEW ks, NEW js, ParamsSaid(ps, n, ks), js \subseteq ks
    PROVE  ParamsSaid(ps, n, js)
  BY DEF ParamsSaid

LEMMA Closes ==
    ASSUME tx' = tx, stage' \in {"closing", "shown"}, AllSaid(pairs', nbPairs')
    PROVE  SaidSoFar'
  BY Kept DEF SaidSoFar

\* All labels of the table are placed.
LEMMA TableSaid ==
    ASSUME IndInv, Clear, SaidSoFar, stage = "params", i = Len(Layout)
    PROVE  /\ nbPairs \in 1 .. 4 /\ nbPairs = Len(Layout)
           /\ ParamsSaid(pairs, nbPairs, 0 .. nbPairs - 1)
<1>1. ParamsInv /\ GoodLayout(Layout) /\ nbPairs = Len(Layout)
  BY TransactionFacts DEF IndInv, ParamsInv
<1>2. nbPairs \in 1 .. 4
  BY <1>1 DEF GoodLayout
<1>3. ASSUME NEW k \in 0 .. nbPairs - 1 PROVE Says("param", k) \in SaysOf(pairs, nbPairs)
  <2>1. k + 1 \in 1 .. nbPairs /\ (k + 1) - 1 = k
    BY <1>2
  <2>2. pairs[Layout[k + 1].pos].value.says = Says("param", (k + 1) - 1)
    BY <1>1, <2>1 DEF SaidSoFar
  <2>3. Layout[k + 1].pos \in 0 .. nbPairs - 1
    BY <1>1, <2>1 DEF GoodLayout
  <2>4. pairs[Layout[k + 1].pos].value.says \in SaysOf(pairs, nbPairs)
    BY <1>2, <2>3, SaidBy
  <2> QED BY <2>1, <2>2, <2>4
<1> QED BY <1>1, <1>2, <1>3 DEF ParamsSaid

LEMMA PlaceParamSaid ==
    ASSUME IndInv, Clear, SaidSoFar, PlaceParam
    PROVE  SaidSoFar'
<1> DEFINE v == Pair(Fixed(Layout[i + 1].item), Param(i, i))
           p == Layout[i + 1].pos
<1>1. /\ stage = "params" /\ stage' = "params" /\ tx' = tx /\ i' = i + 1 /\ i < Len(Layout)
      /\ pairs' = [pairs EXCEPT ![p] = v] /\ pairs \in PairsType /\ i \in Nat
      /\ GoodLayout(Layout)
  BY TypeFacts, TransactionFacts DEF IndInv, PlaceParam, At_, TypeOK, Clear
<1>2. v.value.says = Says("param", i)
  BY Speaks
<1> HIDE DEF v
<1>3. \A q \in 0 .. NUM_PAIRS - 1 : pairs'[q] = IF q = p THEN v ELSE pairs[q]
  BY <1>1 DEF PairsType
<1>4. /\ i + 1 \in 1 .. Len(Layout)
      /\ \A k \in 1 .. Len(Layout) : Layout[k].pos \in 0 .. NUM_PAIRS - 1
      /\ \A j, k \in 1 .. Len(Layout) : Layout[j].pos = Layout[k].pos => j = k
  <2>1. i + 1 \in 1 .. Len(Layout)
    BY <1>1 DEF GoodLayout
  <2>2. \A k \in 1 .. Len(Layout) : Layout[k].pos \in 0 .. NUM_PAIRS - 1
    <3>1. \A k \in 1 .. Len(Layout) : Layout[k].pos \in 0 .. Len(Layout) - 1
      BY <1>1 DEF GoodLayout
    <3>2. Len(Layout) \in 1 .. 4
      BY <1>1 DEF GoodLayout
    <3>3. \A m \in 1 .. 4 : \A q \in 0 .. m - 1 : q \in 0 .. NUM_PAIRS - 1
      BY Sizes
    <3>4. \A q \in 0 .. Len(Layout) - 1 : q \in 0 .. NUM_PAIRS - 1
      BY <3>2, <3>3, Zenon
    <3> QED BY <3>1, <3>4, Zenon
  <2>3. \A j, k \in 1 .. Len(Layout) : Layout[j].pos = Layout[k].pos => j = k
    BY <1>1 DEF GoodLayout
  <2> QED BY <2>1, <2>2, <2>3
<1>5. ASSUME NEW k \in 1 .. i + 1
      PROVE  pairs'[Layout[k].pos].value.says = Says("param", k - 1)
  <2>1. k \in 1 .. Len(Layout)
    BY <1>1, <1>4
  <2>2. CASE k = i + 1
    <3>1. k - 1 = i /\ pairs'[Layout[k].pos] = v
      BY <1>1, <1>3, <1>4, <2>1, <2>2
    <3> QED BY <1>2, <3>1
  <2>3. CASE k # i + 1
    <3>1. k \in 1 .. i /\ Layout[k].pos # p
      BY <1>1, <1>4, <2>1, <2>3
    <3>2. pairs'[Layout[k].pos] = pairs[Layout[k].pos]
      BY <1>3, <1>4, <2>1, <3>1
    <3> QED BY <1>1, <3>1, <3>2 DEF SaidSoFar
  <2> QED BY <2>2, <2>3
<1>6. Layout' = Layout
  BY <1>1, Kept
<1> QED BY <1>1, <1>5, <1>6 DEF SaidSoFar

LEMMA FinishParamsSaid ==
    ASSUME IndInv, Clear, SaidSoFar, FinishParams
    PROVE  SaidSoFar'
<1>1. /\ stage = "params" /\ stage' = "closing" /\ tx' = tx /\ i = Len(Layout)
      /\ UNCHANGED <<pairs, nbPairs>> /\ tx \in Transactions
      /\ Native => tx.method \notin PeerMethods \cup TransferMethods \cup {"registerCandidate"}
  BY DEF IndInv, FinishParams, ParamsPlaced, At_
<1>2. nbPairs \in 1 .. 4 /\ nbPairs = Len(Layout) /\ ParamsSaid(pairs, nbPairs, 0 .. nbPairs - 1)
  BY <1>1, TableSaid
<1>3. ~Peers /\ ~TransferList /\ tx.method # "registerCandidate"
  BY <1>1, ClearFacts DEF Peers, TransferList
<1>4. Len(tx.params) = nbPairs
  <2>1. Len(tx.params) = Len(Layout) + 0
    BY <1>1, <1>3, ClearFacts
  <2> QED BY <1>2, <2>1
<1>5. (0 .. Len(tx.params) - 1) \ LeftOut \subseteq 0 .. nbPairs - 1
  BY <1>4
<1>6. AllSaid(pairs, nbPairs)
  BY <1>2, <1>3, <1>5, SaidFewer DEF AllSaid
<1> QED BY <1>1, <1>6, Closes

LEMMA AddStakeFeeSaid ==
    ASSUME IndInv, Clear, SaidSoFar, AddStakeFee
    PROVE  SaidSoFar'
<1> DEFINE v == Pair(Fixed("STAKE_FEE"), Fixed("STAKE_FEE_ONG"))
<1>1. /\ stage = "params" /\ stage' = "closing" /\ tx' = tx /\ i = Len(Layout)
      /\ pairs' = [pairs EXCEPT ![nbPairs] = v] /\ nbPairs' = nbPairs + 1
      /\ pairs \in PairsType /\ tx \in Transactions /\ tx.method = "registerCandidate"
  BY TypeFacts DEF IndInv, AddStakeFee, ParamsPlaced, At_
<1>2. nbPairs \in 1 .. 4 /\ nbPairs = Len(Layout) /\ ParamsSaid(pairs, nbPairs, 0 .. nbPairs - 1)
  BY <1>1, TableSaid
<1>3. ~Peers /\ ~TransferList
  BY <1>1 DEF Peers, TransferList, PeerMethods, TransferMethods
<1>4. Len(tx.params) = 4 /\ nbPairs = 3
  <2> DEFINE n == Len(Layout)
             m == Len(tx.params)
  <2>1. m = n + 1 /\ m = 4
    BY <1>1, <1>3, ClearFacts
  <2>2. n = nbPairs /\ n \in 1 .. 4
    BY <1>2
  <2> HIDE DEF n, m
  <2>3. n = 3
    BY <2>1, <2>2
  <2> QED BY <2>1, <2>2, <2>3 DEF m
<1>5. LeftOut = {3}
  BY <1>1, <1>3 DEF LeftOut
<1>6. (0 .. Len(tx.params) - 1) \ LeftOut \subseteq 0 .. nbPairs - 1
  BY <1>4, <1>5
<1> HIDE DEF v
<1>7. \A p \in 0 .. nbPairs - 1 : pairs'[p] = pairs[p]
  BY <1>1, <1>4, Sizes DEF PairsType
<1>8. ParamsSaid(pairs', nbPairs', 0 .. nbPairs - 1)
  <2>1. nbPairs \in Nat /\ nbPairs' \in Nat /\ nbPairs <= nbPairs'
    BY <1>1, <1>2
  <2> DEFINE ks == 0 .. nbPairs - 1
  <2>2. ParamsSaid(pairs, nbPairs, ks)
    BY <1>2
  <2> HIDE DEF ks
  <2>3. ParamsSaid(pairs', nbPairs', ks)
    BY <1>7, <2>1, <2>2, SaidMore
  <2> QED BY <2>3 DEF ks
<1>9. AllSaid(pairs', nbPairs')
  BY <1>3, <1>6, <1>8, SaidFewer DEF AllSaid
<1> QED BY <1>1, <1>9, Closes

LEMMA EnterPeersSaid ==
    ASSUME IndInv, Clear, SaidSoFar, EnterPeers
    PROVE  SaidSoFar'
<1>1. /\ stage = "params" /\ stage' = "peers" /\ tx' = tx /\ i = Len(Layout) /\ i' = 0
      /\ UNCHANGED <<pairs, nbPairs>> /\ tx \in Transactions /\ Peers
  BY DEF IndInv, EnterPeers, ParamsPlaced, At_
<1>2. nbPairs \in 1 .. 4 /\ nbPairs = Len(Layout) /\ ParamsSaid(pairs, nbPairs, 0 .. nbPairs - 1)
  BY <1>1, TableSaid
<1>3. Len(Layout) = 1 /\ pubkey_num \in Nat
  BY <1>1, TransactionFacts DEF Clear, Peers
<1>4. {0} \cup OfPeers(0, pubkey_num) \subseteq 0 .. nbPairs - 1
  BY <1>2, <1>3 DEF OfPeers
<1>5. ParamsSaid(pairs, nbPairs, {0} \cup OfPeers(0, pubkey_num))
  BY <1>2, <1>4, SaidFewer
<1> QED BY <1>1, <1>5, Kept DEF SaidSoFar

LEMMA PlacePeerSaid ==
    ASSUME IndInv, Clear, SaidSoFar, PlacePeer
    PROVE  SaidSoFar'
<1> DEFINE v    == Pair(Label(curr, "PEER_PUBKEY"), Param(KeySlot, i + 2))
           w    == Pair(Label(KeySlot + 1, "PEER_AMOUNT"),
                        Param(KeySlot + 1 + LabelSlots, i + 2 + pubkey_num))
           both == pubkey_num <= MAX_PUBKEY_DISPLAY
           more == {i + 2} \cup (IF both THEN {i + 2 + pubkey_num} ELSE {})
<1>1. /\ stage = "peers" /\ stage' = "peers" /\ tx' = tx /\ i' = i + 1 /\ i < Displayed
      /\ tx \in Transactions /\ Peers /\ nbPairs <= 1 + 2 * i /\ nbPairs \in Nat /\ i \in Nat
      /\ pairs \in PairsType
  BY TypeFacts DEF IndInv, PlacePeer, At_, PeersInv, TypeOK
<1>2. /\ pairs' = IF both THEN [pairs EXCEPT ![nbPairs] = v, ![nbPairs + 1] = w]
                          ELSE [pairs EXCEPT ![nbPairs] = v]
      /\ nbPairs' = nbPairs + (IF both THEN 2 ELSE 1)
  BY DEF PlacePeer
<1>3. v.value.says = Says("param", i + 2) /\ w.value.says = Says("param", i + 2 + pubkey_num)
  BY Speaks
<1>4. pubkey_num \in Nat /\ i \in 0 .. 2
  <2>1. pubkey_num \in Nat
    BY <1>1, TransactionFacts
  <2> QED BY <1>1, <2>1 DEF Displayed, MAX_PUBKEY_DISPLAY
<1> HIDE DEF v, w
<1>5. /\ nbPairs \in 0 .. 5 /\ nbPairs \in 0 .. NUM_PAIRS - 1 /\ nbPairs + 1 \in 0 .. NUM_PAIRS - 1
      /\ \A p \in 0 .. nbPairs - 1 : p \in 0 .. NUM_PAIRS - 1 /\ p # nbPairs /\ p # nbPairs + 1
  BY <1>1, <1>4, Sizes
<1>6. /\ nbPairs' \in Nat /\ nbPairs < nbPairs' /\ (both => nbPairs + 1 < nbPairs')
      /\ \A p \in 0 .. nbPairs - 1 : pairs'[p] = pairs[p]
      /\ pairs'[nbPairs] = v /\ (both => pairs'[nbPairs + 1] = w)
  <2>1. CASE both
    BY <1>1, <1>2, <1>5, <2>1 DEF PairsType
  <2>2. CASE ~both
    BY <1>1, <1>2, <1>5, <2>2 DEF PairsType
  <2> QED BY <2>1, <2>2
<1>7. nbPairs \in 0 .. nbPairs' - 1 /\ (both => nbPairs + 1 \in 0 .. nbPairs' - 1)
  <2> DEFINE m == nbPairs'
             n == nbPairs
  <2>1. n \in Nat /\ m \in Nat /\ n < m
    BY <1>1, <1>6
  <2>2. both => n + 1 < m
    BY <1>6
  <2> HIDE DEF m, n
  <2>3. n \in 0 .. m - 1 /\ (n + 1 < m => n + 1 \in 0 .. m - 1)
    BY <2>1
  <2>4. both => n + 1 \in 0 .. m - 1
    BY <2>2, <2>3
  <2> QED BY <2>3, <2>4 DEF m, n
<1>8. ParamsSaid(pairs', nbPairs', {0} \cup OfPeers(i, pubkey_num))
  <2>1. ParamsSaid(pairs, nbPairs, {0} \cup OfPeers(i, pubkey_num))
    BY <1>1 DEF SaidSoFar
  <2>2. nbPairs \in Nat /\ nbPairs <= nbPairs'
    BY <1>1, <1>6
  <2> QED BY <1>6, <2>1, <2>2, SaidMore
<1>9. ParamsSaid(pairs', nbPairs', more)
  <2>1. Says("param", i + 2) \in SaysOf(pairs', nbPairs')
    BY <1>7, <1>3, <1>6, SaidBy
  <2>2. both => Says("param", i + 2 + pubkey_num) \in SaysOf(pairs', nbPairs')
    BY <1>7, <1>3, <1>6, SaidBy
  <2> QED BY <2>1, <2>2 DEF ParamsSaid
<1>10. OfPeers(i + 1, pubkey_num) \subseteq OfPeers(i, pubkey_num) \cup more
  BY <1>4 DEF OfPeers
<1> HIDE DEF more
<1>11. ParamsSaid(pairs', nbPairs', {0} \cup OfPeers(i + 1, pubkey_num))
  BY <1>8, <1>9, <1>10 DEF ParamsSaid
<1> QED BY <1>1, <1>11, Kept DEF SaidSoFar

LEMMA FinishPeersSaid ==
    ASSUME IndInv, Clear, SaidSoFar, FinishPeers
    PROVE  SaidSoFar'
<1>1. /\ stage = "peers" /\ stage' = "closing" /\ tx' = tx /\ i = Displayed
      /\ pubkey_num <= MAX_PUBKEY_DISPLAY
      /\ UNCHANGED <<pairs, nbPairs>> /\ tx \in Transactions /\ Peers
  BY DEF IndInv, FinishPeers, PeersInv, At_
<1>2. pubkey_num \in 0 .. 3 /\ Len(tx.params) = 2 + 2 * pubkey_num /\ i = pubkey_num
  <2>1. pubkey_num \in Nat /\ Len(tx.params) = 2 + 2 * pubkey_num
    BY <1>1, TransactionFacts
  <2> QED BY <1>1, <2>1 DEF MAX_PUBKEY_DISPLAY, Displayed
<1>3. LeftOut = {1}
  BY <1>1, <1>2 DEF LeftOut, Peers, PeerMethods
<1>4. (0 .. Len(tx.params) - 1) \ LeftOut \subseteq {0} \cup OfPeers(i, pubkey_num)
  BY <1>2, <1>3 DEF OfPeers, MAX_PUBKEY_DISPLAY
<1>5. AllSaid(pairs, nbPairs)
  BY <1>1, <1>2, <1>4, SaidFewer DEF AllSaid, SaidSoFar
<1> QED BY <1>1, <1>5, Closes

LEMMA PlaceRestSaid ==
    ASSUME IndInv, Clear, SaidSoFar, PlaceRest
    PROVE  SaidSoFar'
<1> DEFINE rest == Text(Slot(curr), MAX_BUFFER_LEN, "NODE_AMOUNT", pubkey_num - MAX_PUBKEY_DISPLAY)
           v    == Pair(Fixed("NODE_AMOUNT"), rest)
<1>1. /\ stage = "peers" /\ stage' = "amounts" /\ tx' = tx /\ i = Displayed
      /\ pubkey_num > MAX_PUBKEY_DISPLAY
      /\ tx \in Transactions /\ Peers /\ nbPairs <= 1 + 2 * i /\ nbPairs \in Nat /\ i \in Nat
      /\ pairs \in PairsType
      /\ pairs' = [pairs EXCEPT ![nbPairs] = v] /\ nbPairs' = nbPairs + 1
  BY TypeFacts DEF IndInv, PlaceRest, At_, PeersInv, TypeOK
<1>2. v.value.says = Rest(pubkey_num)
  BY Speaks DEF Rest
<1> HIDE DEF v
<1>3. pubkey_num \in Nat /\ pubkey_num > 3 /\ i = 3
  <2>1. pubkey_num \in Nat
    BY <1>1, TransactionFacts
  <2> QED BY <1>1, <2>1 DEF Displayed, MAX_PUBKEY_DISPLAY
<1>4. /\ nbPairs' \in Nat /\ nbPairs <= nbPairs' /\ nbPairs \in 0 .. nbPairs' - 1
      /\ \A p \in 0 .. nbPairs - 1 : pairs'[p] = pairs[p]
      /\ pairs'[nbPairs] = v
  BY <1>1, <1>3, Sizes DEF PairsType
<1>5. ParamsSaid(pairs', nbPairs', {0} \cup OfPeers(3, pubkey_num))
  <2>1. ParamsSaid(pairs, nbPairs, {0} \cup OfPeers(3, pubkey_num))
    BY <1>1, <1>3 DEF SaidSoFar
  <2> DEFINE ks == {0} \cup OfPeers(3, pubkey_num)
  <2>2. ParamsSaid(pairs, nbPairs, ks)
    BY <2>1
  <2>3. nbPairs \in Nat
    BY <1>1
  <2> HIDE DEF ks
  <2>4. ParamsSaid(pairs', nbPairs', ks)
    BY <1>4, <2>2, <2>3, SaidMore
  <2> QED BY <2>4 DEF ks
<1>6. Rest(pubkey_num) \in SaysOf(pairs', nbPairs')
  BY <1>2, <1>4, SaidBy
<1> QED BY <1>1, <1>3, <1>5, <1>6, Kept DEF SaidSoFar

LEMMA AddAmountSaid ==
    ASSUME IndInv, Clear, SaidSoFar, AddAmount
    PROVE  SaidSoFar'
<1>1. stage = "amounts" /\ stage' = "amounts" /\ tx' = tx /\ UNCHANGED <<pairs, nbPairs>>
  BY DEF AddAmount, At_
<1> QED BY <1>1, Kept DEF SaidSoFar

LEMMA PlaceTotalSaid ==
    ASSUME IndInv, Clear, SaidSoFar, PlaceTotal
    PROVE  SaidSoFar'
<1> DEFINE v == Pair(Fixed("TOTAL"), Total)
<1>1. /\ stage = "amounts" /\ stage' = "closing" /\ tx' = tx
      /\ tx \in Transactions /\ Peers /\ nbPairs <= 8 /\ nbPairs \in Nat
      /\ pairs \in PairsType
      /\ pairs' = [pairs EXCEPT ![nbPairs] = v] /\ nbPairs' = nbPairs + 1
  BY TypeFacts DEF IndInv, PlaceTotal, At_, AmountsInv, TypeOK
<1>2. v.value.says = Says("TOTAL", 0)
  BY Speaks DEF Total
<1> HIDE DEF v
<1>3. pubkey_num \in Nat /\ pubkey_num > 3 /\ Len(tx.params) = 2 + 2 * pubkey_num
  BY <1>1, TransactionFacts DEF SaidSoFar
<1>4. /\ nbPairs' \in Nat /\ nbPairs <= nbPairs' /\ nbPairs \in 0 .. nbPairs' - 1
      /\ \A p \in 0 .. nbPairs - 1 : pairs'[p] = pairs[p]
      /\ pairs'[nbPairs] = v
  BY <1>1, Sizes DEF PairsType
<1>5. ParamsSaid(pairs', nbPairs', {0} \cup OfPeers(3, pubkey_num))
  <2>1. ParamsSaid(pairs, nbPairs, {0} \cup OfPeers(3, pubkey_num))
    BY <1>1 DEF SaidSoFar
  <2> DEFINE ks == {0} \cup OfPeers(3, pubkey_num)
  <2>2. ParamsSaid(pairs, nbPairs, ks)
    BY <2>1
  <2>3. nbPairs \in Nat
    BY <1>1
  <2> HIDE DEF ks
  <2>4. ParamsSaid(pairs', nbPairs', ks)
    BY <1>4, <2>2, <2>3, SaidMore
  <2> QED BY <2>4 DEF ks
<1>6. Rest(pubkey_num) \in SaysOf(pairs', nbPairs')
  <2>1. Rest(pubkey_num) \in SaysOf(pairs, nbPairs)
    BY <1>1 DEF SaidSoFar
  <2>2. SaysOf(pairs, nbPairs) \subseteq SaysOf(pairs', nbPairs')
    BY <1>1, <1>4, SaidGrows
  <2> QED BY <2>1, <2>2
<1>7. Says("TOTAL", 0) \in SaysOf(pairs', nbPairs')
  BY <1>2, <1>4, SaidBy
<1>8. LeftOut = {1} \cup 5 .. Len(tx.params) - 1
  BY <1>1, <1>3 DEF LeftOut, Peers, PeerMethods
<1>9. (0 .. Len(tx.params) - 1) \ LeftOut \subseteq {0} \cup OfPeers(3, pubkey_num)
  BY <1>3, <1>8 DEF OfPeers
<1>10. AllSaid(pairs', nbPairs')
  BY <1>5, <1>6, <1>7, <1>9, SaidFewer DEF AllSaid
<1> QED BY <1>1, <1>10, Closes
LEMMA EnterTransfersSaid ==
    ASSUME IndInv, Clear, SaidSoFar, EnterTransfers
    PROVE  SaidSoFar'
<1>1. /\ stage = "params" /\ stage' = "transfers" /\ tx' = tx /\ i = Len(Layout) /\ i' = 1
      /\ UNCHANGED <<pairs, nbPairs>> /\ tx \in Transactions
      /\ Native /\ tx.method \in TransferMethods
  BY DEF IndInv, EnterTransfers, ParamsPlaced, At_
<1>2. nbPairs = Len(Layout) /\ ParamsSaid(pairs, nbPairs, 0 .. nbPairs - 1)
  BY <1>1, TableSaid
<1>3. nbPairs = 3
  BY <1>1, <1>2, TransactionFacts DEF Clear
<1>4. 3 * i' = nbPairs
  BY <1>1, <1>3
<1>5. ParamsSaid(pairs', nbPairs', 0 .. 3 * i' - 1)
  BY <1>1, <1>2, <1>4
<1> QED BY <1>1, <1>5, Kept DEF SaidSoFar

\* The three pairs of a transfer say its three parameters.
LEMMA PlaceTransferSaid ==
    ASSUME IndInv, Clear, SaidSoFar, PlaceTransfer
    PROVE  SaidSoFar'
<1> DEFINE placed   == {Position(Layout[k].pos) : k \in 1 .. 3}
           entry(p) == CHOOSE k \in 0 .. 2 : Position(Layout[k + 1].pos) = p
           v(p)     == Pair(Fixed(Layout[entry(p) + 1].item),
                            Param(3 * i + entry(p), 3 * i + entry(p)))
           n        == 3 * i
<1>1. /\ stage = "transfers" /\ stage' = "transfers" /\ tx' = tx /\ tx \in Transactions
      /\ i \in Nat /\ i' = i + 1 /\ nbPairs = n /\ nbPairs' = nbPairs + 3
      /\ n + 2 < PARAMETERS_MAX_NUM /\ pairs \in PairsType
      /\ Native /\ tx.method \in TransferMethods
      /\ pairs' = [p \in DOMAIN pairs \cup placed |-> IF p \in placed THEN v(p) ELSE pairs[p]]
  BY TypeFacts DEF IndInv, PlaceTransfer, At_, MoreTransfers, TransfersInv, TypeOK
<1>2. /\ \A k \in 1 .. 3 : Layout[k].pos \in 0 .. 2
      /\ \A j, k \in 1 .. 3 : Layout[j].pos = Layout[k].pos => j = k
  <2>1. Len(Layout) = 3 /\ GoodLayout(Layout)
    BY <1>1, TransactionFacts DEF Clear
  <2> QED BY <2>1 DEF GoodLayout
<1>3. n \in Nat /\ nbPairs \in Nat /\ nbPairs' \in Nat /\ nbPairs <= nbPairs'
  BY <1>1
<1>4. \A p \in 0 .. n - 1 : pairs'[p] = pairs[p]
  <2>1. \A k \in 1 .. 3 : Position(Layout[k].pos) >= n
    BY <1>1, <1>2 DEF Position
  <2>2. \A p \in 0 .. n - 1 : p \notin placed
    BY <1>3, <2>1
  <2>3. \A p \in 0 .. n - 1 : p \in DOMAIN pairs
    BY <1>1, <1>3, Sizes DEF PairsType
  <2> HIDE DEF placed, v, n
  <2> QED BY <1>1, <2>2, <2>3
<1>5. ASSUME NEW k \in 0 .. 2
      PROVE  Says("param", n + k) \in SaysOf(pairs', nbPairs')
  <2> DEFINE p == Position(Layout[k + 1].pos)
  <2>1. k + 1 \in 1 .. 3
    OBVIOUS
  <2>2. p \in placed /\ p \in 0 .. nbPairs' - 1
    BY <1>1, <1>2, <2>1 DEF Position
  <2>3. entry(p) = k
    <3>1. \A j \in 0 .. 2 : Position(Layout[j + 1].pos) = p => j = k
      <4> SUFFICES ASSUME NEW j \in 0 .. 2, Position(Layout[j + 1].pos) = p PROVE j = k
        OBVIOUS
      <4>1. j + 1 \in 1 .. 3 /\ Layout[j + 1].pos \in 0 .. 2 /\ Layout[k + 1].pos \in 0 .. 2
        BY <1>2, <2>1
      <4>2. Layout[j + 1].pos = Layout[k + 1].pos
        BY <1>1, <4>1 DEF Position
      <4>3. j + 1 = k + 1
        BY <1>2, <2>1, <4>1, <4>2
      <4> QED BY <4>3
    <3> HIDE DEF p
    <3>2. \E j \in 0 .. 2 : Position(Layout[j + 1].pos) = p
      BY DEF p
    <3> QED BY <3>1, <3>2
  <2>4. v(p).value.says = Says("param", n + entry(p))
    BY Speaks
  <2>5. pairs'[p] = v(p)
    <3> HIDE DEF v, placed, p
    <3> QED BY <1>1, <2>2
  <2> HIDE DEF v, p, entry, placed, n
  <2>6. pairs'[p].value.says \in SaysOf(pairs', nbPairs')
    BY <1>3, <2>2, SaidBy
  <2> QED BY <2>3, <2>4, <2>5, <2>6
<1>6. ParamsSaid(pairs', nbPairs', 0 .. n - 1)
  <2> DEFINE ks == 0 .. n - 1
  <2>1. ParamsSaid(pairs, nbPairs, ks) /\ \A p \in 0 .. nbPairs - 1 : pairs'[p] = pairs[p]
    BY <1>1, <1>4 DEF SaidSoFar
  <2> HIDE DEF ks, placed, v, n
  <2>2. ParamsSaid(pairs', nbPairs', ks)
    BY <1>3, <2>1, SaidMore
  <2> QED BY <2>2 DEF ks
<1>7. \A k \in 0 .. 3 * i' - 1 : k \in 0 .. n - 1 \/ \E j \in 0 .. 2 : k = n + j
  <2> SUFFICES ASSUME NEW k \in 0 .. 3 * i' - 1, k \notin 0 .. n - 1
               PROVE  \E j \in 0 .. 2 : k = n + j
    OBVIOUS
  <2>1. 3 * i' = n + 3
    BY <1>1
  <2>2. k - n \in 0 .. 2 /\ k = n + (k - n)
    BY <1>3, <2>1
  <2> QED BY <2>2
<1> HIDE DEF placed, v, n
<1>8. ParamsSaid(pairs', nbPairs', 0 .. 3 * i' - 1)
  BY <1>5, <1>6, <1>7 DEF ParamsSaid
<1> QED BY <1>1, <1>8 DEF SaidSoFar

\* The loop ends at the end of the list, not of the array: a list that fits is
\* placed whole.
LEMMA FinishTransfersSaid ==
    ASSUME IndInv, Clear, SaidSoFar, FinishTransfers
    PROVE  SaidSoFar'
<1>1. /\ stage = "transfers" /\ stage' = "closing" /\ tx' = tx /\ UNCHANGED <<pairs, nbPairs>>
      /\ tx \in Transactions /\ Native /\ tx.method \in TransferMethods /\ i \in Nat
      /\ ~(3 * i < Len(tx.params) /\ 3 * i + 2 < PARAMETERS_MAX_NUM)
  BY DEF IndInv, FinishTransfers, At_, MoreTransfers, HasParam, TransfersInv, TypeOK
<1>2. PICK n \in Nat : Len(tx.params) = 3 * n
  BY <1>1, ClearFacts DEF TransferList
<1>3. Len(tx.params) <= PARAMETERS_MAX_NUM
  BY <1>1, TransactionAssumption DEF WellParsed
<1>4. Len(tx.params) <= 3 * i
  <2> DEFINE m == Len(tx.params)
  <2>1. m = 3 * n /\ m <= PARAMETERS_MAX_NUM
        /\ ~(3 * i < m /\ 3 * i + 2 < PARAMETERS_MAX_NUM)
    BY <1>1, <1>2, <1>3
  <2> HIDE DEF m
  <2>2. m <= 3 * i
    BY <1>1, <2>1, Sizes
  <2> QED BY <2>2 DEF m
<1>5. ~Peers
  BY <1>1 DEF Peers, PeerMethods, TransferMethods
<1>6. (0 .. Len(tx.params) - 1) \ LeftOut \subseteq 0 .. 3 * i - 1
  BY <1>1, <1>2, <1>4
<1>7. AllSaid(pairs, nbPairs)
  BY <1>1, <1>5, <1>6, SaidFewer DEF AllSaid, SaidSoFar
<1> QED BY <1>1, <1>7, Closes

LEMMA CloseSaid ==
    ASSUME IndInv, Clear, SaidSoFar, Close
    PROVE  SaidSoFar'
<1> DEFINE v == Pair(Fixed("GAS_FEE"), Fee(0))
           w == Pair(Fixed("SIGNER"), Signer)
<1>1. /\ stage = "closing" /\ stage' = "shown" /\ tx' = tx
      /\ pairs' = [pairs EXCEPT ![nbPairs] = v, ![nbPairs + 1] = w] /\ nbPairs' = nbPairs + 2
      /\ nbPairs \in Nat /\ nbPairs <= PARAMETERS_MAX_NUM /\ pairs \in PairsType
  BY TypeFacts DEF IndInv, Close, At_, ClosingInv, TypeOK
<1> HIDE DEF v, w
<1>2. /\ nbPairs' \in Nat /\ nbPairs <= nbPairs'
      /\ \A p \in 0 .. nbPairs - 1 : pairs'[p] = pairs[p]
  BY <1>1, Sizes DEF PairsType
<1>3. AllSaid(pairs, nbPairs)
  BY <1>1 DEF SaidSoFar
<1>4. SaysOf(pairs, nbPairs) \subseteq SaysOf(pairs', nbPairs')
  <2>1. nbPairs \in Nat
    BY <1>1
  <2> QED BY <1>2, <2>1, SaidGrows
<1>5. AllSaid(pairs', nbPairs')
  BY <1>3, <1>4 DEF AllSaid, ParamsSaid
<1> QED BY <1>1, <1>5, Closes

LEMMA SaidStep ==
    ASSUME IndInv, Clear, SaidSoFar, [Next]_vars
    PROVE  SaidSoFar'
<1>1. CASE DrawFees
  <2>1. stage' = "params" /\ i' = 0
    BY <1>1 DEF DrawFees, Clear
  <2> QED BY <2>1 DEF SaidSoFar
<1>2. CASE Refuse
  <2>1. stage' = "refused"
    BY <1>2 DEF Refuse
  <2> QED BY <2>1 DEF SaidSoFar
<1>3. CASE ui_display_bs_transaction
  BY <1>3 DEF ui_display_bs_transaction, At_, SaidSoFar
<1>4. CASE UNCHANGED vars
  <2>1. /\ tx' = tx /\ stage' = stage /\ pairs' = pairs /\ nbPairs' = nbPairs /\ i' = i
    BY <1>4 DEF vars
  <2>2. Layout' = Layout /\ pubkey_num' = pubkey_num
        /\ (AllSaid(pairs, nbPairs)' <=> AllSaid(pairs', nbPairs'))
    BY <2>1, Kept
  <2> QED BY <2>1, <2>2 DEF SaidSoFar
<1> QED
  BY <1>1, <1>2, <1>3, <1>4, PlaceParamSaid, FinishParamsSaid, AddStakeFeeSaid, EnterPeersSaid,
     PlacePeerSaid, FinishPeersSaid, PlaceRestSaid, AddAmountSaid, PlaceTotalSaid,
     EnterTransfersSaid, PlaceTransferSaid, FinishTransfersSaid, CloseSaid DEF Next
-----------------------------------------------------------------------------
LEMMA InitSaid == Init => SInv
<1> SUFFICES ASSUME Init PROVE SInv
  OBVIOUS
<1>1. stage = "start" /\ \A p \in 0 .. NUM_PAIRS - 1 : pairs[p] = Stale
  BY DEF Init
<1>2. Stale.value.says.what = "stale" /\ Labelled(Stale)
  <2>1. Stale.value.says.what = "stale"
    BY Speaks DEF Stale
  <2> QED BY <2>1 DEF Labelled
<1>3. NoTotalIn(pairs) /\ AllLabelled
  BY <1>1, <1>2 DEF NoTotalIn, AllLabelled
<1> QED BY <1>1, <1>3 DEF SInv, TotalRight, SaidSoFar

LEMMA StepSaid == IndInv /\ SInv /\ [Next]_vars => SInv'
<1> SUFFICES ASSUME IndInv, SInv, [Next]_vars PROVE SInv'
  OBVIOUS
<1>1. TotalRight'
  BY TotalStep DEF SInv
<1>2. tx' = tx
  BY DEF Next, DrawFees, Refuse, ui_display_bs_transaction, PlaceParam, FinishParams, AddStakeFee,
         EnterPeers, PlacePeer, FinishPeers, PlaceRest, AddAmount, PlaceTotal, EnterTransfers,
         PlaceTransfer, FinishTransfers, Close, ParamsPlaced, At_, vars
<1>3. Clear' = Clear
  BY <1>2, Kept
<1>4. ASSUME Clear PROVE AllLabelled' /\ SaidSoFar'
  <2>1. AllLabelled /\ SaidSoFar
    BY <1>4 DEF SInv
  <2>2. stage # "blind"
    BY <2>1 DEF SaidSoFar
  <2> QED BY <1>4, <2>1, <2>2, LabelledStep, SaidStep
<1> QED BY <1>1, <1>3, <1>4 DEF SInv

LEMMA SaidAlways == Spec => [](IndInv /\ SInv)
<1> QED BY InitInv, StepInv, InitSaid, StepSaid, PTL DEF Spec
-----------------------------------------------------------------------------
(* The theorems.                                                           *)

\* At every step of every review of a transaction the parser accepts, no text is
\* written past g_buffers and no pair past g_pairs, however many transfers or
\* peers the transaction lists and whatever PARAMETERS_MAX_NUM is from 14 on.
THEOREM PagesFit == Spec => []TypeOK
<1>1. IndInv => TypeOK
  BY DEF IndInv
<1> QED BY <1>1, InitInv, StepInv, PTL DEF Spec

\* No pair left in g_pairs by an earlier review is ever shown.
THEOREM PagesComplete == Spec => []PairsComplete
<1>1. IndInv => PairsComplete
  BY DEF IndInv
<1> QED BY <1>1, InitInv, StepInv, PTL DEF Spec

\* Every label and every value of a page that is shown, the fee's excepted, is
\* still what it was written as when the page is complete.
THEOREM PagesIntact == Spec => []ParametersIntact
<1>1. IndInv => ParametersIntact
  BY DEF IndInv
<1> QED BY <1>1, InitInv, StepInv, PTL DEF Spec

\* The total that a page shows is the sum of the amounts of all peers, those
\* beyond the third included, up to the width of the word it is added in.
THEOREM TotalsAreWhole == Spec => []TotalCountsAll
<1>1. ASSUME IndInv, SInv PROVE TotalCountsAll
  <2> SUFFICES ASSUME stage = "shown", NEW p \in 0 .. nbPairs - 1,
                      pairs[p].value.says = Total.says
               PROVE  total = SumOfAmounts % WordSize
    BY DEF TotalCountsAll, TotalShown, Shown, ShownPairs
  <2>1. pairs[p].value.says.what = "TOTAL"
    BY Speaks DEF Total
  <2>2. p \in 0 .. NUM_PAIRS - 1
    BY <1>1, Sizes DEF IndInv, TypeOK
  <2>3. ~NoTotalIn(pairs)
    BY <2>1, <2>2 DEF NoTotalIn
  <2> QED BY <1>1, <2>3 DEF SInv, TotalRight
<1> QED BY <1>1, SaidAlways, PTL

\* On the page of a call made as a call of its contract's type no value stands
\* under another value's label, and no key or amount under another peer's number.
THEOREM LabelsAreTrue == Spec => []LabelsMatch
<1>1. ASSUME IndInv, SInv PROVE LabelsMatch
  <2> SUFFICES ASSUME Clear, NEW p \in 0 .. nbPairs - 1 PROVE Labelled(pairs[p])
    BY DEF LabelsMatch, ShownPairs, Clear
  <2>1. p \in 0 .. NUM_PAIRS - 1
    BY <1>1, Sizes DEF IndInv, TypeOK
  <2> QED BY <1>1, <2>1 DEF SInv, AllLabelled
<1> QED BY <1>1, SaidAlways, PTL

\* On such a page every parameter stands that the parser's table announces, but
\* for those left out on purpose; of more than three peers, how many are left out
\* and the sum of the amounts.
THEOREM NothingIsHidden == Spec => []EverythingShown
<1>1. ASSUME IndInv, SInv PROVE EverythingShown
  <2> SUFFICES ASSUME Clear, Shown
               PROVE  /\ 0 .. Len(tx.params) - 1 \subseteq ShownParams \cup LeftOut
                      /\ Peers /\ pubkey_num > 3 =>
                             {Says("NODE_AMOUNT", pubkey_num - 3), Says("TOTAL", 0)}
                                 \subseteq {pair.value.says : pair \in ShownPairs}
    BY DEF EverythingShown, Clear
  <2>1. AllSaid(pairs, nbPairs)
    BY <1>1 DEF SInv, SaidSoFar, Shown
  <2>2. SaysOf(pairs, nbPairs) = {pair.value.says : pair \in ShownPairs}
    BY DEF SaysOf, ShownPairs
  <2>3. 0 .. Len(tx.params) - 1 \subseteq ShownParams \cup LeftOut
    BY <2>1, <2>2 DEF AllSaid, ParamsSaid, ShownParams
  <2>4. Rest(pubkey_num) = Says("NODE_AMOUNT", pubkey_num - 3)
    BY DEF Rest, MAX_PUBKEY_DISPLAY
  <2> QED BY <2>1, <2>2, <2>3, <2>4 DEF AllSaid
<1> QED BY <1>1, SaidAlways, PTL
=============================================================================
