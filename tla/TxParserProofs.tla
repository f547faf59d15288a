-------------------------- MODULE TxParserProofs ---------------------------
(***************************************************************************)
(* Theorems about TxParser, for every transaction and for every size that  *)
(* the constants' assumptions allow.  From one inductive invariant (IInv): *)
(* the parser stays in the transaction and in its array, its entries are   *)
(* disjoint and in order, the gas fee does not wrap, and parsing ends.     *)
(* From a second (KInv), which follows the signature: the entries are the  *)
(* ones the tables announce, amounts are in a form that the page converts, *)
(* and the transaction is what ReviewPages assumes it to be.               *)
(*                                                                         *)
(* The second half prepares TxParserCallProofs and speaks of one state: a  *)
(* piece that the parser has read is what CallFormat writes for its entry, *)
(* and of what CallFormat writes each reader finds its piece.              *)
(***************************************************************************)
EXTENDS TxCalls, CommonProofs, TLAPS

\* A position or Past.
Places == 0 .. size + 1

Buffered == buf \in Seq(Bytes)

-----------------------------------------------------------------------------
(* What the reading functions return.                                      *)

LEMMA BytesRead ==
    ASSUME Buffered
    PROVE  /\ size \in Nat
           /\ \A at \in Nat : at < size => Byte(at) \in Bytes
<1>1. size \in Nat /\ \A k \in 1 .. size : buf[k] \in Bytes
  BY DEF Buffered, size
<1>2. \A at \in Nat : at < size => at + 1 \in 1 .. size
  BY <1>1
<1> QED BY <1>1, <1>2 DEF Byte

LEMMA SeekReads ==
    ASSUME Buffered, NEW at \in Places, NEW n \in Nat
    PROVE  /\ buffer_seek_cur(at, n) \in Places
           /\ Found(buffer_seek_cur(at, n)) => buffer_seek_cur(at, n) = at + n
BY BytesRead DEF buffer_seek_cur, buffer_can_read, Found, Past, Places

LEMMA ConstantLengths ==
    /\ Len(OPCODE_SYSCALL) = 2 /\ Len(OPCODE_APPCALL) = 1 /\ Len(OPCODE_PACK) = 1
    /\ Len(OPCODE_END) = 1 /\ Len(OPCODE_ST_BEGIN) = 3 /\ Len(OPCODE_ST_END) = 1
    /\ Len(OPCODE_PARAM_END) = 3 /\ Len(OPCODE_PARAM_ST_END) = 4
    /\ Len(NATIVE_INVOKE) \in Nat
<1>1. Len(NATIVE_INVOKE) \in Nat
  BY SizeAssumption
<1> QED BY <1>1 DEF OPCODE_SYSCALL, OPCODE_APPCALL, OPCODE_PACK, OPCODE_END, OPCODE_ST_BEGIN,
               OPCODE_ST_END, OPCODE_PARAM_END, OPCODE_PARAM_ST_END

\* A constant that is found is there.
LEMMA ConstantReads ==
    ASSUME Buffered, NEW at \in Places, NEW str, NEW n \in Nat, Len(str) = n
    PROVE  /\ parse_check_constant(at, str) \in Places
           /\ Found(parse_check_constant(at, str)) =>
                  parse_check_constant(at, str) = at + n /\ Slice(at, n) = str
BY BytesRead DEF parse_check_constant, buffer_can_read, Found, Past, Places

LEMMA SizedReads ==
    ASSUME Buffered, NEW at \in Places, NEW sizes
    PROVE  /\ Sized(at, sizes) \in Places
           /\ Found(Sized(at, sizes)) =>
                  /\ at < size /\ Byte(at) \in sizes
                  /\ Sized(at, sizes) = at + 1 + Byte(at)
<1>1. size \in Nat /\ at \in Nat /\ (at < size => Byte(at) \in Nat)
  BY BytesRead DEF Places, Bytes
<1>2. CASE ~(buffer_can_read(at, 1) /\ Byte(at) \in sizes)
  BY <1>1, <1>2 DEF Sized, Past, Places, Found
<1>3. CASE buffer_can_read(at, 1) /\ Byte(at) \in sizes
  <2>1. at < size /\ at + 1 \in Places /\ Byte(at) \in Nat
    BY <1>1, <1>3 DEF buffer_can_read, Places
  <2>2. Sized(at, sizes) = buffer_seek_cur(at + 1, Byte(at))
    BY <1>3 DEF Sized
  <2> QED BY <1>3, <2>1, <2>2, SeekReads
<1> QED BY <1>2, <1>3

LEMMA AddressReads ==
    ASSUME Buffered, NEW at \in Places, NEW has_length \in BOOLEAN
    PROVE  /\ parse_address(at, has_length) \in Places
           /\ Found(parse_address(at, has_length)) =>
                  parse_address(at, has_length) =
                      at + (IF has_length THEN 1 ELSE 0) + ADDRESS_SCRIPT_HASH_LEN
<1>1. at \in Int /\ ADDRESS_SCRIPT_HASH_LEN \in Nat
  BY BytesRead, SizeAssumption DEF Places
<1>2. CASE has_length = TRUE
  BY <1>1, <1>2, SizedReads DEF parse_address
<1>3. CASE has_length = FALSE
  <2>1. parse_address(at, has_length) = buffer_seek_cur(at, ADDRESS_SCRIPT_HASH_LEN)
    BY <1>3 DEF parse_address
  <2> QED BY <1>1, <1>3, <2>1, SeekReads
<1> QED BY <1>2, <1>3

LEMMA KeyReads ==
    ASSUME Buffered, NEW at \in Places
    PROVE  /\ parse_pk(at) \in Places
           /\ Found(parse_pk(at)) => parse_pk(at) = at + 1 + 2 * COMPRESSED_KEY_LEN
BY SizedReads DEF parse_pk

LEMMA IdentityReads ==
    ASSUME Buffered, NEW at \in Places
    PROVE  /\ parse_ont_id(at) \in Places
           /\ Found(parse_ont_id(at)) => at <= parse_ont_id(at)
<1>1. size \in Nat /\ at \in Nat
  BY BytesRead DEF Places
<1>2. Found(parse_ont_id(at)) => Byte(at) \in 1 .. 255
  BY SizedReads DEF parse_ont_id
<1> QED BY <1>1, <1>2, SizedReads DEF parse_ont_id

LEMMA NameReads ==
    ASSUME Buffered, NEW at \in Places
    PROVE  /\ parse_method_name(at) \in Places
           /\ Found(parse_method_name(at)) =>
                  /\ at < size /\ Byte(at) \in 1 .. 255
                  /\ parse_method_name(at) = at + 1 + Byte(at)
BY SizedReads DEF parse_method_name

LEMMA WideReads ==
    ASSUME Buffered, NEW at \in Places
    PROVE  /\ parse_uint128(at) \in Places
           /\ Found(parse_uint128(at)) => parse_uint128(at) = at + 2 * U64
<1>1. 2 * U64 \in Nat
  BY WordAssumption
<1> QED BY <1>1, SeekReads DEF parse_uint128

LEMMA AmountReads ==
    ASSUME Buffered, NEW at \in Places
    PROVE  /\ parse_amount(at) \in Places
           /\ Found(parse_amount(at)) => at + 1 <= parse_amount(at)
<1>1. size \in Nat /\ at \in Nat /\ (at < size => Byte(at) \in Nat)
  BY BytesRead DEF Places, Bytes
<1>2. CASE ~(buffer_can_read(at, 1) /\ AmountStarts(Byte(at)))
  BY <1>1, <1>2 DEF parse_amount, Past, Places, Found
<1>3. CASE buffer_can_read(at, 1) /\ AmountStarts(Byte(at))
  <2>1. AmountLength(Byte(at)) \in Nat /\ 1 <= AmountLength(Byte(at))
    BY <1>1, <1>3 DEF buffer_can_read, AmountLength
  <2>2. parse_amount(at) = buffer_seek_cur(at, AmountLength(Byte(at)))
    BY <1>3 DEF parse_amount
  <2> QED BY <1>1, <2>1, <2>2, SeekReads
<1> QED BY <1>2, <1>3

LEMMA EndReads ==
    ASSUME Buffered, NEW at \in Places
    PROVE  /\ EndParam(at) \in Places
           /\ Found(EndParam(at)) => EndParam(at) = at + 3
           /\ Closed(at) \in Places
           /\ Found(Closed(at)) => at <= Closed(at)
<1>1. EndParam(at) \in Places /\ (Found(EndParam(at)) => EndParam(at) = at + 3)
  BY ConstantLengths, ConstantReads DEF EndParam
<1>2. at \in Nat
  BY BytesRead DEF Places
<1> QED BY <1>1, <1>2 DEF Closed

\* A transfer state, read to its end: where its parts are, and its last byte.
LEMMA StateReads ==
    ASSUME Buffered, NEW at \in Places
    PROVE  /\ StateEnd(at) \in Places
           /\ Found(StateEnd(at)) =>
                  /\ StateFrom(at) \in Nat /\ StateTo(at) \in Nat /\ StateAmount(at) \in Nat
                  /\ at <= StateFrom(at)
                  /\ StateFrom(at) + 1 + ADDRESS_SCRIPT_HASH_LEN <= StateTo(at)
                  /\ StateTo(at) + 1 + ADDRESS_SCRIPT_HASH_LEN <= StateAmount(at)
                  /\ parse_amount(StateAmount(at)) \in Nat
                  /\ StateAmount(at) <= parse_amount(StateAmount(at))
                  /\ parse_amount(StateAmount(at)) < StateEnd(at)
                  /\ Byte(StateEnd(at) - 1) = OPCODE_ST_END[1]
<1> DEFINE from   == StateFrom(at)
           from_  == parse_address(from, TRUE)
           to     == StateTo(at)
           to_    == parse_address(to, TRUE)
           amount == StateAmount(at)
           amount_ == parse_amount(amount)
           closed == EndParam(amount_)
           end    == StateEnd(at)
<1>0. size \in Nat /\ at \in Nat /\ ADDRESS_SCRIPT_HASH_LEN \in Nat
  BY BytesRead, SizeAssumption DEF Places
<1>1. from \in Places /\ (Found(from) => from = at + 3)
  BY ConstantLengths, ConstantReads DEF StateFrom
<1>2. from_ \in Places /\ (Found(from_) => from_ = from + 1 + ADDRESS_SCRIPT_HASH_LEN)
  BY <1>1, AddressReads
<1>3. to \in Places /\ (Found(to) => to = from_ + 3)
  BY <1>2, EndReads DEF StateTo
<1>4. to_ \in Places /\ (Found(to_) => to_ = to + 1 + ADDRESS_SCRIPT_HASH_LEN)
  BY <1>3, AddressReads
<1>5. amount \in Places /\ (Found(amount) => amount = to_ + 3)
  BY <1>4, EndReads DEF StateAmount
<1>6. amount_ \in Places /\ (Found(amount_) => amount + 1 <= amount_)
  BY <1>5, AmountReads
<1>7. closed \in Places /\ (Found(closed) => closed = amount_ + 3)
  BY <1>6, EndReads
<1>8. /\ end \in Places
      /\ Found(end) => end = closed + 1 /\ Slice(closed, 1) = OPCODE_ST_END
  BY <1>7, ConstantLengths, ConstantReads DEF StateEnd
<1>9. Found(end) => Slice(closed, 1)[1] = Byte(closed) /\ closed = end - 1
  <2>1. Found(end) => closed \in Nat /\ closed + 1 <= size
    BY <1>0, <1>7, <1>8 DEF Places, Found
  <2>2. Found(end) => SubSeq(buf, closed + 1, closed + 1)[1] = buf[closed + 1]
    BY <1>0, <2>1 DEF Buffered, size
  <2> QED BY <2>1, <2>2, <1>8, SMTT(30) DEF Slice, Byte
<1> HIDE DEF from, from_, to, to_, amount, amount_, closed, end
<1>10. Found(end) => /\ from \in Nat /\ to \in Nat /\ amount \in Nat /\ amount_ \in Nat
                     /\ at <= from
                     /\ from + 1 + ADDRESS_SCRIPT_HASH_LEN <= to
                     /\ to + 1 + ADDRESS_SCRIPT_HASH_LEN <= amount
                     /\ amount <= amount_ /\ amount_ < end
  BY <1>0, <1>1, <1>2, <1>3, <1>4, <1>5, <1>6, <1>7, <1>8 DEF Places, Found
<1>11. Found(end) => Byte(end - 1) = OPCODE_ST_END[1]
  BY <1>8, <1>9
<1> QED BY <1>8, <1>10, <1>11 DEF from, to, amount, amount_, end

\* A number read from bytes is a natural number.
LEMMA LittleEndianNat ==
    ASSUME NEW bytes \in Seq(Bytes)
    PROVE  LittleEndian(bytes) \in Nat
<1> DEFINE base == 256
<1>1. base \in Nat /\ base # 0 /\ Bytes = 0 .. base - 1
  BY DEF Bytes
<1> HIDE DEF base
<1>2. Worth(base, bytes) \in Nat
  BY <1>1, WorthBound
<1> QED BY <1>2 DEF LittleEndian, base

LEMMA SliceBytes ==
    ASSUME Buffered, NEW at \in Nat, NEW n \in Nat, at + n <= size
    PROVE  Slice(at, n) \in Seq(Bytes) /\ Len(Slice(at, n)) = n
BY DEF Buffered, Slice, size
-----------------------------------------------------------------------------
(* The inductive invariant.                                                *)

IsEntry(e) == e.kind \in PARAM_KINDS /\ e.at \in Nat /\ e.len \in Nat

\* p has n entries, disjoint and in order, between two positions.
Ordered(p, n, from, upto) ==
    /\ DOMAIN p = 0 .. n - 1
    /\ \A k \in 0 .. n - 1 :
           IsEntry(p[k]) /\ from <= p[k].at /\ p[k].at + p[k].len <= upto
    /\ \A j, k \in 0 .. n - 1 : j < k => p[j].at + p[j].len <= p[k].at

Start == PayloadAt(HeaderLength)

Working == stage \notin Statuses

\* The number of entries written.
Written ==
    IF stage = "keys" THEN cur + i
    ELSE IF stage = "amounts" THEN cur + num + i
    ELSE cur

KeySpace == 2 * COMPRESSED_KEY_LEN + 4

TypeInv ==
    /\ stage \in Stages
    /\ offset \in Positions
    /\ type \in ContractTypes \cup {"UNKNOWN_CONTRACT"}
    /\ addr \in Positions /\ name.at \in Positions /\ name.len \in Bytes
    /\ cur \in 0 .. PARAMETERS_MAX_NUM
    /\ todo \in Seq(ParameterTypes)
    /\ num \in Nat /\ i \in Nat

\* What the header's checks have established.
HeaderInv ==
    Working /\ stage # "header" =>
        /\ size <= MAX_TRANSACTION_LEN
        /\ HeaderLength <= offset
        /\ GasInRange

\* What is read later lies behind the payload's start.
PayloadInv ==
    /\ stage = "header" => offset = 0
    /\ stage = "payload" => offset = HeaderLength
    /\ Working /\ stage \notin {"header", "payload"} => Start <= offset

\* A transfer is read in front of the byte that ends a native call.
TransferInv ==
    /\ stage \in {"method", "lookup"} /\ Native => Byte(size - 1) = 0
    /\ stage = "lookup" /\ Native => offset < size
    /\ stage = "transfers" => offset < size /\ Byte(size - 1) = 0

\* While a list of pairs is read.  The first conjunct is the code's check, in
\* which the sum may have wrapped; the keys' bytes are what bounds i.
PairsInv ==
    /\ stage \in {"keys", "amounts"} =>
           /\ cur <= 1 /\ 1 <= i /\ i <= num + 1
           /\ (num * 2 + 1 + cur) % UINT64 <= PARAMETERS_MAX_NUM
    /\ stage = "keys" => (i - 1) * KeySpace <= offset
    /\ stage = "amounts" => 2 * num + 1 + cur <= PARAMETERS_MAX_NUM

ParamsInv ==
    /\ stage \in {"header", "payload", "contract", "method", "lookup"} => cur = 0
    /\ stage \in {"params", "keys", "amounts"} => CompositeLast(todo, cur)
    /\ stage \in {"keys", "amounts"} => Len(todo) = 1
    /\ Working => Ordered(params, Written, Start, offset)
    /\ ~Working => \E n \in 0 .. PARAMETERS_MAX_NUM : Ordered(params, n, Start, offset)

IInv ==
    /\ Buffered
    /\ TypeInv
    /\ HeaderInv
    /\ PayloadInv
    /\ TransferInv
    /\ PairsInv
    /\ ParamsInv
-----------------------------------------------------------------------------
(* Consequences used by several steps.                                     *)

LEMMA StartNat == HeaderLength \in Nat /\ Start \in Nat
<1>1. HeaderLength \in Nat /\ U16 \in Nat /\ U32 \in Nat /\ U64 \in Nat
  BY SizeAssumption, WordAssumption DEF HeaderLength, GasPriceAt
<1>2. Width(Byte(HeaderLength)) \in Nat
  BY <1>1 DEF Width
<1> QED BY <1>1, <1>2 DEF Start, PayloadAt

\* What depends on the transaction alone stays with it.
LEMMA SameBuffer ==
    ASSUME buf' = buf
    PROVE  /\ size' = size /\ Start' = Start /\ Positions' = Positions
           /\ Buffered' <=> Buffered
           /\ GasInRange' <=> GasInRange
           /\ gas_price' = gas_price /\ gas_limit' = gas_limit
           /\ Byte(size - 1)' = Byte(size - 1)
BY DEF size, Start, Positions, Buffered, GasInRange, gas_price, gas_limit, Slice, Byte, PayloadAt,
       LittleEndian, Width

\* Keys that fit the transaction fit the array.
LEMMA KeysFit ==
    ASSUME Buffered, TypeInv, size <= MAX_TRANSACTION_LEN,
           NEW n \in Nat, n * KeySpace <= offset
    PROVE  n + 3 <= PARAMETERS_MAX_NUM
<1>1. KeySpace \in Nat /\ MAX_TRANSACTION_LEN \in Nat /\ PARAMETERS_MAX_NUM \in Nat
  BY SizeAssumption DEF KeySpace
<1>2. n * KeySpace \in Nat
  BY <1>1
<1>3. n * KeySpace < (PARAMETERS_MAX_NUM - 2) * KeySpace
  <2>1. offset \in Nat /\ offset <= size /\ size \in Nat
    BY BytesRead DEF TypeInv, Positions
  <2>2. MAX_TRANSACTION_LEN < (PARAMETERS_MAX_NUM - 2) * KeySpace
    BY CapacityAssumption DEF KeySpace
  <2> DEFINE room == (PARAMETERS_MAX_NUM - 2) * KeySpace
  <2>3. room \in Int
    BY <1>1
  <2> HIDE DEF room
  <2>4. n * KeySpace < room
    BY <1>1, <1>2, <2>1, <2>2, <2>3 DEF room
  <2> QED BY <2>4 DEF room
<1>4. ASSUME PARAMETERS_MAX_NUM < n + 3 PROVE FALSE
  <2> DEFINE top == PARAMETERS_MAX_NUM - 2
  <2>1. top \in Int /\ top <= n /\ n * KeySpace < top * KeySpace
    BY <1>1, <1>3, <1>4
  <2> HIDE DEF top
  <2>2. CASE top \in Nat
    <3>1. top * KeySpace <= n * KeySpace
      BY <1>1, <2>1, <2>2, ProductMonotonic
    <3>2. top * KeySpace \in Nat
      BY <1>1, <2>2
    <3> QED BY <1>2, <2>1, <3>1, <3>2
  <2>3. CASE top \notin Nat
    <3> DEFINE below == 0 - top
    <3>1. below \in Nat /\ top * KeySpace = 0 - below * KeySpace
      BY <1>1, <2>1, <2>3
    <3> HIDE DEF below
    <3>2. below * KeySpace \in Nat
      BY <1>1, <3>1
    <3> QED BY <1>2, <2>1, <3>1, <3>2
  <2> QED BY <2>2, <2>3
<1> QED BY <1>1, <1>4

LEMMA WrittenFits ==
    ASSUME IInv, Working
    PROVE  Written \in 0 .. PARAMETERS_MAX_NUM
<1>1. cur \in 0 .. PARAMETERS_MAX_NUM /\ PARAMETERS_MAX_NUM \in Nat /\ num \in Nat /\ i \in Nat
  BY SizeAssumption DEF IInv, TypeInv
<1>2. CASE stage = "keys"
  <2>1. cur <= 1 /\ 1 <= i /\ (i - 1) * KeySpace <= offset /\ size <= MAX_TRANSACTION_LEN
    BY <1>2 DEF IInv, PairsInv, HeaderInv, Working
  <2>2. i - 1 \in Nat
    BY <1>1, <2>1
  <2>3. (i - 1) + 3 <= PARAMETERS_MAX_NUM
    BY <2>1, <2>2, KeysFit DEF IInv
  <2> QED BY <1>1, <1>2, <2>1, <2>3 DEF Written
<1>3. CASE stage = "amounts"
  BY <1>1, <1>3 DEF IInv, PairsInv, Written
<1> QED BY <1>1, <1>2, <1>3 DEF Written

\* Entries written behind the others, further on in the transaction.
LEMMA WriteOrdered ==
    ASSUME NEW n \in Nat, NEW from \in Nat, NEW at \in Nat, NEW to \in Nat, from <= at, at <= to,
           Ordered(params, n, from, at),
           NEW entries, NEW m \in Nat, Len(entries) = m,
           \A k \in 1 .. m : /\ IsEntry(entries[k])
                             /\ at <= entries[k].at /\ entries[k].at + entries[k].len <= to,
           \A j, k \in 1 .. m : j < k => entries[j].at + entries[j].len <= entries[k].at,
           Write(n, entries)
    PROVE  Ordered(params', n + m, from, to)
<1>1. DOMAIN params' = 0 .. n + m - 1
  BY DEF Write, Ordered
<1>2. \A k \in 0 .. n + m - 1 :
          params'[k] = IF k \in n .. n + m - 1 THEN entries[k - n + 1] ELSE params[k]
  BY DEF Write, Ordered
<1>3. \A k \in n .. n + m - 1 : k - n + 1 \in 1 .. m /\ params'[k] = entries[k - n + 1]
  BY <1>2
<1>4. \A k \in 0 .. n - 1 : params'[k] = params[k]
  BY <1>2
<1>5. \A k \in 0 .. n - 1 : /\ IsEntry(params'[k])
                            /\ from <= params'[k].at /\ params'[k].at + params'[k].len <= at
  BY <1>4 DEF Ordered
<1>6. \A k \in n .. n + m - 1 : /\ IsEntry(params'[k])
                                /\ at <= params'[k].at /\ params'[k].at + params'[k].len <= to
  BY <1>3
<1>7. \A k \in 0 .. n + m - 1 : /\ IsEntry(params'[k])
                                /\ from <= params'[k].at /\ params'[k].at + params'[k].len <= to
  BY <1>5, <1>6 DEF IsEntry
<1>8. ASSUME NEW j \in 0 .. n + m - 1, NEW k \in 0 .. n + m - 1, j < k
      PROVE  params'[j].at + params'[j].len <= params'[k].at
  <2>1. CASE k < n
    BY <1>4, <1>8, <2>1 DEF Ordered
  <2>2. CASE j < n /\ n <= k
    <3>1. j \in 0 .. n - 1 /\ k \in n .. n + m - 1
      BY <2>2
    <3> QED BY <1>5, <1>6, <3>1, SMTT(30) DEF IsEntry
  <2>3. CASE n <= j
    BY <1>3, <1>8, <2>3, SMTT(30)
  <2> QED BY <2>1, <2>2, <2>3
<1> QED BY <1>1, <1>7, <1>8 DEF Ordered

LEMMA WidenOrdered ==
    ASSUME NEW p, NEW n \in Nat, NEW from \in Nat, NEW at \in Nat, NEW to \in Nat, at <= to,
           Ordered(p, n, from, at)
    PROVE  Ordered(p, n, from, to)
<1>1. \A k \in 0 .. n - 1 : /\ IsEntry(p[k])
                            /\ from <= p[k].at /\ p[k].at + p[k].len <= to
  <2>1. ASSUME NEW k \in 0 .. n - 1
        PROVE  IsEntry(p[k]) /\ from <= p[k].at /\ p[k].at + p[k].len <= to
    <3>1. IsEntry(p[k]) /\ from <= p[k].at /\ p[k].at + p[k].len <= at
      BY DEF Ordered
    <3> QED BY <3>1 DEF IsEntry
  <2> QED BY <2>1
<1> QED BY <1>1 DEF Ordered

LEMMA QuotientBounds ==
    ASSUME NEW total \in Nat, NEW price \in Nat \ {0}, NEW limit \in Nat, limit <= total \div price
    PROVE  price * limit <= total
<1> DEFINE quotient == total \div price
<1>1. quotient \in Nat /\ price * quotient <= total
  OBVIOUS
<1> HIDE DEF quotient
<1>2. limit * price <= quotient * price
  BY <1>1, ProductMonotonic DEF quotient
<1>3. limit * price = price * limit /\ quotient * price = price * quotient
  BY <1>1
<1>4. price * limit \in Nat /\ price * quotient \in Nat
  BY <1>1
<1> QED BY <1>1, <1>2, <1>3, <1>4

LEMMA GasNat ==
    ASSUME Buffered, HeaderLength <= size
    PROVE  gas_price \in Nat /\ gas_limit \in Nat
<1>1. /\ GasPriceAt \in Nat /\ U64 \in Nat /\ GasPriceAt + U64 \in Nat
      /\ GasPriceAt + U64 + U64 <= HeaderLength /\ HeaderLength \in Nat /\ size \in Nat
  BY BytesRead, StartNat, SizeAssumption, WordAssumption DEF GasPriceAt, HeaderLength
<1>2. Slice(GasPriceAt, U64) \in Seq(Bytes)
  BY <1>1, SliceBytes
<1> DEFINE next == GasPriceAt + U64
<1>3. next \in Nat /\ next + U64 <= size
  BY <1>1
<1> HIDE DEF next
<1>4. Slice(next, U64) \in Seq(Bytes)
  BY <1>1, <1>3, SliceBytes
<1> QED BY <1>2, <1>4, LittleEndianNat DEF gas_price, gas_limit, next

LEMMA PairsCountNat ==
    ASSUME Buffered, NEW at \in Places, Found(parse_amount(at))
    PROVE  PairsCount(at) \in Nat
<1>1. /\ at \in Nat /\ parse_amount(at) \in Nat /\ at + 1 <= parse_amount(at)
      /\ parse_amount(at) <= size
  BY BytesRead, AmountReads DEF Places, Found
<1> DEFINE n == parse_amount(at) - at
<1>2. n \in Nat /\ 1 <= n /\ at + n <= size
  BY <1>1, BytesRead
<1> HIDE DEF n
<1> DEFINE data == Slice(at, n)
<1>3. data \in Seq(Bytes) /\ data # <<>>
  BY <1>1, <1>2, SliceBytes
<1> HIDE DEF data
<1>4. Tail(data) \in Seq(Bytes) /\ data[1] \in Bytes
  BY <1>3
<1>5. AsUint64(data) \in Nat
  <2>1. LittleEndian(Tail(data)) \in Nat
    BY <1>4, LittleEndianNat
  <2>2. IsPushNumber(data[1]) => data[1] - OPCODE_PUSH_NUMBER \in Nat
    BY DEF IsPushNumber, OPCODE_PUSH_NUMBER
  <2> QED BY <2>1, <2>2 DEF AsUint64
<1> QED BY <1>5 DEF PairsCount, data, n

\* The cursor moves on and the transaction stays.
Onwards ==
    /\ buf' = buf
    /\ offset' \in Positions /\ offset <= offset'
    /\ Working /\ stage # "header" /\ stage' \notin {"header", "payload"}
    /\ Start <= offset'

LEMMA OnwardsKeeps ==
    ASSUME IInv, Onwards
    PROVE  Buffered' /\ HeaderInv' /\ PayloadInv' /\ offset' \in Positions'
<1>1. offset \in Nat /\ offset' \in Nat /\ HeaderLength \in Nat /\ size \in Nat
  BY BytesRead, StartNat DEF IInv, TypeInv, Positions, Onwards
<1>2. size' = size /\ Start' = Start /\ (GasInRange' <=> GasInRange) /\ Positions' = Positions
  BY SameBuffer DEF Onwards
<1>3. size <= MAX_TRANSACTION_LEN /\ HeaderLength <= offset /\ GasInRange
  BY DEF IInv, HeaderInv, Onwards
<1> QED BY <1>1, <1>2, <1>3, SameBuffer DEF IInv, Onwards, HeaderInv, PayloadInv

\* A status ends the parsing where it is.
LEMMA StopInv ==
    ASSUME IInv, Working, NEW status \in Statuses, Stop(status)
    PROVE  IInv'
<1>1. /\ stage' = status
      /\ UNCHANGED <<buf, offset, type, addr, name, params, cur, todo, num, i>>
  BY DEF Stop, call, list, loop
<1>2. Working' = FALSE /\ stage' \in Stages /\ stage' \notin {"header", "payload", "contract",
          "method", "lookup", "params", "keys", "amounts", "transfers"}
  BY <1>1 DEF Working, Stages, Statuses
<1>3. Buffered' /\ Positions' = Positions /\ Start' = Start
  BY <1>1, SameBuffer DEF IInv
<1>4. TypeInv'
  BY <1>1, <1>2, <1>3 DEF IInv, TypeInv
<1>5. \E n \in 0 .. PARAMETERS_MAX_NUM : Ordered(params, n, Start, offset)
  BY WrittenFits DEF IInv, ParamsInv
<1>6. ParamsInv'
  BY <1>1, <1>2, <1>3, <1>5 DEF ParamsInv, Ordered, IsEntry
<1>7. HeaderInv' /\ PayloadInv' /\ TransferInv' /\ PairsInv'
  BY <1>2 DEF HeaderInv, PayloadInv, TransferInv, PairsInv
<1> QED BY <1>3, <1>4, <1>6, <1>7 DEF IInv

LEMMA RefuseInv ==
    ASSUME IInv, Working, Refuse
    PROVE  IInv'
BY StopInv DEF Refuse, Statuses

\* The entries stay, or more of them are written behind the cursor.
LEMMA OrderedStays ==
    ASSUME IInv, Working, buf' = buf, params' = params, Written' = Written,
           offset' \in Nat, offset <= offset'
    PROVE  Ordered(params, Written, Start, offset)'
<1>1. Written \in Nat /\ Start \in Nat /\ offset \in Nat /\ Start' = Start
  BY WrittenFits, StartNat, SizeAssumption, SameBuffer, BytesRead DEF IInv, TypeInv, Positions
<1>2. Ordered(params, Written, Start, offset)
  BY DEF IInv, ParamsInv
<1> DEFINE n == Written
           next == offset'
<1>3. n \in Nat /\ next \in Nat /\ offset <= next /\ Ordered(params, n, Start, offset)
  BY <1>1, <1>2
<1> HIDE DEF n, next
<1>4. Ordered(params, n, Start, next)
  BY <1>1, <1>3, WidenOrdered
<1> QED BY <1>1, <1>4 DEF Ordered, IsEntry, n, next

LEMMA OrderedGrows ==
    ASSUME IInv, Working, stage \notin {"header", "payload"}, buf' = buf,
           offset' \in Nat, offset <= offset',
           NEW n, n = Written, NEW entries, NEW m \in Nat, Len(entries) = m,
           \A k \in 1 .. m : /\ IsEntry(entries[k])
                             /\ offset <= entries[k].at /\ entries[k].at + entries[k].len <= offset',
           \A j, k \in 1 .. m : j < k => entries[j].at + entries[j].len <= entries[k].at,
           Write(n, entries), Written' = n + m
    PROVE  Ordered(params, Written, Start, offset)'
<1>1. n \in Nat /\ Start \in Nat /\ offset \in Nat /\ Start' = Start /\ Start <= offset
  BY WrittenFits, StartNat, SizeAssumption, SameBuffer, BytesRead
  DEF IInv, TypeInv, Positions, PayloadInv
<1>2. Ordered(params, n, Start, offset)
  BY DEF IInv, ParamsInv
<1> DEFINE next == offset'
<1>3. next \in Nat /\ offset <= next
  BY <1>1
<1>4. \A k \in 1 .. m : /\ IsEntry(entries[k])
                        /\ offset <= entries[k].at /\ entries[k].at + entries[k].len <= next
  OBVIOUS
<1> HIDE DEF next
<1>5. Ordered(params', n + m, Start, next)
  BY <1>1, <1>2, <1>3, <1>4, WriteOrdered
<1> QED BY <1>1, <1>5 DEF Ordered, IsEntry, next
-----------------------------------------------------------------------------
(* Header to method.                                                       *)

LEMMA InitInv == Init => IInv
<1> SUFFICES ASSUME Init PROVE IInv
  OBVIOUS
<1>1. Buffered /\ size \in Nat
  BY BufferAssumption, BytesRead DEF Init, Buffered
<1>2. TypeInv
  BY <1>1, SizeAssumption DEF Init, TypeInv, Stages, Positions, Bytes
<1>3. Written = 0 /\ Ordered(params, 0, Start, offset) /\ Working
  BY DEF Init, Written, Ordered, Working, Statuses
<1>4. ParamsInv
  BY <1>3 DEF Init, ParamsInv
<1>5. HeaderInv /\ PayloadInv /\ TransferInv /\ PairsInv
  BY DEF Init, HeaderInv, PayloadInv, TransferInv, PairsInv
<1> QED BY <1>1, <1>2, <1>4, <1>5 DEF IInv

LEMMA HeaderStep ==
    ASSUME IInv, Header
    PROVE  IInv'
<1>1. Working /\ stage = "header"
  BY DEF Header, Working, Statuses
<1>2. CASE Stop("PARSING_LENGTH_WRONG") \/ Refuse
  BY <1>1, <1>2, StopInv, RefuseInv DEF Statuses
<1>3. CASE /\ size <= MAX_TRANSACTION_LEN /\ buffer_can_read(0, HeaderLength) /\ GasInRange
           /\ Skip("payload", HeaderLength)
  <2>1. /\ buf' = buf /\ stage' = "payload" /\ offset' = HeaderLength
        /\ UNCHANGED <<type, addr, name, params, cur, todo, num, i>>
    BY <1>3 DEF Skip, GoTo, call, list, loop
  <2>2. HeaderLength \in Nat /\ size \in Nat /\ HeaderLength <= size
    BY <1>3, StartNat, BytesRead DEF IInv, buffer_can_read
  <2>3. size' = size /\ Positions' = Positions /\ Buffered' /\ (GasInRange' <=> GasInRange)
    BY <2>1, SameBuffer DEF IInv
  <2>4. TypeInv'
    BY <2>1, <2>2, <2>3 DEF IInv, TypeInv, Stages, Positions
  <2>5. Working' /\ Written' = Written /\ offset <= offset' /\ offset' \in Nat
    <3>1. offset = 0
      BY <1>1 DEF IInv, PayloadInv
    <3> QED BY <1>1, <2>1, <2>2, <3>1 DEF Working, Statuses, Written
  <2>6. Ordered(params, Written, Start, offset)'
    BY <1>1, <2>1, <2>5, OrderedStays
  <2>7. ParamsInv'
    BY <1>1, <2>1, <2>5, <2>6 DEF IInv, ParamsInv
  <2>8. HeaderInv' /\ PayloadInv' /\ TransferInv' /\ PairsInv'
    BY <1>3, <2>1, <2>2, <2>3 DEF HeaderInv, PayloadInv, TransferInv, PairsInv
  <2> QED BY <2>3, <2>4, <2>7, <2>8 DEF IInv
<1> QED BY <1>2, <1>3 DEF Header

\* A step to one of the stages before the parameters.
LEMMA EarlyStep ==
    ASSUME IInv, Onwards, stage \in {"payload", "contract", "method"},
           stage' \in {"contract", "method", "lookup"},
           UNCHANGED <<params, cur, todo, num, i>>,
           type' \in ContractTypes \cup {"UNKNOWN_CONTRACT"},
           addr' \in Positions, name'.at \in Positions, name'.len \in Bytes, TransferInv'
    PROVE  IInv'
<1>1. Buffered' /\ HeaderInv' /\ PayloadInv' /\ offset' \in Positions' /\ Positions' = Positions
  BY OnwardsKeeps, SameBuffer DEF Onwards
<1>2. TypeInv'
  BY <1>1 DEF IInv, TypeInv, Stages
<1>3. Working' /\ Written' = Written /\ offset' \in Nat /\ offset <= offset' /\ buf' = buf
  BY <1>1, BytesRead DEF IInv, Onwards, Working, Statuses, Written, Positions
<1>4. Ordered(params, Written, Start, offset)'
  BY <1>3, OrderedStays DEF Onwards
<1>5. ParamsInv' /\ PairsInv'
  BY <1>3, <1>4 DEF IInv, ParamsInv, PairsInv
<1> QED BY <1>1, <1>2, <1>5 DEF IInv

LEMMA PayloadSizeStep ==
    ASSUME IInv, PayloadSize
    PROVE  IInv'
<1>1. Working /\ stage = "payload" /\ offset = HeaderLength
  BY DEF PayloadSize, Working, Statuses, IInv, PayloadInv
<1>2. CASE Refuse \/ Stop("PARSING_LENGTH_WRONG")
  BY <1>1, <1>2, StopInv, RefuseInv DEF Statuses
<1>3. CASE buffer_can_read(offset + 1, Width(Byte(offset))) /\ Skip("contract", PayloadAt(offset))
  <2>1. /\ buf' = buf /\ stage' = "contract" /\ offset' = Start
        /\ UNCHANGED <<type, addr, name, params, cur, todo, num, i>>
    BY <1>1, <1>3 DEF Skip, GoTo, call, list, loop, Start
  <2>2. Start \in Nat /\ offset \in Nat /\ offset <= Start /\ Start <= size /\ size \in Nat
    <3>1. HeaderLength \in Nat /\ Start \in Nat /\ size \in Nat
      BY StartNat, BytesRead DEF IInv
    <3>2. Width(Byte(HeaderLength)) \in Nat
      <4>1. U16 \in Nat /\ U32 \in Nat /\ U64 \in Nat
        BY SizeAssumption, WordAssumption
      <4> QED BY <4>1 DEF Width
    <3>3. Start <= size
      BY <1>1, <1>3 DEF buffer_can_read, Start, PayloadAt
    <3> QED BY <1>1, <3>1, <3>2, <3>3 DEF Start, PayloadAt
  <2>3. Onwards
    BY <1>1, <2>1, <2>2 DEF Onwards, Positions
  <2>4. TransferInv'
    BY <2>1 DEF TransferInv
  <2> QED BY <1>1, <2>1, <2>3, <2>4, EarlyStep DEF IInv, TypeInv
<1> QED BY <1>2, <1>3 DEF PayloadSize

LEMMA ConstantPartLengths ==
    /\ NATIVE_CONTRACT_CONSTANT_LENGTH \in Nat
    /\ NATIVE_CONTRACT_CONSTANT_LENGTH =
           1 + ADDRESS_SCRIPT_HASH_LEN + 2 + Len(NATIVE_INVOKE) + 1
    /\ NEOVM_CONTRACT_CONSTANT_LENGTH \in Nat
    /\ NEOVM_CONTRACT_CONSTANT_LENGTH = 1 + ADDRESS_SCRIPT_HASH_LEN + 1
    /\ ADDRESS_SCRIPT_HASH_LEN \in Nat /\ Len(NATIVE_INVOKE) \in Nat
<1>1. ADDRESS_SCRIPT_HASH_LEN \in Nat /\ Len(NATIVE_INVOKE) \in Nat
  BY SizeAssumption
<1> QED BY <1>1, ConstantLengths
        DEF NATIVE_CONTRACT_CONSTANT_LENGTH, NEOVM_CONTRACT_CONSTANT_LENGTH

\* A native call ends with a zero.
LEMMA NativeCallEnds ==
    ASSUME Buffered, offset \in Positions, NativeCall
    PROVE  /\ offset + NATIVE_CONTRACT_CONSTANT_LENGTH <= size
           /\ Byte(size - 1) = 0
<1> DEFINE n       == Len(NATIVE_INVOKE)
           at      == size - NATIVE_CONTRACT_CONSTANT_LENGTH
           behind  == parse_address(at, TRUE)
           syscall == parse_check_constant(behind, OPCODE_SYSCALL)
           invoke  == parse_check_constant(syscall, NATIVE_INVOKE)
           end     == parse_check_constant(invoke, OPCODE_END)
<1>1. size \in Nat /\ n \in Nat /\ offset \in Nat /\ Len(NATIVE_INVOKE) = n
  BY BytesRead, ConstantPartLengths DEF Positions
<1>2. offset + NATIVE_CONTRACT_CONSTANT_LENGTH <= size /\ Found(end)
  BY DEF NativeCall, buffer_can_read
<1>3. at \in Places
  BY <1>1, <1>2, ConstantPartLengths DEF Places
<1>4. behind \in Places /\ (Found(behind) => behind = at + 1 + ADDRESS_SCRIPT_HASH_LEN)
  BY <1>3, AddressReads
<1> HIDE DEF behind
<1>5. syscall \in Places /\ (Found(syscall) => syscall = behind + 2)
  <2>1. Len(OPCODE_SYSCALL) = 2 /\ 2 \in Nat
    BY ConstantLengths
  <2> QED BY <1>4, <2>1, ConstantReads
<1> HIDE DEF syscall, n
<1>6. invoke \in Places /\ (Found(invoke) => invoke = syscall + n)
  BY <1>1, <1>5, ConstantReads
<1> HIDE DEF invoke
<1>7. end \in Places /\ (Found(end) => end = invoke + 1 /\ Slice(invoke, 1) = OPCODE_END)
  BY <1>6, ConstantReads, ConstantLengths
<1> DEFINE constant == NATIVE_CONTRACT_CONSTANT_LENGTH
           hash     == ADDRESS_SCRIPT_HASH_LEN
<1>8. constant = 1 + hash + 2 + n + 1 /\ hash \in Nat /\ at = size - constant
  BY <1>1, ConstantPartLengths
<1> HIDE DEF end, constant, hash, at
<1>9. invoke = size - 1 /\ invoke \in Nat /\ invoke + 1 <= size
  BY <1>1, <1>2, <1>3, <1>4, <1>5, <1>6, <1>7, <1>8 DEF Places, Found, hash
<1>10. Slice(invoke, 1)[1] = Byte(invoke)
  <2>1. SubSeq(buf, invoke + 1, invoke + 1)[1] = buf[invoke + 1]
    BY <1>1, <1>9 DEF Buffered, size
  <2> QED BY <2>1 DEF Slice, Byte
<1> QED BY <1>2, <1>7, <1>9, <1>10 DEF OPCODE_END

LEMMA ContractStep ==
    ASSUME IInv, Contract
    PROVE  IInv'
<1>1. Working /\ stage = "contract" /\ Buffered
  BY DEF Contract, Working, Statuses, IInv
<1>2. size \in Nat /\ offset \in Nat /\ offset <= size /\ Start <= offset /\ Start \in Nat
  BY <1>1, StartNat, BytesRead DEF IInv, TypeInv, Positions, PayloadInv
<1>3. ASSUME NEW t \in ContractTypes, NEW at \in Positions, NEW next \in Positions, offset <= next,
             t = "NATIVE_CONTRACT" => Byte(size - 1) = 0, SetContract(t, at, next)
      PROVE  IInv'
  <2>1. /\ buf' = buf /\ stage' = "method" /\ offset' = next /\ type' = t /\ addr' = at
        /\ UNCHANGED <<name, params, cur, todo, num, i>>
    BY <1>3 DEF SetContract, GoTo, list, loop
  <2>2. Onwards
    BY <1>1, <1>2, <1>3, <2>1 DEF Onwards, Positions
  <2>3. TransferInv'
    BY <1>3, <2>1, SameBuffer DEF TransferInv, Native
  <2> QED BY <1>1, <1>3, <2>1, <2>2, <2>3, EarlyStep DEF IInv, TypeInv
<1>4. CASE /\ NativeCall
           /\ SetContract("NATIVE_CONTRACT", size - NATIVE_CONTRACT_CONSTANT_LENGTH + 1, offset)
  <2>1. offset + NATIVE_CONTRACT_CONSTANT_LENGTH <= size /\ Byte(size - 1) = 0
    BY <1>1, <1>4, NativeCallEnds DEF IInv, TypeInv
  <2> DEFINE at == size - NATIVE_CONTRACT_CONSTANT_LENGTH + 1
  <2>2. at \in Positions /\ offset \in Positions /\ offset <= offset
    BY <1>2, <2>1, ConstantPartLengths DEF Positions
  <2>3. SetContract("NATIVE_CONTRACT", at, offset)
    BY <1>4
  <2> HIDE DEF at
  <2> QED BY <1>3, <2>1, <2>2, <2>3 DEF ContractTypes
<1>5. CASE /\ NeovmCall
           /\ SetContract("NEOVM_CONTRACT", size - NEOVM_CONTRACT_CONSTANT_LENGTH + 1, offset)
  <2>1. offset + NEOVM_CONTRACT_CONSTANT_LENGTH <= size
    BY <1>5 DEF NeovmCall, buffer_can_read
  <2> DEFINE at == size - NEOVM_CONTRACT_CONSTANT_LENGTH + 1
  <2>2. at \in Positions /\ offset \in Positions /\ offset <= offset
    BY <1>2, <2>1, ConstantPartLengths DEF Positions
  <2>3. SetContract("NEOVM_CONTRACT", at, offset)
    BY <1>5
  <2> HIDE DEF at
  <2> QED BY <1>3, <2>2, <2>3 DEF ContractTypes
<1>6. CASE WasmCall /\ SetContract("WASMVM_CONTRACT", offset, offset + ADDRESS_SCRIPT_HASH_LEN)
  <2> DEFINE next   == offset + ADDRESS_SCRIPT_HASH_LEN
             behind == parse_address(offset, FALSE)
  <2>1. offset \in Places
    BY <1>2 DEF Places
  <2>2. Found(behind)
    BY <1>6 DEF WasmCall
  <2>3. behind = offset + 0 + ADDRESS_SCRIPT_HASH_LEN
    BY <1>1, <2>1, <2>2, AddressReads
  <2> HIDE DEF behind
  <2>4. next <= size
    BY <1>2, <2>2, <2>3, ConstantPartLengths DEF Found
  <2>5. next \in Positions /\ offset \in Positions /\ offset <= next
    BY <1>2, <2>4, ConstantPartLengths DEF Positions
  <2>6. SetContract("WASMVM_CONTRACT", offset, next)
    BY <1>6
  <2> HIDE DEF next
  <2> QED BY <1>3, <2>5, <2>6 DEF ContractTypes
<1>7. CASE Refuse
  BY <1>1, <1>7, RefuseInv
<1> QED BY <1>4, <1>5, <1>6, <1>7 DEF Contract

LEMMA MaxOfBounded ==
    ASSUME NEW S \in SUBSET Nat, S # {}, NEW bound \in Nat, \A k \in S : k <= bound
    PROVE  Max(S) \in S
<1>1. \E n \in S : \A m \in S : n >= m
  BY LargestElement
<1> QED BY <1>1 DEF Max

\* The search for the mark stays in the transaction.
LEMMA MarkReads ==
    ASSUME Buffered, offset \in Positions, sEnd \in Int, sEnd + 2 <= size
    PROVE  MethodAt \in Places
<1>1. size \in Nat /\ offset \in Nat
  BY BytesRead DEF Positions
<1>2. CASE Marks = {}
  BY <1>1, <1>2 DEF MethodAt, Places
<1>3. CASE Marks # {}
  <2> DEFINE mark == Max(Marks)
  <2>1. Marks \in SUBSET Nat /\ \A k \in Marks : k <= size
    BY <1>1 DEF Marks, SearchFrom
  <2>2. mark \in Marks
    BY <1>1, <1>3, <2>1, MaxOfBounded
  <2>3. MethodAt = BehindMark(mark)
    BY <1>3 DEF MethodAt
  <2> HIDE DEF mark
  <2>4. mark \in Nat /\ mark \in Places /\ (IsParamsEnd(mark) \/ IsPack(mark))
    BY <1>1, <2>1, <2>2 DEF Marks, Places
  <2>5. CASE IsParamsEnd(mark)
    <3>1. Len(OPCODE_PARAM_ST_END) = 4 /\ 4 \in Nat
      BY ConstantLengths
    <3>2. mark + 4 \in Places
      BY <2>4, <2>5, <3>1, ConstantReads DEF IsParamsEnd
    <3> QED BY <2>3, <2>5, <3>1, <3>2 DEF BehindMark
  <2>6. CASE ~IsParamsEnd(mark)
    <3>1. Len(OPCODE_PACK) = 1 /\ 1 \in Nat
      BY ConstantLengths
    <3>2. mark + 1 \in Places
      BY <2>4, <2>6, <3>1, ConstantReads DEF IsPack
    <3> QED BY <2>3, <2>6, <3>1, <3>2 DEF BehindMark
  <2> QED BY <2>5, <2>6
<1> QED BY <1>2, <1>3

\* A method's name is taken from a position at which there is one.
LEMMA SetMethodInv ==
    ASSUME IInv, stage = "method", NEW at \in Places, Found(parse_method_name(at)),
           NEW next \in Positions, offset <= next, Native => next < size, SetMethod(at, next)
    PROVE  IInv'
<1>1. /\ buf' = buf /\ stage' = "lookup" /\ offset' = next /\ name' = Name(at)
      /\ UNCHANGED <<type, addr, params, cur, todo, num, i>>
  BY DEF SetMethod, GoTo, list, loop
<1>2. at \in Nat /\ at < size /\ size \in Nat /\ Byte(at) \in Bytes
  <2>1. at < size
    BY NameReads DEF IInv
  <2> QED BY <2>1, BytesRead DEF IInv, Places
<1>3. name'.at \in Positions /\ name'.len \in Bytes
  BY <1>1, <1>2 DEF Name, Positions
<1>4. Start <= offset /\ Start \in Nat /\ offset \in Nat /\ next \in Nat
  BY <1>2, StartNat DEF IInv, PayloadInv, Working, Statuses, TypeInv, Positions
<1>5. Onwards
  BY <1>1, <1>4 DEF Onwards, Working, Statuses
<1>6. TransferInv'
  BY <1>1, SameBuffer DEF IInv, TransferInv, Native
<1> QED BY <1>1, <1>3, <1>5, <1>6, EarlyStep DEF IInv, TypeInv

LEMMA WasmMethodStep ==
    ASSUME IInv, WasmMethod
    PROVE  IInv'
<1>1. Working /\ stage = "method" /\ ~Native /\ Buffered
  BY DEF WasmMethod, Working, Statuses, IInv, Wasm, Native
<1>2. CASE Refuse
  BY <1>1, <1>2, RefuseInv
<1> DEFINE at   == offset + 1
           next == parse_method_name(at)
<1>3. CASE buffer_can_read(offset, 1) /\ Found(next) /\ SetMethod(at, next)
  <2>1. at \in Places /\ at \in Nat /\ offset \in Nat /\ offset <= at /\ size \in Nat
    BY <1>1, <1>3, BytesRead DEF IInv, TypeInv, Positions, Places, buffer_can_read
  <2> HIDE DEF at
  <2>2. next \in Places /\ next = at + 1 + Byte(at) /\ Byte(at) \in 1 .. 255
    BY <1>1, <1>3, <2>1, NameReads
  <2>3. next \in Positions /\ at <= next /\ next \in Nat
    BY <1>3, <2>1, <2>2 DEF Places, Positions, Found
  <2>4. Found(parse_method_name(at)) /\ SetMethod(at, next)
    BY <1>3
  <2> HIDE DEF next
  <2> QED BY <1>1, <2>1, <2>3, <2>4, SetMethodInv
<1> QED BY <1>2, <1>3 DEF WasmMethod

LEMMA MethodStep ==
    ASSUME IInv, Method
    PROVE  IInv'
<1>1. Working /\ stage = "method" /\ Buffered /\ offset \in Positions
  BY DEF Method, Working, Statuses, IInv, TypeInv
<1>2. CASE Refuse
  BY <1>1, <1>2, RefuseInv
<1>3. CASE sEnd >= offset /\ Found(parse_method_name(MethodAt)) /\ SetMethod(MethodAt, offset)
  <2>1. size \in Nat /\ offset \in Nat
    BY <1>1, BytesRead DEF Positions
  <2>2. ConstantLength \in Nat /\ 2 <= ConstantLength
    BY ConstantPartLengths DEF ConstantLength
  <2>3. sEnd \in Int /\ sEnd + 2 <= size /\ offset < size
    BY <1>3, <2>1, <2>2 DEF sEnd
  <2>4. MethodAt \in Places
    BY <1>1, <2>3, MarkReads
  <2> QED BY <1>1, <1>3, <2>1, <2>3, <2>4, SetMethodInv
<1> QED BY <1>2, <1>3 DEF Method

\* The known contract and method are one, and belong together.
LEMMA TheTable ==
    ASSUME KnownMethod # {}
    PROVE  TheContract \in Contracts /\ TheMethod \in Methods(TheContract)
<1>1. PICK m : m \in KnownMethod
  OBVIOUS
<1>2. PICK c \in KnownContract : m \in Methods(c)
  BY <1>1 DEF KnownMethod
<1>3. KnownContract \subseteq Contracts
  BY DEF KnownContract
<1>4. KnownMethod \subseteq KnownNames
  BY <1>3 DEF KnownMethod, KnownNames
<1>5. TheContract \in Contracts /\ TheContract \in KnownContract
  BY <1>2, <1>3 DEF TheContract
<1>6. TheMethod \in KnownMethod
  BY <1>1, <1>4 DEF TheMethod
<1>7. PICK d \in KnownContract : TheMethod \in Methods(d)
  BY <1>6 DEF KnownMethod
<1>8. \A x, y \in KnownContract : x = y
  BY TableAssumption DEF KnownContract
<1> QED BY <1>5, <1>7, <1>8

-----------------------------------------------------------------------------
(* The parameters.                                                         *)

LEMMA StartTransfersStep ==
    ASSUME IInv, StartTransfers
    PROVE  IInv'
<1>1. /\ stage = "lookup" /\ Working /\ Native /\ Start <= offset
      /\ buf' = buf /\ stage' = "transfers" /\ offset' = offset /\ i' = 0
      /\ UNCHANGED <<type, addr, name, params, cur, todo, num>>
  BY DEF StartTransfers, GoTo, call, list, IsTransferList, Working, Statuses, IInv, PayloadInv
<1>2. size \in Nat /\ offset \in Nat /\ offset \in Positions
  BY BytesRead DEF IInv, TypeInv, Positions
<1>3. Onwards
  BY <1>1, <1>2 DEF Onwards
<1>4. Buffered' /\ HeaderInv' /\ PayloadInv' /\ Positions' = Positions
  BY <1>1, <1>3, OnwardsKeeps, SameBuffer
<1>5. TypeInv'
  BY <1>1, <1>4 DEF IInv, TypeInv, Stages
<1>6. TransferInv' /\ PairsInv'
  BY <1>1, SameBuffer DEF IInv, TransferInv, PairsInv
<1>7. Working' /\ Written' = Written
  BY <1>1 DEF Working, Statuses, Written
<1>8. Ordered(params, Written, Start, offset)'
  BY <1>1, <1>2, <1>7, OrderedStays
<1>9. ParamsInv'
  BY <1>1, <1>7, <1>8 DEF ParamsInv
<1> QED BY <1>4, <1>5, <1>6, <1>9 DEF IInv

LEMMA StartParamsStep ==
    ASSUME IInv, StartParams
    PROVE  IInv'
<1>1. stage = "lookup" /\ Working /\ Start <= offset /\ cur = 0 /\ Buffered
  BY DEF StartParams, Working, Statuses, IInv, PayloadInv, ParamsInv
<1> DEFINE at == IF Native THEN parse_check_constant(offset, OPCODE_ST_BEGIN) ELSE offset
<1>2. CASE Refuse \/ Stop("PARSING_TX_NOT_DEFINED")
  BY <1>1, <1>2, StopInv, RefuseInv DEF Statuses
<1>3. CASE /\ Found(at) /\ KnownMethod # {} /\ todo' = Signature(TheContract, TheMethod)
           /\ GoTo("params", at) /\ UNCHANGED <<buf, call, params, cur, num, i>>
  <2>1. size \in Nat /\ offset \in Nat /\ offset \in Places /\ Start \in Nat
    BY <1>1, BytesRead, StartNat DEF IInv, TypeInv, Positions, Places
  <2>2. at \in Places /\ offset <= at
    <3>1. Len(OPCODE_ST_BEGIN) = 3 /\ 3 \in Nat
      BY ConstantLengths
    <3>2. CASE Native
      <4> DEFINE begun == parse_check_constant(offset, OPCODE_ST_BEGIN)
      <4>1. at = begun /\ Found(begun)
        BY <1>3, <3>2
      <4>2. begun \in Places /\ (Found(begun) => begun = offset + 3)
        BY <1>1, <2>1, <3>1, ConstantReads
      <4> HIDE DEF begun, at
      <4> QED BY <2>1, <4>1, <4>2
    <3>3. CASE ~Native
      BY <2>1, <3>3
    <3> QED BY <3>2, <3>3
  <2> HIDE DEF at
  <2>3. at \in Positions /\ at \in Nat
    BY <1>3, <2>1, <2>2 DEF Places, Positions, Found
  <2>4. /\ buf' = buf /\ stage' = "params" /\ offset' = at
        /\ UNCHANGED <<type, addr, name, params, cur, num, i>>
    BY <1>3 DEF GoTo, call
  <2>5. Onwards
    BY <1>1, <2>1, <2>2, <2>3, <2>4 DEF Onwards
  <2>6. Buffered' /\ HeaderInv' /\ PayloadInv' /\ Positions' = Positions
    BY <2>4, <2>5, OnwardsKeeps, SameBuffer
  <2>7. todo' \in Seq(ParameterTypes) /\ CompositeLast(todo', 0)
    BY <1>3, TheTable, SignaturesGood DEF GoodSignature
  <2>8. TypeInv'
    BY <2>3, <2>4, <2>6, <2>7 DEF IInv, TypeInv, Stages
  <2>9. TransferInv' /\ PairsInv'
    BY <2>4 DEF TransferInv, PairsInv
  <2>10. Working' /\ Written' = Written
    BY <1>1, <2>4 DEF Working, Statuses, Written
  <2>11. Ordered(params, Written, Start, offset)'
    BY <1>1, <2>2, <2>3, <2>4, <2>10, OrderedStays
  <2>12. ParamsInv'
    BY <1>1, <2>4, <2>7, <2>10, <2>11 DEF ParamsInv, CompositeLast
  <2> QED BY <2>6, <2>8, <2>9, <2>12 DEF IInv
<1> QED BY <1>2, <1>3 DEF StartParams

\* A parameter of one entry lies between the positions it is parsed from and to.
LEMMA SimpleReads ==
    ASSUME Buffered, NEW at \in Places, NEW kind \in SimpleKinds
    PROVE  /\ SimpleEnd(kind, at) \in Places
           /\ Found(SimpleEnd(kind, at)) =>
                  /\ IsEntry(SimpleEntry(kind, at))
                  /\ at <= SimpleEntry(kind, at).at
                  /\ SimpleEntry(kind, at).at + SimpleEntry(kind, at).len <= SimpleEnd(kind, at)
<1>1. at \in Nat /\ size \in Nat /\ ADDRESS_SCRIPT_HASH_LEN \in Nat /\ COMPRESSED_KEY_LEN \in Nat
  BY BytesRead, SizeAssumption DEF Places
<1> DEFINE end == SimpleEnd(kind, at)
           entry == SimpleEntry(kind, at)
<1>2. CASE kind = "ADDR"
  <2>1. end = parse_address(at, ~Wasm)
        /\ entry = Entry("ADDR", IF Wasm THEN at ELSE at + 1, ADDRESS_SCRIPT_HASH_LEN)
    BY <1>2 DEF SimpleEnd, SimpleEntry, AddressEntry
  <2>2. end \in Places
        /\ (Found(end) => end = at + (IF ~Wasm THEN 1 ELSE 0) + ADDRESS_SCRIPT_HASH_LEN)
    BY <2>1, AddressReads DEF Wasm
  <2> HIDE DEF end, entry
  <2>3. CASE Wasm
    BY <1>1, <2>1, <2>2, <2>3 DEF Entry, IsEntry, PARAM_KINDS, end, entry
  <2>4. CASE ~Wasm
    BY <1>1, <2>1, <2>2, <2>4 DEF Entry, IsEntry, PARAM_KINDS, end, entry
  <2> QED BY <2>3, <2>4
<1>3. CASE kind = "AMOUNT"
  <2>1. end = parse_amount(at) /\ entry = Entry("AMOUNT", at, parse_amount(at) - at)
    BY <1>3 DEF SimpleEnd, SimpleEntry, AmountEntry
  <2>2. end \in Places /\ end \in Nat /\ (Found(end) => at + 1 <= end)
    BY <1>1, <2>1, AmountReads DEF Places
  <2> QED BY <1>1, <2>1, <2>2 DEF Entry, IsEntry, PARAM_KINDS
<1>4. CASE kind = "UINT128"
  <2>1. end = parse_uint128(at) /\ entry = Entry("UINT128", at, 2 * U64) /\ 2 * U64 \in Nat
    BY <1>4, WordAssumption DEF SimpleEnd, SimpleEntry
  <2>2. end \in Places /\ (Found(end) => end = at + 2 * U64)
    BY <2>1, WideReads
  <2> QED BY <1>1, <2>1, <2>2 DEF Entry, IsEntry, PARAM_KINDS
<1>5. CASE kind = "PUBKEY"
  <2>1. end = parse_pk(at) /\ entry = Entry("PUBKEY", at + 1, 2 * COMPRESSED_KEY_LEN)
    BY <1>5 DEF SimpleEnd, SimpleEntry, KeyEntry
  <2>2. end \in Places /\ (Found(end) => end = at + 1 + 2 * COMPRESSED_KEY_LEN)
    BY <2>1, KeyReads
  <2> QED BY <1>1, <2>1, <2>2 DEF Entry, IsEntry, PARAM_KINDS
<1> QED BY <1>2, <1>3, <1>4, <1>5 DEF SimpleKinds

\* The rest of a signature.
LEMMA RestGood ==
    ASSUME todo \in Seq(ParameterTypes), todo # <<>>, CompositeLast(todo, cur), cur \in Nat
    PROVE  /\ Tail(todo) \in Seq(ParameterTypes)
           /\ CompositeLast(Tail(todo), cur) /\ CompositeLast(Tail(todo), cur + 1)
           /\ Head(todo) \in {"PK_AMOUNT_PAIRS", "TRANSFER_STATE"} =>
                  Len(todo) = 1 /\ \A next \in Nat : CompositeLast(Tail(todo), next)
           /\ Head(todo) = "PK_AMOUNT_PAIRS" => cur <= 1
<1> DEFINE rest == Tail(todo)
<1>1. Len(todo) \in Nat /\ 1 <= Len(todo) /\ Head(todo) = todo[1]
  OBVIOUS
<1>2. rest \in Seq(ParameterTypes) /\ Len(rest) = Len(todo) - 1
  OBVIOUS
<1>3. \A k \in 1 .. Len(rest) : rest[k] = todo[k + 1] /\ k + 1 \in 1 .. Len(todo)
  OBVIOUS
<1> HIDE DEF rest
<1>4. CompositeLast(rest, cur) /\ CompositeLast(rest, cur + 1)
  BY <1>1, <1>2, <1>3 DEF CompositeLast
<1>5. ASSUME Head(todo) \in {"PK_AMOUNT_PAIRS", "TRANSFER_STATE"}
      PROVE  Len(todo) = 1 /\ \A next \in Nat : CompositeLast(rest, next)
  BY <1>1, <1>2, <1>5 DEF CompositeLast
<1>6. ASSUME Head(todo) = "PK_AMOUNT_PAIRS"
      PROVE  cur <= 1
  BY <1>1, <1>6 DEF CompositeLast
<1> QED BY <1>2, <1>4, <1>5, <1>6 DEF rest

\* A step to the next parameter.
LEMMA ParamStep ==
    ASSUME IInv, Onwards, stage' = "params", UNCHANGED <<type, addr, name>>,
           cur' \in 0 .. PARAMETERS_MAX_NUM, num' \in Nat, i' \in Nat,
           todo' \in Seq(ParameterTypes), CompositeLast(todo', cur'),
           Ordered(params, Written, Start, offset)'
    PROVE  IInv'
<1>1. Buffered' /\ HeaderInv' /\ PayloadInv' /\ offset' \in Positions' /\ Positions' = Positions
  BY OnwardsKeeps, SameBuffer DEF Onwards
<1>2. TypeInv'
  BY <1>1 DEF IInv, TypeInv, Stages
<1>3. TransferInv' /\ PairsInv' /\ Working'
  BY DEF TransferInv, PairsInv, Working, Statuses
<1>4. ParamsInv'
  BY <1>3 DEF ParamsInv, CompositeLast
<1> QED BY <1>1, <1>2, <1>3, <1>4 DEF IInv

\* What holds while a parameter of the signature is parsed.
LEMMA AtParam ==
    ASSUME IInv, NEW kinds, NextIs(kinds)
    PROVE  /\ Working /\ stage = "params" /\ Buffered /\ Written = cur
           /\ size \in Nat /\ offset \in Nat /\ offset \in Places /\ Start \in Nat /\ Start <= offset
           /\ cur \in Nat /\ PARAMETERS_MAX_NUM \in Nat
           /\ todo \in Seq(ParameterTypes) /\ todo # <<>> /\ CompositeLast(todo, cur)
<1>1. stage = "params" /\ todo # <<>> /\ Buffered /\ Working
  BY DEF NextIs, IInv, Working, Statuses
<1>2. size \in Nat /\ Start \in Nat /\ PARAMETERS_MAX_NUM \in Nat
  BY <1>1, BytesRead, StartNat, SizeAssumption
<1> QED BY <1>1, <1>2 DEF IInv, TypeInv, PayloadInv, ParamsInv, Positions, Places, Written

\* A position that is found is one.
LEMMA FoundPosition ==
    ASSUME Buffered, NEW at \in Places, Found(at)
    PROVE  at \in Positions /\ at \in Nat
BY BytesRead DEF Places, Positions, Found

LEMMA SimpleParamStep ==
    ASSUME IInv, SimpleParam
    PROVE  IInv'
<1> DEFINE kind  == Head(todo)
           end   == SimpleEnd(kind, offset)
           next  == Closed(end)
           entry == SimpleEntry(kind, offset)
<1>1. NextIs(SimpleKinds) /\ kind \in SimpleKinds
  BY DEF SimpleParam, NextIs
<1>2. CASE Refuse
  BY <1>1, <1>2, RefuseInv, AtParam
<1>3. CASE /\ HasRoom /\ Found(next)
           /\ Write(cur, <<entry>>)
           /\ cur' = cur + 1 /\ todo' = Tail(todo)
           /\ GoTo("params", next) /\ UNCHANGED <<buf, call, num, i>>
  <2>1. Buffered /\ Working /\ offset \in Places /\ offset \in Nat /\ cur \in Nat /\ Written = cur
    BY <1>1, AtParam
  <2>2. /\ end \in Places
        /\ Found(end) => /\ IsEntry(entry) /\ offset <= entry.at
                         /\ entry.at + entry.len <= end
    BY <1>1, <2>1, SimpleReads
  <2>3. Found(next) /\ Write(cur, <<entry>>)
    BY <1>3
  <2>4. /\ buf' = buf /\ stage' = "params" /\ offset' = next /\ cur' = cur + 1
        /\ todo' = Tail(todo) /\ UNCHANGED <<type, addr, name, num, i>> /\ HasRoom
    BY <1>3 DEF GoTo, call
  <2> HIDE DEF kind, end, entry
  <2>5. next \in Places /\ end <= next
    BY <2>1, <2>2, <2>3, EndReads
  <2> HIDE DEF next
  <2>6. next \in Positions /\ next \in Nat /\ end \in Nat /\ Found(end) /\ entry.at \in Nat
        /\ entry.len \in Nat /\ IsEntry(entry) /\ offset <= entry.at
        /\ entry.at + entry.len <= next /\ offset <= next
    <3>1. next \in Positions /\ next \in Nat /\ end \in Nat
      BY <2>1, <2>2, <2>3, <2>5, FoundPosition DEF Places
    <3>2. Found(end)
      BY <2>1, <2>3, <2>5, <3>1, BytesRead DEF Found
    <3> QED BY <2>1, <2>2, <2>5, <3>1, <3>2 DEF IsEntry
  <2>7. Onwards
    BY <1>1, <2>1, <2>4, <2>6, AtParam DEF Onwards
  <2>8. Written' = cur + 1
    BY <2>4 DEF Written
  <2> DEFINE entries == <<entry>>
  <2>9. /\ Len(entries) = 1 /\ Write(cur, entries)
        /\ \A k \in 1 .. 1 : /\ IsEntry(entries[k]) /\ offset <= entries[k].at
                             /\ entries[k].at + entries[k].len <= offset'
        /\ \A j, k \in 1 .. 1 : j < k => entries[j].at + entries[j].len <= entries[k].at
    BY <2>3, <2>4, <2>6
  <2> HIDE DEF entries
  <2>10. Ordered(params, Written, Start, offset)'
    BY <1>1, <2>1, <2>4, <2>6, <2>8, <2>9, OrderedGrows, AtParam
  <2>11. cur' \in 0 .. PARAMETERS_MAX_NUM
    BY <1>1, <2>1, <2>4, AtParam DEF HasRoom
  <2>12. todo' \in Seq(ParameterTypes) /\ CompositeLast(todo', cur')
    BY <1>1, <2>4, AtParam, RestGood
  <2> QED BY <2>4, <2>7, <2>10, <2>11, <2>12, ParamStep DEF IInv, TypeInv
<1> QED BY <1>2, <1>3 DEF SimpleParam

LEMMA OntIdStep ==
    ASSUME IInv, OntId
    PROVE  IInv'
<1> DEFINE end  == parse_ont_id(offset)
           next == Closed(end)
<1>1. NextIs({"ONTID"})
  BY DEF OntId
<1>2. CASE Refuse
  BY <1>1, <1>2, RefuseInv, AtParam
<1>3. CASE /\ HasRoom /\ Found(next) /\ todo' = Tail(todo)
           /\ GoTo("params", next) /\ UNCHANGED <<buf, call, params, cur, num, i>>
  <2>1. Buffered /\ Working /\ offset \in Places /\ offset \in Nat /\ Written = cur
    BY <1>1, AtParam
  <2>2. end \in Places /\ (Found(end) => offset <= end)
    BY <2>1, IdentityReads
  <2>3. /\ buf' = buf /\ stage' = "params" /\ offset' = next /\ todo' = Tail(todo)
        /\ UNCHANGED <<type, addr, name, params, cur, num, i>> /\ Found(next)
    BY <1>3 DEF GoTo, call
  <2> HIDE DEF end
  <2>4. next \in Places /\ end <= next
    BY <2>1, <2>2, <2>3, EndReads
  <2> HIDE DEF next
  <2>5. next \in Positions /\ next \in Nat /\ offset <= next
    <3>1. next \in Positions /\ next \in Nat /\ end \in Nat
      BY <2>1, <2>2, <2>3, <2>4, FoundPosition DEF Places
    <3>2. Found(end)
      BY <2>1, <2>3, <2>4, <3>1, BytesRead DEF Found
    <3> QED BY <2>1, <2>2, <2>4, <3>1, <3>2
  <2>6. Onwards
    BY <1>1, <2>1, <2>3, <2>5, AtParam DEF Onwards
  <2>7. Written' = Written
    BY <2>1, <2>3 DEF Written
  <2>8. Ordered(params, Written, Start, offset)'
    BY <2>1, <2>3, <2>5, <2>7, OrderedStays
  <2>9. todo' \in Seq(ParameterTypes) /\ CompositeLast(todo', cur')
    BY <1>1, <2>3, AtParam, RestGood
  <2> QED BY <2>3, <2>6, <2>8, <2>9, ParamStep DEF IInv, TypeInv
<1> QED BY <1>2, <1>3 DEF OntId

\* The three entries of a transfer state.
LEMMA StateEntriesLie ==
    ASSUME Buffered, NEW at \in Places, Found(StateEnd(at))
    PROVE  LET entries == StateEntries(at)
           IN  /\ Len(entries) = 3
               /\ \A k \in 1 .. 3 : /\ IsEntry(entries[k]) /\ at <= entries[k].at
                                    /\ entries[k].at + entries[k].len <= StateEnd(at)
               /\ \A j, k \in 1 .. 3 : j < k => entries[j].at + entries[j].len <= entries[k].at
<1> DEFINE hash    == ADDRESS_SCRIPT_HASH_LEN
           from    == StateFrom(at)
           to      == StateTo(at)
           amount  == StateAmount(at)
           amount_ == parse_amount(amount)
           end     == StateEnd(at)
           entries == StateEntries(at)
<1>1. /\ from \in Nat /\ to \in Nat /\ amount \in Nat /\ amount_ \in Nat /\ hash \in Nat
      /\ at <= from /\ from + 1 + hash <= to /\ to + 1 + hash <= amount
      /\ amount <= amount_ /\ amount_ < end
  BY StateReads, SizeAssumption
<1>2. at \in Nat /\ end \in Nat
  BY FoundPosition, StateReads, BytesRead DEF Places
<1>3. entries = <<Entry("ADDR", from + 1, hash), Entry("ADDR", to + 1, hash),
                  Entry("AMOUNT", amount, amount_ - amount)>>
  BY DEF StateEntries, AddressEntry, AmountEntry
<1> HIDE DEF hash, from, to, amount, amount_, end, entries
<1>4. Len(entries) = 3
  BY <1>3
<1>5. /\ entries[1].kind = "ADDR" /\ entries[1].at = from + 1 /\ entries[1].len = hash
      /\ entries[2].kind = "ADDR" /\ entries[2].at = to + 1 /\ entries[2].len = hash
      /\ entries[3].kind = "AMOUNT" /\ entries[3].at = amount /\ entries[3].len = amount_ - amount
  BY <1>3 DEF Entry
<1>6. /\ IsEntry(entries[1]) /\ at <= entries[1].at /\ entries[1].at + entries[1].len <= end
      /\ IsEntry(entries[2]) /\ at <= entries[2].at /\ entries[2].at + entries[2].len <= end
      /\ IsEntry(entries[3]) /\ at <= entries[3].at /\ entries[3].at + entries[3].len <= end
  BY <1>1, <1>2, <1>5 DEF IsEntry, PARAM_KINDS
<1>7. /\ entries[1].at + entries[1].len <= entries[2].at
      /\ entries[1].at + entries[1].len <= entries[3].at
      /\ entries[2].at + entries[2].len <= entries[3].at
  BY <1>1, <1>2, <1>5
<1>8. \A k \in 1 .. 3 : k = 1 \/ k = 2 \/ k = 3
  OBVIOUS
<1>9. \A j, k \in 1 .. 3 : j < k => (j = 1 /\ k = 2) \/ (j = 1 /\ k = 3) \/ (j = 2 /\ k = 3)
  OBVIOUS
<1> QED BY <1>4, <1>6, <1>7, <1>8, <1>9 DEF entries, end

LEMMA TransferStateParamStep ==
    ASSUME IInv, TransferStateParam
    PROVE  IInv'
<1> DEFINE end     == StateEnd(offset)
           next    == Closed(end)
           entries == StateEntries(offset)
<1>1. NextIs({"TRANSFER_STATE"})
  BY DEF TransferStateParam
<1>2. CASE Refuse
  BY <1>1, <1>2, RefuseInv, AtParam
<1>3. CASE /\ RoomForState /\ Found(next) /\ Write(cur, entries)
           /\ cur' = cur + 3 /\ todo' = Tail(todo)
           /\ GoTo("params", next) /\ UNCHANGED <<buf, call, num, i>>
  <2>1. Buffered /\ Working /\ offset \in Places /\ offset \in Nat /\ cur \in Nat /\ Written = cur
        /\ stage = "params"
    BY <1>1, AtParam
  <2>2. end \in Places
    BY <2>1, StateReads
  <2>3. /\ buf' = buf /\ stage' = "params" /\ offset' = next /\ cur' = cur + 3
        /\ todo' = Tail(todo) /\ UNCHANGED <<type, addr, name, num, i>>
        /\ Found(next) /\ Write(cur, entries)
    BY <1>3 DEF GoTo, call
  <2>4. next \in Places /\ end <= next
    <3> HIDE DEF end
    <3> QED BY <2>1, <2>2, <2>3, EndReads
  <2>5. next \in Positions /\ next \in Nat /\ Found(end) /\ end \in Nat
    <3> HIDE DEF end, next
    <3>1. next \in Positions /\ next \in Nat /\ end \in Nat
      BY <2>1, <2>2, <2>3, <2>4, FoundPosition DEF Places
    <3> QED BY <2>1, <2>3, <2>4, <3>1, BytesRead DEF Found
  <2>6. /\ Len(entries) = 3
        /\ \A k \in 1 .. 3 : /\ IsEntry(entries[k]) /\ offset <= entries[k].at
                             /\ entries[k].at + entries[k].len <= end
        /\ \A j, k \in 1 .. 3 : j < k => entries[j].at + entries[j].len <= entries[k].at
    BY <2>1, <2>5, StateEntriesLie
  <2> HIDE DEF end, next, entries
  <2>7. \A k \in 1 .. 3 : /\ IsEntry(entries[k]) /\ offset <= entries[k].at
                          /\ entries[k].at + entries[k].len <= offset'
    <3>1. ASSUME NEW k \in 1 .. 3
          PROVE  IsEntry(entries[k]) /\ offset <= entries[k].at
                 /\ entries[k].at + entries[k].len <= offset'
      <4>1. entries[k].at \in Nat /\ entries[k].len \in Nat
        BY <2>6 DEF IsEntry
      <4> QED BY <2>3, <2>4, <2>5, <2>6, <4>1
    <3> QED BY <3>1
  <2>8. offset <= next
    <3>1. IsEntry(entries[1]) /\ offset <= entries[1].at /\ entries[1].at + entries[1].len <= end
      BY <2>6
    <3> QED BY <2>1, <2>4, <2>5, <3>1 DEF IsEntry
  <2>9. Onwards
    BY <1>1, <2>1, <2>3, <2>5, <2>8, AtParam DEF Onwards
  <2>10. Written' = cur + 3
    BY <2>3 DEF Written
  <2>11. Ordered(params, Written, Start, offset)'
    BY <2>1, <2>3, <2>5, <2>6, <2>7, <2>8, <2>10, OrderedGrows
  <2>12. cur' \in 0 .. PARAMETERS_MAX_NUM
    BY <1>1, <1>3, <2>1, <2>3, AtParam DEF RoomForState
  <2>13. todo' \in Seq(ParameterTypes) /\ CompositeLast(todo', cur')
    <3>1. Head(todo) \in {"PK_AMOUNT_PAIRS", "TRANSFER_STATE"} /\ cur' \in Nat
      BY <1>1, <2>1, <2>3 DEF NextIs
    <3> QED BY <1>1, <2>3, <3>1, AtParam, RestGood
  <2> QED BY <2>3, <2>9, <2>11, <2>12, <2>13, ParamStep DEF IInv, TypeInv
<1> QED BY <1>2, <1>3 DEF TransferStateParam

LEMMA ListParamStep ==
    ASSUME IInv, ListParam
    PROVE  IInv'
BY RefuseInv, AtParam DEF ListParam
-----------------------------------------------------------------------------
(* A list of pairs.                                                        *)

LEMMA OneMore ==
    ASSUME IInv, Working, stage \notin {"header", "payload"}, buf' = buf,
           offset' \in Nat, offset <= offset',
           NEW entry, IsEntry(entry), offset <= entry.at, entry.at + entry.len <= offset',
           NEW n, n = Written, Write(n, <<entry>>), Written' = n + 1
    PROVE  Ordered(params, Written, Start, offset)'
<1> DEFINE entries == <<entry>>
<1>1. /\ Len(entries) = 1 /\ Write(n, entries)
      /\ \A k \in 1 .. 1 : /\ IsEntry(entries[k]) /\ offset <= entries[k].at
                           /\ entries[k].at + entries[k].len <= offset'
      /\ \A j, k \in 1 .. 1 : j < k => entries[j].at + entries[j].len <= entries[k].at
  OBVIOUS
<1> HIDE DEF entries
<1> QED BY <1>1, OrderedGrows

\* An amount or a key, and the end of a parameter behind it.
LEMMA AmountLies ==
    ASSUME Buffered, NEW at \in Places, Found(parse_amount(at))
    PROVE  /\ IsEntry(AmountEntry(at)) /\ at <= AmountEntry(at).at
           /\ AmountEntry(at).at + AmountEntry(at).len <= parse_amount(at)
           /\ parse_amount(at) \in Nat /\ at <= parse_amount(at) /\ parse_amount(at) <= size
<1>1. "AMOUNT" \in SimpleKinds /\ SimpleEnd("AMOUNT", at) = parse_amount(at)
      /\ SimpleEntry("AMOUNT", at) = AmountEntry(at)
  BY DEF SimpleKinds, SimpleEnd, SimpleEntry
<1>2. at \in Nat /\ parse_amount(at) \in Nat /\ at + 1 <= parse_amount(at)
  BY AmountReads, FoundPosition DEF Places
<1> QED BY <1>1, <1>2, SimpleReads DEF Found

LEMMA KeyLies ==
    ASSUME Buffered, NEW at \in Places, Found(EndParam(parse_pk(at)))
    PROVE  /\ IsEntry(KeyEntry(at)) /\ at <= KeyEntry(at).at
           /\ KeyEntry(at).at + KeyEntry(at).len <= EndParam(parse_pk(at))
           /\ EndParam(parse_pk(at)) = at + KeySpace
           /\ EndParam(parse_pk(at)) \in Positions
<1> DEFINE end  == parse_pk(at)
           next == EndParam(end)
<1>1. "PUBKEY" \in SimpleKinds /\ SimpleEnd("PUBKEY", at) = end
      /\ SimpleEntry("PUBKEY", at) = KeyEntry(at)
  BY DEF SimpleKinds, SimpleEnd, SimpleEntry
<1>2. end \in Places /\ (Found(end) => end = at + 1 + 2 * COMPRESSED_KEY_LEN)
  BY KeyReads
<1>3. Found(end) => /\ IsEntry(KeyEntry(at)) /\ at <= KeyEntry(at).at
                    /\ KeyEntry(at).at + KeyEntry(at).len <= end
  BY <1>1, SimpleReads
<1> HIDE DEF end
<1>4. next \in Places /\ next = end + 3
  BY <1>2, EndReads DEF end
<1>5. next \in Positions /\ next \in Nat
  BY <1>4, FoundPosition DEF end
<1>6. at \in Nat /\ size \in Nat /\ COMPRESSED_KEY_LEN \in Nat /\ end \in Nat /\ Found(end)
  BY <1>2, <1>4, <1>5, BytesRead, SizeAssumption DEF Places, Positions, Found
<1>7. KeyEntry(at).at \in Nat /\ KeyEntry(at).len \in Nat
  BY <1>3, <1>6 DEF IsEntry
<1> QED BY <1>2, <1>3, <1>4, <1>5, <1>6, <1>7 DEF KeySpace, end

\* A step to the next pair.
LEMMA PairStep ==
    ASSUME IInv, Onwards, stage' \in {"keys", "amounts"},
           UNCHANGED <<type, addr, name, cur, todo>>, num' \in Nat, i' \in Nat,
           CompositeLast(todo, cur), Len(todo) = 1, PairsInv',
           Ordered(params, Written, Start, offset)'
    PROVE  IInv'
<1>1. Buffered' /\ HeaderInv' /\ PayloadInv' /\ offset' \in Positions' /\ Positions' = Positions
  BY OnwardsKeeps, SameBuffer DEF Onwards
<1>2. TypeInv'
  BY <1>1 DEF IInv, TypeInv, Stages
<1>3. TransferInv' /\ Working'
  BY DEF TransferInv, Working, Statuses
<1>4. ParamsInv'
  BY <1>3 DEF ParamsInv, CompositeLast
<1> QED BY <1>1, <1>2, <1>3, <1>4 DEF IInv

LEMMA AtPair ==
    ASSUME IInv, stage \in {"keys", "amounts"}
    PROVE  /\ Working /\ Buffered /\ size <= MAX_TRANSACTION_LEN
           /\ size \in Nat /\ offset \in Nat /\ offset \in Places /\ Start \in Nat /\ Start <= offset
           /\ cur \in Nat /\ num \in Nat /\ i \in Nat /\ PARAMETERS_MAX_NUM \in Nat
           /\ KeySpace \in Nat /\ UINT64 \in Nat
           /\ CompositeLast(todo, cur) /\ Len(todo) = 1
<1>1. Buffered /\ Working /\ stage \notin {"header", "payload"}
  BY DEF IInv, Working, Statuses
<1>2. /\ size \in Nat /\ Start \in Nat /\ PARAMETERS_MAX_NUM \in Nat /\ KeySpace \in Nat
      /\ UINT64 \in Nat
  BY <1>1, BytesRead, StartNat, SizeAssumption, WordAssumption DEF KeySpace
<1> QED BY <1>1, <1>2
        DEF IInv, TypeInv, HeaderInv, PayloadInv, ParamsInv, Positions, Places

LEMMA StartPairsStep ==
    ASSUME IInv, StartPairs
    PROVE  IInv'
<1> DEFINE end  == parse_amount(offset)
           next == EndParam(end)
<1>1. NextIs({"PK_AMOUNT_PAIRS"}) /\ Head(todo) = "PK_AMOUNT_PAIRS"
  BY DEF StartPairs, NextIs
<1>2. CASE Refuse
  BY <1>1, <1>2, RefuseInv, AtParam
<1>3. CASE /\ PairsFit(offset) /\ Write(cur, <<AmountEntry(offset)>>)
           /\ num' = PairsCount(offset) /\ i' = 1
           /\ GoTo("keys", next) /\ UNCHANGED <<buf, call, cur, todo>>
  <2>1. Buffered /\ Working /\ offset \in Places /\ offset \in Nat /\ Written = cur /\ size \in Nat
        /\ cur \in Nat /\ stage = "params" /\ Start <= offset
    BY <1>1, AtParam
  <2>2. end \in Places
    BY <2>1, AmountReads
  <2>3. /\ buf' = buf /\ stage' = "keys" /\ offset' = next /\ i' = 1 /\ num' = PairsCount(offset)
        /\ UNCHANGED <<type, addr, name, cur, todo>> /\ Found(next)
    BY <1>3 DEF GoTo, call, PairsFit
  <2> HIDE DEF end
  <2>4. next \in Places /\ next = end + 3
    BY <2>1, <2>2, <2>3, EndReads
  <2> HIDE DEF next
  <2>5. next \in Positions /\ next \in Nat /\ Found(end)
    <3>1. next \in Positions /\ next \in Nat /\ end \in Nat
      BY <2>1, <2>2, <2>3, <2>4, FoundPosition DEF Places
    <3> QED BY <2>1, <2>3, <2>4, <3>1, BytesRead DEF Found
  <2> DEFINE entry == AmountEntry(offset)
  <2>6. /\ IsEntry(entry) /\ offset <= entry.at /\ entry.at + entry.len <= end
        /\ end \in Nat /\ offset <= end /\ Write(cur, <<entry>>)
    BY <1>3, <2>1, <2>5, AmountLies DEF end
  <2> HIDE DEF entry
  <2>7. offset <= next /\ entry.at + entry.len <= next
    BY <2>1, <2>4, <2>5, <2>6 DEF IsEntry
  <2>8. Onwards
    BY <2>1, <2>3, <2>5, <2>7, <1>1, AtParam DEF Onwards
  <2>9. Written' = cur + 1
    BY <2>3 DEF Written
  <2>10. Ordered(params, Written, Start, offset)'
    BY <2>1, <2>3, <2>5, <2>6, <2>7, <2>9, OneMore
  <2>11. num' \in Nat
    BY <2>1, <2>3, <2>5, PairsCountNat DEF end
  <2>12. cur <= 1 /\ CompositeLast(todo, cur) /\ Len(todo) = 1
    BY <1>1, AtParam, RestGood
  <2>13. PairsInv'
    <3>1. (num' * 2 + 1 + cur) % UINT64 <= PARAMETERS_MAX_NUM
      BY <1>3, <2>3 DEF PairsFit
    <3>2. (i' - 1) * KeySpace <= offset'
      <4>1. KeySpace \in Nat
        BY SizeAssumption DEF KeySpace
      <4>2. i' - 1 = 0
        BY <2>3
      <4>3. 0 * KeySpace = 0
        BY <4>1
      <4> QED BY <2>3, <2>5, <4>2, <4>3
    <3> QED BY <2>3, <2>11, <2>12, <3>1, <3>2 DEF PairsInv
  <2> QED BY <2>3, <2>8, <2>10, <2>11, <2>12, <2>13, PairStep
<1> QED BY <1>2, <1>3 DEF StartPairs

LEMMA PairKeyStep ==
    ASSUME IInv, PairKey
    PROVE  IInv'
<1> DEFINE next  == EndParam(parse_pk(offset))
           entry == KeyEntry(offset)
<1>1. stage = "keys" /\ i <= num
  BY DEF PairKey
<1>2. CASE Refuse
  BY <1>1, <1>2, RefuseInv, AtPair
<1>3. CASE /\ Found(next) /\ Write(cur + i, <<entry>>) /\ i' = i + 1
           /\ GoTo("keys", next) /\ UNCHANGED <<buf, call, cur, todo, num>>
  <2>1. Buffered /\ Working /\ offset \in Places /\ offset \in Nat /\ num \in Nat /\ i \in Nat
        /\ cur \in Nat /\ KeySpace \in Nat /\ Start <= offset /\ Start \in Nat
    BY <1>1, AtPair
  <2>2. /\ buf' = buf /\ stage' = "keys" /\ offset' = next /\ i' = i + 1
        /\ UNCHANGED <<type, addr, name, cur, todo, num>>
        /\ Found(next) /\ Write(cur + i, <<entry>>)
    BY <1>3 DEF GoTo, call
  <2>3. /\ IsEntry(entry) /\ offset <= entry.at /\ entry.at + entry.len <= next
        /\ next = offset + KeySpace /\ next \in Positions
    BY <2>1, <2>2, KeyLies
  <2> HIDE DEF next, entry
  <2>4. offset <= next /\ next \in Nat
    BY <2>1, <2>3
  <2>5. Onwards
    BY <1>1, <2>1, <2>2, <2>3, <2>4 DEF Onwards
  <2> DEFINE n == cur + i
  <2>6. n = Written /\ Written' = n + 1 /\ Write(n, <<entry>>)
    BY <1>1, <2>1, <2>2 DEF Written
  <2> HIDE DEF n
  <2>7. Ordered(params, Written, Start, offset)'
    BY <1>1, <2>1, <2>2, <2>3, <2>4, <2>6, OneMore
  <2>8. PairsInv'
    <3> DEFINE before == i - 1
               taken  == before * KeySpace
    <3>1. /\ cur <= 1 /\ 1 <= i /\ (num * 2 + 1 + cur) % UINT64 <= PARAMETERS_MAX_NUM
          /\ taken <= offset
      BY <1>1 DEF IInv, PairsInv
    <3>2. before \in Nat /\ i' - 1 = before + 1
      BY <2>1, <2>2, <3>1
    <3> HIDE DEF before
    <3>3. (before + 1) * KeySpace = taken + KeySpace /\ taken \in Nat
      BY <2>1, <3>2
    <3> HIDE DEF taken
    <3>4. (i' - 1) * KeySpace <= offset'
      BY <2>1, <2>2, <2>3, <3>1, <3>2, <3>3
    <3>5. cur' = cur /\ num' = num /\ stage' = "keys" /\ 1 <= i' /\ i' <= num' + 1
      BY <1>1, <2>1, <2>2
    <3> QED BY <3>1, <3>4, <3>5 DEF PairsInv
  <2>9. CompositeLast(todo, cur) /\ Len(todo) = 1 /\ num' \in Nat /\ i' \in Nat
    BY <1>1, <2>1, <2>2, AtPair
  <2> QED BY <2>2, <2>5, <2>7, <2>8, <2>9, PairStep
<1> QED BY <1>2, <1>3 DEF PairKey

\* Behind the keys the number of pairs stands again, if it is there.
LEMMA CheckAmountReads ==
    ASSUME Buffered, NEW at \in Places, NEW number
    PROVE  /\ parse_check_amount(at, number) \in Places
           /\ Found(parse_check_amount(at, number)) => at <= parse_check_amount(at, number)
<1> DEFINE end == parse_amount(at)
<1>1. end \in Places /\ (Found(end) => at + 1 <= end) /\ at \in Nat /\ size \in Nat /\ end \in Nat
  BY AmountReads, BytesRead DEF Places
<1>2. parse_check_amount(at, number) = end \/ parse_check_amount(at, number) = size + 1
  BY DEF parse_check_amount, Past
<1> HIDE DEF end
<1> QED BY <1>1, <1>2 DEF Places, Found

LEMMA SmallRemainder ==
    ASSUME NEW a \in Nat, NEW b \in Nat, a < b
    PROVE  a % b = a
OBVIOUS

LEMMA RepeatedCountStep ==
    ASSUME IInv, RepeatedCount
    PROVE  IInv'
<1> DEFINE end  == parse_check_amount(offset, num)
           next == EndParam(end)
<1>1. stage = "keys" /\ i > num
  BY DEF RepeatedCount
<1>2. CASE Refuse
  BY <1>1, <1>2, RefuseInv, AtPair
<1>3. CASE Found(next) /\ i' = 1 /\ GoTo("amounts", next) /\ UNCHANGED <<buf, call, list, num>>
  <2>1. Buffered /\ Working /\ offset \in Places /\ offset \in Nat /\ num \in Nat /\ i \in Nat
        /\ cur \in Nat /\ Start <= offset /\ Start \in Nat /\ size \in Nat
        /\ PARAMETERS_MAX_NUM \in Nat /\ UINT64 \in Nat /\ size <= MAX_TRANSACTION_LEN
    BY <1>1, AtPair
  <2>2. /\ buf' = buf /\ stage' = "amounts" /\ offset' = next /\ i' = 1
        /\ UNCHANGED <<type, addr, name, params, cur, todo, num>> /\ Found(next)
    BY <1>3 DEF GoTo, call, list
  <2>3. end \in Places /\ (Found(end) => offset <= end)
    BY <2>1, CheckAmountReads
  <2> HIDE DEF end
  <2>4. next \in Places /\ next = end + 3
    BY <2>1, <2>2, <2>3, EndReads
  <2> HIDE DEF next
  <2>5. next \in Positions /\ next \in Nat /\ offset <= next
    <3>1. next \in Positions /\ next \in Nat /\ end \in Nat
      BY <2>1, <2>2, <2>3, <2>4, FoundPosition DEF Places
    <3> QED BY <2>1, <2>2, <2>3, <2>4, <3>1 DEF Found
  <2>6. Onwards
    BY <1>1, <2>1, <2>2, <2>5 DEF Onwards
  <2>7. /\ cur <= 1 /\ i = num + 1 /\ (num * 2 + 1 + cur) % UINT64 <= PARAMETERS_MAX_NUM
        /\ num * KeySpace <= offset
    <3>1. /\ cur <= 1 /\ 1 <= i /\ i <= num + 1 /\ (i - 1) * KeySpace <= offset
          /\ (num * 2 + 1 + cur) % UINT64 <= PARAMETERS_MAX_NUM
      BY <1>1 DEF IInv, PairsInv
    <3>2. i = num + 1 /\ i - 1 = num
      BY <1>1, <2>1, <3>1
    <3> QED BY <3>1, <3>2
  <2>8. num + 3 <= PARAMETERS_MAX_NUM
    BY <2>1, <2>7, KeysFit DEF IInv
  <2>9. 2 * num + 1 + cur <= PARAMETERS_MAX_NUM
    <3> DEFINE sum == num * 2 + 1 + cur
    <3>1. sum \in Nat /\ sum < UINT64
      BY <2>1, <2>7, <2>8, CapacityAssumption
    <3>2. sum % UINT64 = sum
      <4> HIDE DEF sum
      <4> QED BY <2>1, <3>1, SmallRemainder
    <3> QED BY <2>1, <2>7, <3>2
  <2>10. PairsInv'
    <3>1. (num' * 2 + 1 + cur') % UINT64 <= PARAMETERS_MAX_NUM /\ cur' = cur /\ num' = num
      BY <2>2, <2>7
    <3> QED BY <2>1, <2>2, <2>7, <2>9, <3>1 DEF PairsInv
  <2>11. Written' = Written
    BY <1>1, <2>1, <2>2, <2>7 DEF Written
  <2>12. Ordered(params, Written, Start, offset)'
    BY <2>1, <2>2, <2>5, <2>11, OrderedStays
  <2>13. CompositeLast(todo, cur) /\ Len(todo) = 1 /\ num' \in Nat /\ i' \in Nat
    BY <1>1, <2>1, <2>2, AtPair
  <2> QED BY <2>2, <2>6, <2>10, <2>12, <2>13, PairStep
<1> QED BY <1>2, <1>3 DEF RepeatedCount

LEMMA PairAmountStep ==
    ASSUME IInv, PairAmount
    PROVE  IInv'
<1> DEFINE end   == parse_amount(offset)
           next  == IF i # num THEN EndParam(end) ELSE end
           entry == AmountEntry(offset)
<1>1. stage = "amounts" /\ i <= num
  BY DEF PairAmount
<1>2. CASE Refuse
  BY <1>1, <1>2, RefuseInv, AtPair
<1>3. CASE /\ Found(next) /\ Write(cur + num + i, <<entry>>) /\ i' = i + 1
           /\ GoTo("amounts", next) /\ UNCHANGED <<buf, call, cur, todo, num>>
  <2>1. Buffered /\ Working /\ offset \in Places /\ offset \in Nat /\ num \in Nat /\ i \in Nat
        /\ cur \in Nat /\ Start <= offset /\ Start \in Nat /\ size \in Nat
    BY <1>1, AtPair
  <2>2. /\ buf' = buf /\ stage' = "amounts" /\ offset' = next /\ i' = i + 1
        /\ UNCHANGED <<type, addr, name, cur, todo, num>>
        /\ Found(next) /\ Write(cur + num + i, <<entry>>)
    BY <1>3 DEF GoTo, call
  <2>3. end \in Places /\ end \in Nat
    BY <2>1, AmountReads DEF Places
  <2>4. next \in Places /\ end <= next
    <3>1. EndParam(end) \in Places /\ (Found(EndParam(end)) => EndParam(end) = end + 3)
      <4> HIDE DEF end
      <4> QED BY <2>1, <2>3, EndReads
    <3> HIDE DEF end
    <3> QED BY <2>2, <2>3, <3>1
  <2>5. next \in Positions /\ next \in Nat /\ Found(end)
    <3> HIDE DEF end, next
    <3>1. next \in Positions /\ next \in Nat
      BY <2>1, <2>2, <2>4, FoundPosition
    <3> QED BY <2>1, <2>2, <2>3, <2>4, <3>1 DEF Found
  <2>6. /\ IsEntry(entry) /\ offset <= entry.at /\ entry.at + entry.len <= end /\ offset <= end
    BY <2>1, <2>5, AmountLies
  <2> HIDE DEF end, next, entry
  <2>7. offset <= next /\ entry.at + entry.len <= next
    BY <2>1, <2>3, <2>4, <2>5, <2>6 DEF IsEntry
  <2>8. Onwards
    BY <1>1, <2>1, <2>2, <2>5, <2>7 DEF Onwards
  <2> DEFINE n == cur + num + i
  <2>9. n = Written /\ Written' = n + 1 /\ Write(n, <<entry>>)
    BY <1>1, <2>1, <2>2 DEF Written
  <2> HIDE DEF n
  <2>10. Ordered(params, Written, Start, offset)'
    BY <1>1, <2>1, <2>2, <2>5, <2>6, <2>7, <2>9, OneMore
  <2>11. PairsInv'
    <3>1. /\ cur <= 1 /\ 1 <= i /\ (num * 2 + 1 + cur) % UINT64 <= PARAMETERS_MAX_NUM
          /\ 2 * num + 1 + cur <= PARAMETERS_MAX_NUM
      BY <1>1 DEF IInv, PairsInv
    <3>2. cur' = cur /\ num' = num /\ stage' = "amounts" /\ 1 <= i' /\ i' <= num' + 1
      BY <1>1, <2>1, <2>2
    <3> QED BY <3>1, <3>2 DEF PairsInv
  <2>12. CompositeLast(todo, cur) /\ Len(todo) = 1 /\ num' \in Nat /\ i' \in Nat
    BY <1>1, <2>1, <2>2, AtPair
  <2> QED BY <2>2, <2>8, <2>10, <2>11, <2>12, PairStep
<1> QED BY <1>2, <1>3 DEF PairAmount

LEMMA EndPairsStep ==
    ASSUME IInv, EndPairs
    PROVE  IInv'
<1> DEFINE next == Closed(offset)
<1>1. stage = "amounts" /\ i > num
  BY DEF EndPairs
<1>2. CASE Refuse
  BY <1>1, <1>2, RefuseInv, AtPair
<1>3. CASE /\ Found(next) /\ cur' = cur + PairsEntries /\ todo' = Tail(todo)
           /\ GoTo("params", next) /\ UNCHANGED <<buf, call, params, num, i>>
  <2>1. Buffered /\ Working /\ offset \in Places /\ offset \in Nat /\ num \in Nat /\ i \in Nat
        /\ cur \in Nat /\ Start <= offset /\ Start \in Nat /\ Len(todo) = 1
        /\ PARAMETERS_MAX_NUM \in Nat
    BY <1>1, AtPair
  <2>2. /\ buf' = buf /\ stage' = "params" /\ offset' = next /\ cur' = cur + (2 * num + 1)
        /\ todo' = Tail(todo) /\ UNCHANGED <<type, addr, name, params, num, i>> /\ Found(next)
    BY <1>3 DEF GoTo, call, PairsEntries
  <2>3. next \in Places /\ offset <= next
    BY <2>1, <2>2, EndReads
  <2> HIDE DEF next
  <2>4. next \in Positions /\ next \in Nat
    BY <2>1, <2>2, <2>3, FoundPosition
  <2>5. Onwards
    BY <1>1, <2>1, <2>2, <2>3, <2>4 DEF Onwards
  <2>6. i = num + 1 /\ 2 * num + 1 + cur <= PARAMETERS_MAX_NUM
    BY <1>1, <2>1 DEF IInv, PairsInv
  <2>7. Written' = Written
    BY <1>1, <2>1, <2>2, <2>6 DEF Written
  <2>8. Ordered(params, Written, Start, offset)'
    BY <2>1, <2>2, <2>3, <2>4, <2>7, OrderedStays
  <2>9. cur' \in 0 .. PARAMETERS_MAX_NUM
    BY <2>1, <2>2, <2>6
  <2>10. todo' \in Seq(ParameterTypes) /\ CompositeLast(todo', cur')
    <3>1. todo \in Seq(ParameterTypes)
      BY DEF IInv, TypeInv
    <3>2. todo # <<>>
      BY <2>1, <3>1
    <3>3. Tail(todo) \in Seq(ParameterTypes) /\ Len(Tail(todo)) = Len(todo) - 1
      BY <3>1, <3>2
    <3>4. todo' \in Seq(ParameterTypes) /\ Len(todo') = 0
      BY <2>1, <2>2, <3>3
    <3> QED BY <3>4 DEF CompositeLast
  <2> QED BY <2>1, <2>2, <2>5, <2>8, <2>9, <2>10, ParamStep
<1> QED BY <1>2, <1>3 DEF EndPairs
-----------------------------------------------------------------------------
(* Transfers and the end of the transaction.                               *)

LEMMA CloseInv ==
    ASSUME IInv, Working, NEW at \in Places, Found(at) => offset <= at, Close(at)
    PROVE  IInv'
<1>1. CASE Refuse
  BY <1>1, RefuseInv
<1>2. CASE Found(at) /\ Skip(Measured(at), at)
  <2>1. /\ buf' = buf /\ stage' \in Statuses /\ offset' = at
        /\ UNCHANGED <<type, addr, name, params, cur, todo, num, i>>
    BY <1>2 DEF Skip, GoTo, call, list, loop, Measured, Statuses
  <2>2. Buffered /\ Buffered' /\ Positions' = Positions /\ Start' = Start
    BY <2>1, SameBuffer DEF IInv
  <2>3. at \in Positions /\ at \in Nat /\ offset <= at
    BY <1>2, <2>2, FoundPosition
  <2>4. stage' \in Stages /\ stage' \notin {"header", "payload", "contract", "method", "lookup",
            "params", "keys", "amounts", "transfers"} /\ ~Working'
    BY <2>1 DEF Stages, Statuses, Working
  <2>5. TypeInv'
    BY <2>1, <2>2, <2>3, <2>4 DEF IInv, TypeInv
  <2>6. \E n \in 0 .. PARAMETERS_MAX_NUM : Ordered(params, n, Start, at)
    <3> DEFINE n == Written
    <3>1. n \in 0 .. PARAMETERS_MAX_NUM /\ Ordered(params, n, Start, offset)
      BY WrittenFits DEF IInv, ParamsInv
    <3>2. offset \in Nat /\ Start \in Nat
      BY <2>2, BytesRead, StartNat DEF IInv, TypeInv, Positions
    <3> HIDE DEF n
    <3>3. n \in Nat
      BY <3>1
    <3>4. Ordered(params, n, Start, at)
      BY <2>3, <3>1, <3>2, <3>3, WidenOrdered
    <3> QED BY <3>1, <3>4
  <2>7. ParamsInv'
    BY <2>1, <2>2, <2>4, <2>6 DEF ParamsInv, Ordered, IsEntry
  <2>8. HeaderInv' /\ PayloadInv' /\ TransferInv' /\ PairsInv'
    BY <2>4 DEF HeaderInv, PayloadInv, TransferInv, PairsInv
  <2> QED BY <2>2, <2>5, <2>7, <2>8 DEF IInv
<1> QED BY <1>1, <1>2 DEF Close

LEMMA EndParamsStep ==
    ASSUME IInv, EndParams
    PROVE  IInv'
<1> DEFINE params_num == Len(Signature(TheContract, TheMethod))
           counted    == parse_check_amount(offset, params_num)
           neovm      == parse_check_constant(counted, OPCODE_PACK)
           native     == parse_check_constant(offset, OPCODE_ST_END)
           wasm       == parse_check_constant(offset, OPCODE_END)
           at         == CASE Native -> native [] Wasm -> wasm [] OTHER -> neovm
<1>1. stage = "params" /\ Working /\ Buffered /\ offset \in Nat /\ offset \in Places
  BY BytesRead DEF EndParams, Working, Statuses, IInv, TypeInv, Positions, Places
<1>2. Len(OPCODE_PACK) = 1 /\ Len(OPCODE_ST_END) = 1 /\ Len(OPCODE_END) = 1 /\ 1 \in Nat
  BY ConstantLengths
<1>3. native \in Places /\ (Found(native) => native = offset + 1)
  BY <1>1, <1>2, ConstantReads
<1>4. wasm \in Places /\ (Found(wasm) => wasm = offset + 1)
  BY <1>1, <1>2, ConstantReads
<1>5. counted \in Places /\ (Found(counted) => offset <= counted)
  BY <1>1, CheckAmountReads
<1> HIDE DEF counted
<1>6. neovm \in Places /\ (Found(neovm) => neovm = counted + 1)
  BY <1>1, <1>2, <1>5, ConstantReads
<1>7. Found(neovm) => offset <= neovm
  BY <1>1, <1>5, <1>6, BytesRead DEF Places, Found
<1>8. Close(at)
  BY DEF EndParams, counted
<1> HIDE DEF native, wasm, neovm
<1>9. at \in Places /\ (Found(at) => offset <= at)
  <2>1. at = native \/ at = wasm \/ at = neovm
    BY DEF Native, Wasm
  <2> HIDE DEF at
  <2>2. Found(native) => offset <= native
    BY <1>1, <1>3
  <2>3. Found(wasm) => offset <= wasm
    BY <1>1, <1>4
  <2> QED BY <1>3, <1>4, <1>6, <1>7, <2>1, <2>2, <2>3
<1> HIDE DEF at
<1> QED BY <1>1, <1>8, <1>9, CloseInv

LEMMA EndTransfersStep ==
    ASSUME IInv, EndTransfers
    PROVE  IInv'
<1> DEFINE counted == parse_check_amount(offset, i)
           at      == parse_check_constant(counted, OPCODE_PACK)
<1>1. Working /\ Buffered /\ offset \in Nat /\ offset \in Places
  BY BytesRead DEF EndTransfers, Working, Statuses, IInv, TypeInv, Positions, Places
<1>2. Len(OPCODE_PACK) = 1 /\ 1 \in Nat
  BY ConstantLengths
<1>3. counted \in Places /\ (Found(counted) => offset <= counted)
  BY <1>1, CheckAmountReads
<1>4. Close(at)
  BY DEF EndTransfers
<1> HIDE DEF counted
<1>5. at \in Places /\ (Found(at) => at = counted + 1)
  BY <1>1, <1>2, <1>3, ConstantReads
<1> HIDE DEF at
<1>6. Found(at) => offset <= at
  BY <1>1, <1>3, <1>5, BytesRead DEF Places, Found
<1> QED BY <1>1, <1>4, <1>5, <1>6, CloseInv

\* The byte behind a transfer is in the transaction: a transfer ends with a byte
\* other than the zero with which a native call ends.
LEMMA TransferStep ==
    ASSUME IInv, Transfer
    PROVE  IInv'
<1> DEFINE next    == StateEnd(offset)
           entries == StateEntries(offset)
<1>1. stage = "transfers" /\ Working /\ Buffered /\ Start <= offset /\ Byte(size - 1) = 0
  BY DEF Transfer, Working, Statuses, IInv, PayloadInv, TransferInv
<1>2. CASE Refuse
  BY <1>1, <1>2, RefuseInv
<1>3. CASE /\ RoomForState /\ Found(next) /\ Write(cur, entries)
           /\ cur' = cur + 3 /\ i' = i + 1
           /\ GoTo("transfers", next) /\ UNCHANGED <<buf, call, todo, num>>
  <2>1. offset \in Places /\ offset \in Nat /\ cur \in Nat /\ Written = cur /\ size \in Nat
        /\ i \in Nat /\ PARAMETERS_MAX_NUM \in Nat
    BY <1>1, BytesRead, SizeAssumption DEF IInv, TypeInv, Positions, Places, Written
  <2>2. /\ buf' = buf /\ stage' = "transfers" /\ offset' = next /\ cur' = cur + 3 /\ i' = i + 1
        /\ UNCHANGED <<type, addr, name, todo, num>> /\ Found(next) /\ Write(cur, entries)
    BY <1>3 DEF GoTo, call
  <2>3. next \in Positions /\ next \in Nat
    BY <1>1, <2>1, <2>2, StateReads, FoundPosition
  <2>4. offset <= next /\ next < size
    <3>1. offset <= next
      <4>1. /\ StateFrom(offset) \in Nat /\ StateTo(offset) \in Nat /\ StateAmount(offset) \in Nat
            /\ parse_amount(StateAmount(offset)) \in Nat /\ ADDRESS_SCRIPT_HASH_LEN \in Nat
            /\ offset <= StateFrom(offset)
            /\ StateFrom(offset) + 1 + ADDRESS_SCRIPT_HASH_LEN <= StateTo(offset)
            /\ StateTo(offset) + 1 + ADDRESS_SCRIPT_HASH_LEN <= StateAmount(offset)
            /\ StateAmount(offset) <= parse_amount(StateAmount(offset))
            /\ parse_amount(StateAmount(offset)) < next
        BY <1>1, <2>1, <2>2, StateReads, SizeAssumption
      <4> HIDE DEF next
      <4> QED BY <2>1, <2>3, <4>1
    <3>2. Byte(next - 1) = 108
      BY <1>1, <2>1, <2>2, StateReads DEF OPCODE_ST_END
    <3> HIDE DEF next
    <3>3. next # size
      BY <1>1, <3>2
    <3> QED BY <2>1, <2>3, <3>1, <3>3 DEF Positions
  <2>5. Onwards
    BY <1>1, <2>1, <2>2, <2>3, <2>4, StartNat DEF Onwards
  <2>6. Buffered' /\ HeaderInv' /\ PayloadInv' /\ Positions' = Positions
    BY <2>2, <2>5, OnwardsKeeps, SameBuffer
  <2>7. TypeInv'
    BY <1>3, <2>1, <2>2, <2>3, <2>6 DEF IInv, TypeInv, Stages, RoomForState
  <2>8. TransferInv' /\ PairsInv'
    BY <1>1, <2>2, <2>4, SameBuffer DEF TransferInv, PairsInv
  <2>9. Working' /\ Written' = cur + 3
    BY <2>2 DEF Working, Statuses, Written
  <2>10. /\ Len(entries) = 3
         /\ \A k \in 1 .. 3 : /\ IsEntry(entries[k]) /\ offset <= entries[k].at
                              /\ entries[k].at + entries[k].len <= next
         /\ \A j, k \in 1 .. 3 : j < k => entries[j].at + entries[j].len <= entries[k].at
    BY <1>1, <2>1, <2>2, StateEntriesLie
  <2> HIDE DEF next, entries
  <2>11. Ordered(params, Written, Start, offset)'
    BY <1>1, <2>1, <2>2, <2>3, <2>4, <2>9, <2>10, OrderedGrows
  <2>12. ParamsInv'
    BY <2>2, <2>9, <2>11 DEF ParamsInv
  <2> QED BY <2>6, <2>7, <2>8, <2>12 DEF IInv
<1> QED BY <1>2, <1>3 DEF Transfer
-----------------------------------------------------------------------------
(* The theorems.                                                           *)

LEMMA NextInv ==
    ASSUME IInv, [Next]_vars
    PROVE  IInv'
<1>1. CASE UNCHANGED vars
  <2>1. UNCHANGED <<buf, offset, stage, type, addr, name, params, cur, todo, num, i>>
    BY <1>1 DEF vars, call, list, loop
  <2>2. Buffered' /\ Positions' = Positions /\ Start' = Start /\ Byte(size - 1)' = Byte(size - 1)
        /\ size' = size /\ (GasInRange' <=> GasInRange)
    BY <2>1, SameBuffer DEF IInv
  <2>3. TypeInv' /\ HeaderInv' /\ PayloadInv'
    BY <2>1, <2>2 DEF IInv, TypeInv, HeaderInv, PayloadInv, Working
  <2>4. TransferInv' /\ PairsInv'
    BY <2>1, <2>2 DEF IInv, TransferInv, PairsInv, Native
  <2>5. Working' = Working /\ Written' = Written
    BY <2>1 DEF Working, Written
  <2>6. ParamsInv'
    BY <2>1, <2>2, <2>5 DEF IInv, ParamsInv, CompositeLast, Ordered, IsEntry
  <2> QED BY <2>2, <2>3, <2>4, <2>6 DEF IInv
<1>2. CASE Next
  BY <1>2, HeaderStep, PayloadSizeStep, ContractStep, WasmMethodStep, MethodStep,
     StartTransfersStep, StartParamsStep, SimpleParamStep, OntIdStep, TransferStateParamStep,
     ListParamStep, StartPairsStep, PairKeyStep, RepeatedCountStep, PairAmountStep,
     EndPairsStep, EndParamsStep, TransferStep, EndTransfersStep, <1>1
  DEF Next, Ended
<1> QED BY <1>1, <1>2

LEMMA EntriesOrdered ==
    ASSUME IInv
    PROVE  \E n \in 0 .. PARAMETERS_MAX_NUM : Ordered(params, n, Start, offset)
BY WrittenFits DEF IInv, ParamsInv

LEMMA InvType == IInv => TypeOK
<1> SUFFICES ASSUME IInv PROVE TypeOK
  OBVIOUS
<1>1. PICK n \in 0 .. PARAMETERS_MAX_NUM : Ordered(params, n, Start, offset)
  BY EntriesOrdered
<1>2. PARAMETERS_MAX_NUM \in Nat /\ size \in Nat /\ Start \in Nat /\ offset \in Positions
  BY SizeAssumption, BytesRead, StartNat DEF IInv, TypeInv
<1>3. DOMAIN params \subseteq 0 .. PARAMETERS_MAX_NUM - 1
  BY <1>1, <1>2 DEF Ordered
<1>4. ASSUME NEW k \in DOMAIN params
      PROVE  /\ params[k].kind \in PARAM_KINDS
             /\ params[k].at \in Positions /\ params[k].len \in Nat
             /\ params[k].at + params[k].len \in Positions
  <2>1. IsEntry(params[k]) /\ params[k].at + params[k].len <= offset
    BY <1>1, <1>4 DEF Ordered
  <2> QED BY <1>2, <2>1 DEF IsEntry, Positions
<1> QED BY <1>3, <1>4 DEF IInv, TypeInv, TransferInv, TypeOK

LEMMA InvApart == IInv => ApartAndInOrder
<1> SUFFICES ASSUME IInv PROVE ApartAndInOrder
  OBVIOUS
<1>1. PICK n \in 0 .. PARAMETERS_MAX_NUM : Ordered(params, n, Start, offset)
  BY EntriesOrdered
<1> QED BY <1>1 DEF Ordered, Start, ApartAndInOrder

LEMMA InvFee == IInv => FeeFitsWord
<1> SUFFICES ASSUME IInv, stage \notin Statuses \cup {"header"}
             PROVE  gas_price * gas_limit < UINT64
  BY DEF FeeFitsWord
<1>1. GasInRange /\ HeaderLength <= size
  <2>1. GasInRange /\ HeaderLength <= offset
    BY DEF IInv, HeaderInv, Working
  <2>2. offset <= size /\ offset \in Nat /\ size \in Nat /\ HeaderLength \in Nat
    BY BytesRead, StartNat DEF IInv, TypeInv, Positions
  <2> QED BY <2>1, <2>2
<1>2. gas_price \in Nat /\ gas_limit \in Nat
  BY <1>1, GasNat DEF IInv
<1>3. gas_price # 0 /\ TOKEN_AMOUNT \in Nat /\ TOKEN_AMOUNT < UINT64 /\ UINT64 \in Nat
  BY <1>1, <1>2, SizeAssumption, WordAssumption DEF GasInRange
<1>4. gas_limit <= TOKEN_AMOUNT \div gas_price
  BY <1>1 DEF GasInRange
<1> DEFINE price == gas_price
           limit == gas_limit
<1>5. price \in Nat \ {0} /\ limit \in Nat /\ limit <= TOKEN_AMOUNT \div price
  BY <1>2, <1>3, <1>4
<1> HIDE DEF price, limit
<1>6. price * limit <= TOKEN_AMOUNT /\ price * limit \in Nat
  BY <1>3, <1>5, QuotientBounds
<1> QED BY <1>3, <1>6 DEF price, limit

THEOREM Invariance == Spec => []IInv
  BY InitInv, NextInv, PTL DEF Spec

\* Whatever the transaction, the parser reads no byte behind its end and writes
\* no entry behind the end of method.parameters (the loops in parse.c 97 to 133
\* and deserialize.c 344); every entry lies in the transaction.
THEOREM StaysInBounds == Spec => []TypeOK
  BY Invariance, InvType, PTL

\* No byte belongs to two entries, and entries come in the order of their indices.
THEOREM EntriesApart == Spec => []ApartAndInOrder
  BY Invariance, InvApart, PTL

\* The limits that the header is checked against keep the fee in a uint64_t.
THEOREM FeesFit == Spec => []FeeFitsWord
  BY Invariance, InvFee, PTL
-----------------------------------------------------------------------------
(***************************************************************************)
(* Parsing ends: whatever step the parser takes, fewer are left.  The      *)
(* argument is the invariant and, for each loop, the bytes that one round  *)
(* of it consumes.                                                         *)
(***************************************************************************)

Fewer == StepsLeft' < StepsLeft

-----------------------------------------------------------------------------
(* The measure at each stage.                                              *)

LEMMA StepsNow ==
    /\ stage \in Statuses => StepsLeft = 0
    /\ stage = "header" => StepsLeft = size - offset + 21
    /\ stage = "payload" => StepsLeft = size - offset + 20
    /\ stage = "contract" => StepsLeft = size - offset + 19
    /\ stage = "method" => StepsLeft = size - offset + 18
    /\ stage = "lookup" => StepsLeft = size - offset + 17
    /\ stage = "transfers" => StepsLeft = size - offset + 1
    /\ stage = "params" => StepsLeft = size - offset + 3 * Len(todo) + 1
    /\ stage = "keys" => StepsLeft = size - offset + 3 * Len(todo)
    /\ stage = "amounts" => StepsLeft = size - offset + 3 * Len(todo) - 1
BY DEF StepsLeft, Statuses, Early

LEMMA StepsThen ==
    /\ stage' \in Statuses => StepsLeft' = 0
    /\ stage' = "payload" => StepsLeft' = size' - offset' + 20
    /\ stage' = "contract" => StepsLeft' = size' - offset' + 19
    /\ stage' = "method" => StepsLeft' = size' - offset' + 18
    /\ stage' = "lookup" => StepsLeft' = size' - offset' + 17
    /\ stage' = "transfers" => StepsLeft' = size' - offset' + 1
    /\ stage' = "params" => StepsLeft' = size' - offset' + 3 * Len(todo') + 1
    /\ stage' = "keys" => StepsLeft' = size' - offset' + 3 * Len(todo')
    /\ stage' = "amounts" => StepsLeft' = size' - offset' + 3 * Len(todo') - 1
BY DEF StepsLeft, Statuses, Early

LEMMA Known ==
    ASSUME IInv
    PROVE  /\ Buffered /\ size \in Nat /\ offset \in Nat /\ offset <= size /\ offset \in Places
           /\ todo \in Seq(ParameterTypes) /\ Len(todo) \in Nat
<1>1. Buffered /\ size \in Nat
  BY BytesRead DEF IInv
<1> QED BY <1>1 DEF IInv, TypeInv, Positions, Places

\* As long as no status is reached, a step is left.
LEMMA SomeLeft ==
    ASSUME IInv, Working
    PROVE  StepsLeft \in Nat /\ 1 <= StepsLeft
<1>1. stage \in {"header", "payload", "contract", "method", "lookup", "params", "keys",
                 "amounts", "transfers"}
  BY DEF IInv, TypeInv, Stages, Working
<1>2. size - offset \in Nat /\ size \in Nat /\ offset \in Nat /\ Len(todo) \in Nat
  BY Known
<1>3. CASE stage \in {"header", "payload", "contract", "method", "lookup", "transfers"}
  BY <1>2, <1>3, StepsNow
<1>4. CASE stage = "params"
  BY <1>2, <1>4, StepsNow
<1>5. CASE stage \in {"keys", "amounts"}
  <2>1. 3 * Len(todo) = 3
    <3>1. Len(todo) = 1
      BY <1>5, AtPair
    <3> QED BY <3>1
  <2> DEFINE three == 3 * Len(todo)
  <2>2. StepsLeft = size - offset + three \/ StepsLeft = size - offset + three - 1
    BY <1>5, StepsNow
  <2> QED BY <1>2, <2>1, <2>2
<1> QED BY <1>1, <1>3, <1>4, <1>5

LEMMA StopEnds ==
    ASSUME IInv, Working, stage' \in Statuses
    PROVE  Fewer
BY SomeLeft, StepsThen DEF Fewer

LEMMA RefuseEnds ==
    ASSUME IInv, Working, Refuse
    PROVE  Fewer
BY StopEnds DEF Refuse, Stop, Statuses
-----------------------------------------------------------------------------
(* Header to method.                                                       *)

LEMMA Closer ==
    ASSUME NEW all \in Nat, NEW at \in Nat, NEW next \in Nat, at <= next,
           NEW m \in Nat, NEW n \in Nat, n < m
    PROVE  all - next + n < all - at + m
OBVIOUS

\* A step of these stages leads to the next, and the cursor does not go back.
LEMMA NextStage ==
    ASSUME IInv, buf' = buf, offset' \in Nat, offset <= offset',
           \/ stage = "header" /\ stage' = "payload"
           \/ stage = "payload" /\ stage' = "contract"
           \/ stage = "contract" /\ stage' = "method"
           \/ stage = "method" /\ stage' = "lookup"
           \/ stage = "lookup" /\ stage' = "transfers"
           \/ stage = "lookup" /\ stage' = "params" /\ Len(todo') \in 0 .. 5
    PROVE  Fewer
<1>1. size' = size /\ size \in Nat /\ offset \in Nat
  BY Known, SameBuffer
<1>2. ASSUME NEW m \in Nat, NEW n \in Nat, n < m,
             StepsLeft = size - offset + m, StepsLeft' = size' - offset' + n
      PROVE  Fewer
  <2>1. StepsLeft' = size - offset' + n
    BY <1>1, <1>2
  <2>2. size - offset' + n < size - offset + m
    BY <1>1, <1>2, Closer
  <2> QED BY <1>2, <2>1, <2>2 DEF Fewer
<1>3. CASE stage = "header" /\ stage' = "payload"
  BY <1>2, <1>3, StepsNow, StepsThen
<1>4. CASE stage = "payload" /\ stage' = "contract"
  BY <1>2, <1>4, StepsNow, StepsThen
<1>5. CASE stage = "contract" /\ stage' = "method"
  BY <1>2, <1>5, StepsNow, StepsThen
<1>6. CASE stage = "method" /\ stage' = "lookup"
  BY <1>2, <1>6, StepsNow, StepsThen
<1>7. CASE stage = "lookup" /\ stage' = "transfers"
  BY <1>2, <1>7, StepsNow, StepsThen
<1>8. CASE stage = "lookup" /\ stage' = "params" /\ Len(todo') \in 0 .. 5
  <2> DEFINE n == 3 * Len(todo') + 1
  <2>1. n \in Nat /\ n < 17
    <3>1. \A k \in 0 .. 5 : 3 * k + 1 \in Nat /\ 3 * k + 1 < 17
      OBVIOUS
    <3> QED BY <1>8, <3>1
  <2>2. StepsLeft = size - offset + 17 /\ StepsLeft' = size' - offset' + n
    <3>1. StepsLeft' = size' - offset' + 3 * Len(todo') + 1
      BY <1>8, StepsThen
    <3>2. size' - offset' \in Int
      BY <1>1
    <3> QED BY <1>8, <2>1, <3>1, <3>2, StepsNow
  <2> HIDE DEF n
  <2> QED BY <1>2, <2>1, <2>2
<1> QED BY <1>3, <1>4, <1>5, <1>6, <1>7, <1>8

LEMMA HeaderEnds ==
    ASSUME IInv, Header
    PROVE  Fewer
<1>1. Working /\ stage = "header" /\ offset = 0
  BY DEF Header, Working, Statuses, IInv, PayloadInv
<1>2. CASE Stop("PARSING_LENGTH_WRONG") \/ Refuse
  BY <1>1, <1>2, StopEnds, RefuseEnds DEF Stop, Statuses
<1>3. CASE Skip("payload", HeaderLength)
  <2>1. buf' = buf /\ stage' = "payload" /\ offset' = HeaderLength
    BY <1>3 DEF Skip, GoTo
  <2>2. offset' \in Nat /\ offset <= offset'
    BY <1>1, <2>1, StartNat
  <2> QED BY <1>1, <2>1, <2>2, NextStage
<1> QED BY <1>2, <1>3 DEF Header

LEMMA PayloadSizeEnds ==
    ASSUME IInv, PayloadSize
    PROVE  Fewer
<1>1. Working /\ stage = "payload" /\ offset = HeaderLength
  BY DEF PayloadSize, Working, Statuses, IInv, PayloadInv
<1>2. CASE Refuse \/ Stop("PARSING_LENGTH_WRONG")
  BY <1>1, <1>2, StopEnds, RefuseEnds DEF Stop, Statuses
<1>3. CASE Skip("contract", PayloadAt(offset))
  <2>1. buf' = buf /\ stage' = "contract" /\ offset' = Start
    BY <1>1, <1>3 DEF Skip, GoTo, Start
  <2>2. Width(Byte(HeaderLength)) \in Nat
    <3>1. U16 \in Nat /\ U32 \in Nat /\ U64 \in Nat
      BY SizeAssumption, WordAssumption
    <3> QED BY <3>1 DEF Width
  <2>3. Start \in Nat /\ HeaderLength \in Nat /\ HeaderLength <= Start
    BY <2>2, StartNat DEF Start, PayloadAt
  <2> QED BY <1>1, <2>1, <2>3, NextStage
<1> QED BY <1>2, <1>3 DEF PayloadSize

LEMMA ContractEnds ==
    ASSUME IInv, Contract
    PROVE  Fewer
<1>1. Working /\ stage = "contract"
  BY DEF Contract, Working, Statuses
<1>2. CASE Refuse
  BY <1>1, <1>2, RefuseEnds
<1>3. ASSUME NEW t, NEW at, NEW next, SetContract(t, at, next),
             next = offset \/ next = offset + ADDRESS_SCRIPT_HASH_LEN
      PROVE  Fewer
  <2>1. buf' = buf /\ stage' = "method" /\ offset' = next
    BY <1>3 DEF SetContract, GoTo
  <2>2. offset' \in Nat /\ offset <= offset'
    BY <1>3, <2>1, Known, SizeAssumption
  <2> QED BY <1>1, <2>1, <2>2, NextStage
<1> QED BY <1>2, <1>3 DEF Contract

LEMMA WasmMethodEnds ==
    ASSUME IInv, WasmMethod
    PROVE  Fewer
<1>1. Working /\ stage = "method" /\ Buffered
  BY DEF WasmMethod, Working, Statuses, IInv
<1>2. CASE Refuse
  BY <1>1, <1>2, RefuseEnds
<1> DEFINE at   == offset + 1
           next == parse_method_name(at)
<1>3. CASE buffer_can_read(offset, 1) /\ Found(next) /\ SetMethod(at, next)
  <2>1. at \in Places /\ at \in Nat /\ offset \in Nat /\ offset <= at
    BY <1>3, Known DEF Places, buffer_can_read
  <2>2. buf' = buf /\ stage' = "lookup" /\ offset' = next
    BY <1>3 DEF SetMethod, GoTo
  <2> HIDE DEF at
  <2>3. next = at + 1 + Byte(at) /\ Byte(at) \in 1 .. 255
    BY <1>1, <1>3, <2>1, NameReads
  <2> HIDE DEF next
  <2>4. offset' \in Nat /\ offset <= offset'
    BY <2>1, <2>2, <2>3
  <2> QED BY <1>1, <2>2, <2>4, NextStage
<1> QED BY <1>2, <1>3 DEF WasmMethod

LEMMA MethodEnds ==
    ASSUME IInv, Method
    PROVE  Fewer
<1>1. Working /\ stage = "method"
  BY DEF Method, Working, Statuses
<1>2. CASE Refuse
  BY <1>1, <1>2, RefuseEnds
<1>3. CASE SetMethod(MethodAt, offset)
  <2>1. buf' = buf /\ stage' = "lookup" /\ offset' = offset
    BY <1>3 DEF SetMethod, GoTo
  <2> QED BY <1>1, <2>1, Known, NextStage
<1> QED BY <1>2, <1>3 DEF Method

LEMMA StartTransfersEnds ==
    ASSUME IInv, StartTransfers
    PROVE  Fewer
<1>1. stage = "lookup" /\ buf' = buf /\ stage' = "transfers" /\ offset' = offset
  BY DEF StartTransfers, GoTo
<1> QED BY <1>1, Known, NextStage

LEMMA StartParamsEnds ==
    ASSUME IInv, StartParams
    PROVE  Fewer
<1>1. stage = "lookup" /\ Working
  BY DEF StartParams, Working, Statuses
<1> DEFINE begun == parse_check_constant(offset, OPCODE_ST_BEGIN)
           at    == IF Native THEN begun ELSE offset
<1>2. CASE Refuse \/ Stop("PARSING_TX_NOT_DEFINED")
  BY <1>1, <1>2, StopEnds, RefuseEnds DEF Stop, Statuses
<1>3. CASE /\ Found(at) /\ KnownMethod # {} /\ todo' = Signature(TheContract, TheMethod)
           /\ GoTo("params", at) /\ buf' = buf
  <2>1. buf' = buf /\ stage' = "params" /\ offset' = at /\ Len(todo') \in 0 .. 5
    BY <1>3, TheTable, SignaturesShort DEF GoTo
  <2>2. Found(begun) => begun = offset + 3
    BY Known, ConstantLengths, ConstantReads
  <2> HIDE DEF begun
  <2>3. at = offset \/ at = offset + 3
    BY <1>3, <2>2
  <2> HIDE DEF at
  <2>4. offset' \in Nat /\ offset <= offset'
    BY <2>1, <2>3, Known
  <2> QED BY <1>1, <2>1, <2>4, NextStage
<1> QED BY <1>2, <1>3 DEF StartParams
-----------------------------------------------------------------------------
(* The parameters.                                                         *)

\* A parameter has been parsed, if the cursor does not go back.
LEMMA OneLess ==
    ASSUME IInv, stage = "params", stage' = "params", buf' = buf, offset' \in Nat,
           offset <= offset', todo # <<>>, todo' = Tail(todo)
    PROVE  Fewer
<1>1. size' = size /\ size \in Nat /\ offset \in Nat /\ todo \in Seq(ParameterTypes)
  BY Known, SameBuffer
<1>2. Len(todo') = Len(todo) - 1 /\ Len(todo) \in Nat
  BY <1>1
<1> QED BY <1>1, <1>2, StepsNow, StepsThen DEF Fewer

\* A closed parameter ends behind its start if its parts do.
LEMMA ClosedPosition ==
    ASSUME Buffered, NEW at \in Nat, NEW end \in Places, Found(end) => at <= end,
           Found(Closed(end))
    PROVE  Closed(end) \in Nat /\ at <= Closed(end)
<1> DEFINE next == Closed(end)
<1>1. next \in Places /\ end <= next
  BY EndReads
<1> HIDE DEF next
<1>2. next \in Positions /\ next \in Nat /\ end \in Nat /\ size \in Nat
  BY <1>1, FoundPosition, BytesRead DEF next, Places
<1>3. Found(end)
  BY <1>1, <1>2 DEF Positions, Found
<1> QED BY <1>1, <1>2, <1>3 DEF next

LEMMA SimpleParamEnds ==
    ASSUME IInv, SimpleParam
    PROVE  Fewer
<1> DEFINE kind  == Head(todo)
           end   == SimpleEnd(kind, offset)
           next  == Closed(end)
<1>1. NextIs(SimpleKinds) /\ kind \in SimpleKinds
  BY DEF SimpleParam, NextIs
<1>2. CASE Refuse
  BY <1>1, <1>2, RefuseEnds, AtParam
<1>3. CASE Found(next) /\ todo' = Tail(todo) /\ GoTo("params", next) /\ buf' = buf
  <2>1. buf' = buf /\ stage' = "params" /\ offset' = next /\ todo' = Tail(todo) /\ Found(next)
    BY <1>3 DEF GoTo
  <2>2. Buffered /\ offset \in Places /\ offset \in Nat /\ stage = "params" /\ todo # <<>>
    BY <1>1, AtParam
  <2>3. end \in Places /\ (Found(end) => offset <= end)
    <3> DEFINE entry == SimpleEntry(kind, offset)
    <3>1. /\ end \in Places
          /\ Found(end) => IsEntry(entry) /\ offset <= entry.at /\ entry.at + entry.len <= end
      BY <1>1, <2>2, SimpleReads
    <3>2. end \in Nat
      BY <2>2, <3>1, BytesRead DEF Places
    <3> HIDE DEF end, entry
    <3> QED BY <2>2, <3>1, <3>2 DEF IsEntry
  <2> HIDE DEF end
  <2>4. next \in Nat /\ offset <= next
    BY <2>1, <2>2, <2>3, ClosedPosition
  <2> QED BY <2>1, <2>2, <2>4, OneLess
<1> QED BY <1>2, <1>3 DEF SimpleParam

LEMMA OntIdEnds ==
    ASSUME IInv, OntId
    PROVE  Fewer
<1> DEFINE end  == parse_ont_id(offset)
           next == Closed(end)
<1>1. NextIs({"ONTID"})
  BY DEF OntId
<1>2. CASE Refuse
  BY <1>1, <1>2, RefuseEnds, AtParam
<1>3. CASE Found(next) /\ todo' = Tail(todo) /\ GoTo("params", next) /\ buf' = buf
  <2>1. buf' = buf /\ stage' = "params" /\ offset' = next /\ todo' = Tail(todo) /\ Found(next)
    BY <1>3 DEF GoTo
  <2>2. Buffered /\ offset \in Places /\ offset \in Nat /\ stage = "params" /\ todo # <<>>
    BY <1>1, AtParam
  <2>3. end \in Places /\ (Found(end) => offset <= end)
    BY <2>2, IdentityReads
  <2> HIDE DEF end
  <2>4. next \in Nat /\ offset <= next
    BY <2>1, <2>2, <2>3, ClosedPosition
  <2> QED BY <2>1, <2>2, <2>4, OneLess
<1> QED BY <1>2, <1>3 DEF OntId

\* A transfer takes bytes.
LEMMA StateAdvances ==
    ASSUME Buffered, NEW at \in Places
    PROVE  /\ StateEnd(at) \in Places
           /\ Found(StateEnd(at)) => at < StateEnd(at)
<1> DEFINE from == StateFrom(at)
           to   == StateTo(at)
           amount == StateAmount(at)
           behind == parse_amount(amount)
           end    == StateEnd(at)
           hash   == ADDRESS_SCRIPT_HASH_LEN
<1>1. /\ end \in Places /\ end \in Nat /\ at \in Nat /\ hash \in Nat
  BY StateReads, BytesRead, SizeAssumption DEF Places
<1>2. Found(end) =>
          /\ from \in Nat /\ to \in Nat /\ amount \in Nat /\ behind \in Nat
          /\ at <= from /\ from + 1 + hash <= to /\ to + 1 + hash <= amount
          /\ amount <= behind /\ behind < end
  BY StateReads
<1> HIDE DEF from, to, amount, behind, end, hash
<1> QED BY <1>1, <1>2 DEF end

LEMMA TransferStateParamEnds ==
    ASSUME IInv, TransferStateParam
    PROVE  Fewer
<1> DEFINE end  == StateEnd(offset)
           next == Closed(end)
<1>1. NextIs({"TRANSFER_STATE"})
  BY DEF TransferStateParam
<1>2. CASE Refuse
  BY <1>1, <1>2, RefuseEnds, AtParam
<1>3. CASE Found(next) /\ todo' = Tail(todo) /\ GoTo("params", next) /\ buf' = buf
  <2>1. buf' = buf /\ stage' = "params" /\ offset' = next /\ todo' = Tail(todo) /\ Found(next)
    BY <1>3 DEF GoTo
  <2>2. Buffered /\ offset \in Places /\ offset \in Nat /\ stage = "params" /\ todo # <<>>
    BY <1>1, AtParam
  <2>3. end \in Places /\ end \in Nat /\ (Found(end) => offset < end)
    BY <2>2, StateAdvances, BytesRead DEF Places
  <2> HIDE DEF end
  <2>4. Found(end) => offset <= end
    BY <2>2, <2>3
  <2>5. next \in Nat /\ offset <= next
    BY <2>1, <2>2, <2>3, <2>4, ClosedPosition
  <2> QED BY <2>1, <2>2, <2>5, OneLess
<1> QED BY <1>2, <1>3 DEF TransferStateParam
-----------------------------------------------------------------------------
(* A list of pairs, and the transfers.                                     *)

\* The steps of a list of pairs; its rounds take bytes.
LEMMA PairsAdvance ==
    ASSUME IInv, buf' = buf, offset' \in Nat, offset <= offset',
           \/ stage = "params" /\ stage' = "keys" /\ todo' = todo
           \/ stage = "keys" /\ stage' = "keys" /\ todo' = todo /\ offset < offset'
           \/ stage = "keys" /\ stage' = "amounts" /\ todo' = todo
           \/ stage = "amounts" /\ stage' = "amounts" /\ todo' = todo /\ offset < offset'
    PROVE  Fewer
<1>1. size' = size /\ size \in Nat /\ offset \in Nat /\ Len(todo) \in Nat
  BY Known, SameBuffer
<1>2. CASE stage = "params" /\ stage' = "keys" /\ todo' = todo
  BY <1>1, <1>2, StepsNow, StepsThen DEF Fewer
<1>3. CASE stage = "keys" /\ stage' = "keys" /\ todo' = todo /\ offset < offset'
  BY <1>1, <1>3, StepsNow, StepsThen DEF Fewer
<1>4. CASE stage = "keys" /\ stage' = "amounts" /\ todo' = todo
  BY <1>1, <1>4, StepsNow, StepsThen DEF Fewer
<1>5. CASE stage = "amounts" /\ stage' = "amounts" /\ todo' = todo /\ offset < offset'
  BY <1>1, <1>5, StepsNow, StepsThen DEF Fewer
<1> QED BY <1>2, <1>3, <1>4, <1>5

\* What stands in front of the constant that ends a parameter.
LEMMA EndPosition ==
    ASSUME Buffered, NEW end \in Places, Found(EndParam(end))
    PROVE  EndParam(end) \in Nat /\ EndParam(end) = end + 3 /\ Found(end) /\ end \in Nat
<1> DEFINE next == EndParam(end)
<1>1. next \in Places /\ next = end + 3
  BY EndReads
<1> HIDE DEF next
<1>2. next \in Positions /\ next \in Nat /\ end \in Nat /\ size \in Nat
  BY <1>1, FoundPosition, BytesRead DEF next, Places
<1>3. Found(end)
  BY <1>1, <1>2 DEF Positions, Found
<1> QED BY <1>1, <1>2, <1>3 DEF next

LEMMA StartPairsEnds ==
    ASSUME IInv, StartPairs
    PROVE  Fewer
<1> DEFINE end  == parse_amount(offset)
           next == EndParam(end)
<1>1. NextIs({"PK_AMOUNT_PAIRS"})
  BY DEF StartPairs
<1>2. CASE Refuse
  BY <1>1, <1>2, RefuseEnds, AtParam
<1>3. CASE PairsFit(offset) /\ GoTo("keys", next) /\ UNCHANGED <<buf, todo>>
  <2>1. UNCHANGED <<buf, todo>> /\ stage' = "keys" /\ offset' = next /\ Found(next)
    BY <1>3 DEF GoTo, PairsFit
  <2>2. Buffered /\ offset \in Places /\ offset \in Nat /\ stage = "params"
    BY <1>1, AtParam
  <2>3. end \in Places /\ (Found(end) => offset + 1 <= end)
    BY <2>2, AmountReads
  <2> HIDE DEF end
  <2>4. next \in Nat /\ next = end + 3 /\ Found(end) /\ end \in Nat
    BY <2>1, <2>2, <2>3, EndPosition
  <2> HIDE DEF next
  <2>5. offset' \in Nat /\ offset <= offset'
    BY <2>1, <2>2, <2>3, <2>4
  <2> QED BY <2>1, <2>2, <2>5, PairsAdvance
<1> QED BY <1>2, <1>3 DEF StartPairs, list

LEMMA PairKeyEnds ==
    ASSUME IInv, PairKey
    PROVE  Fewer
<1> DEFINE next == EndParam(parse_pk(offset))
<1>1. stage = "keys" /\ Buffered /\ offset \in Places /\ offset \in Nat
  BY Known DEF PairKey
<1>2. CASE Refuse
  BY <1>1, <1>2, RefuseEnds, AtPair
<1>3. CASE Found(next) /\ GoTo("keys", next) /\ UNCHANGED <<buf, todo>>
  <2>1. UNCHANGED <<buf, todo>> /\ stage' = "keys" /\ offset' = next
    BY <1>3 DEF GoTo
  <2>2. next = offset + KeySpace
    BY <1>1, <1>3, KeyLies
  <2> HIDE DEF next
  <2>3. KeySpace \in Nat /\ KeySpace >= 4
    BY SizeAssumption DEF KeySpace
  <2>4. offset' \in Nat /\ offset < offset'
    BY <1>1, <2>1, <2>2, <2>3
  <2> QED BY <1>1, <2>1, <2>4, PairsAdvance
<1> QED BY <1>2, <1>3 DEF PairKey

LEMMA RepeatedCountEnds ==
    ASSUME IInv, RepeatedCount
    PROVE  Fewer
<1> DEFINE end  == parse_check_amount(offset, num)
           next == EndParam(end)
<1>1. stage = "keys" /\ Buffered /\ offset \in Places /\ offset \in Nat
  BY Known DEF RepeatedCount
<1>2. CASE Refuse
  BY <1>1, <1>2, RefuseEnds, AtPair
<1>3. CASE Found(next) /\ GoTo("amounts", next) /\ UNCHANGED <<buf, list>>
  <2>1. UNCHANGED <<buf, todo>> /\ stage' = "amounts" /\ offset' = next /\ Found(next)
    BY <1>3 DEF GoTo, list
  <2>2. end \in Places /\ (Found(end) => offset <= end)
    BY <1>1, CheckAmountReads
  <2> HIDE DEF end
  <2>3. next \in Nat /\ next = end + 3 /\ Found(end) /\ end \in Nat
    BY <1>1, <2>1, <2>2, EndPosition
  <2> HIDE DEF next
  <2>4. offset' \in Nat /\ offset <= offset'
    BY <1>1, <2>1, <2>2, <2>3
  <2> QED BY <1>1, <2>1, <2>4, PairsAdvance
<1> QED BY <1>2, <1>3 DEF RepeatedCount

LEMMA PairAmountEnds ==
    ASSUME IInv, PairAmount
    PROVE  Fewer
<1> DEFINE end  == parse_amount(offset)
           next == IF i # num THEN EndParam(end) ELSE end
<1>1. stage = "amounts" /\ Buffered /\ offset \in Places /\ offset \in Nat
  BY Known DEF PairAmount
<1>2. CASE Refuse
  BY <1>1, <1>2, RefuseEnds, AtPair
<1>3. CASE Found(next) /\ GoTo("amounts", next) /\ UNCHANGED <<buf, todo>>
  <2>1. UNCHANGED <<buf, todo>> /\ stage' = "amounts" /\ offset' = next /\ Found(next)
    BY <1>3 DEF GoTo
  <2>2. end \in Places /\ end \in Nat /\ (Found(end) => offset + 1 <= end)
    BY <1>1, AmountReads, BytesRead DEF Places
  <2> HIDE DEF end
  <2>3. next \in Nat /\ end <= next /\ Found(end)
    <3>1. CASE i # num
      BY <1>1, <2>1, <2>2, <3>1, EndPosition
    <3>2. CASE i = num
      BY <2>1, <2>2, <3>2
    <3> QED BY <3>1, <3>2
  <2> HIDE DEF next
  <2>4. offset' \in Nat /\ offset < offset'
    BY <1>1, <2>1, <2>2, <2>3
  <2> QED BY <1>1, <2>1, <2>4, PairsAdvance
<1> QED BY <1>2, <1>3 DEF PairAmount

LEMMA EndPairsEnds ==
    ASSUME IInv, EndPairs
    PROVE  Fewer
<1> DEFINE next == Closed(offset)
<1>1. stage = "amounts" /\ Buffered /\ offset \in Places /\ offset \in Nat /\ size \in Nat
  BY Known DEF EndPairs
<1>2. CASE Refuse
  BY <1>1, <1>2, RefuseEnds, AtPair
<1>3. CASE Found(next) /\ todo' = Tail(todo) /\ GoTo("params", next) /\ buf' = buf
  <2>1. buf' = buf /\ stage' = "params" /\ offset' = next /\ todo' = Tail(todo) /\ Found(next)
    BY <1>3 DEF GoTo
  <2>2. offset' \in Nat /\ offset <= offset' /\ size' = size
    <3>1. offset <= offset
      BY <1>1
    <3> QED BY <1>1, <2>1, <3>1, ClosedPosition, SameBuffer
  <2>3. Len(todo) = 1 /\ todo \in Seq(ParameterTypes)
    BY <1>1, AtPair, Known
  <2>4. Len(todo') = 0
    BY <2>1, <2>3
  <2> DEFINE before == 3 * Len(todo)
             after  == 3 * Len(todo')
             all    == size
             there  == offset'
  <2>5. StepsLeft = all - offset + before - 1 /\ StepsLeft' = all - there + after + 1
    BY <1>1, <2>1, <2>2, StepsNow, StepsThen
  <2>6. before = 3 /\ after = 0 /\ all \in Nat /\ there \in Nat /\ offset <= there
    BY <1>1, <2>2, <2>3, <2>4
  <2> HIDE DEF before, after, all, there
  <2>7. all - there + after + 1 < all - offset + before - 1
    BY <1>1, <2>6
  <2> QED BY <2>5, <2>7 DEF Fewer
<1> QED BY <1>2, <1>3 DEF EndPairs

LEMMA CloseEnds ==
    ASSUME IInv, Working, NEW at, Close(at)
    PROVE  Fewer
<1>1. CASE Refuse
  BY <1>1, RefuseEnds
<1>2. CASE Skip(Measured(at), at)
  <2>1. stage' \in Statuses
    BY <1>2 DEF Skip, GoTo, Measured, Statuses
  <2> QED BY <2>1, StopEnds
<1> QED BY <1>1, <1>2 DEF Close

LEMMA TransferEnds ==
    ASSUME IInv, Transfer
    PROVE  Fewer
<1>1. stage = "transfers" /\ Working
  BY DEF Transfer, Working, Statuses
<1>2. CASE Refuse
  BY <1>1, <1>2, RefuseEnds
<1>3. CASE Found(StateEnd(offset)) /\ GoTo("transfers", StateEnd(offset)) /\ buf' = buf
  <2> DEFINE next == StateEnd(offset)
  <2>1. stage' = "transfers" /\ offset' = next /\ size' = size
    BY <1>3, SameBuffer DEF GoTo
  <2>2. next \in Nat /\ offset < next /\ size \in Nat /\ offset \in Nat
    BY <1>3, Known, StateAdvances, FoundPosition
  <2> HIDE DEF next
  <2> QED BY <1>1, <2>1, <2>2, StepsNow, StepsThen DEF Fewer
<1> QED BY <1>2, <1>3 DEF Transfer
-----------------------------------------------------------------------------

LEMMA EveryStepEnds ==
    ASSUME IInv, [Next]_vars
    PROVE  [Fewer]_vars
<1>1. CASE UNCHANGED vars
  BY <1>1
<1>2. CASE ListParam
  BY <1>2, RefuseEnds, AtParam DEF ListParam
<1>3. CASE EndParams
  BY <1>3, CloseEnds DEF EndParams, Working, Statuses
<1>4. CASE EndTransfers
  BY <1>4, CloseEnds DEF EndTransfers, Working, Statuses
<1>5. CASE Next
  BY <1>1, <1>2, <1>3, <1>4, <1>5, HeaderEnds, PayloadSizeEnds, ContractEnds, WasmMethodEnds,
     MethodEnds, StartTransfersEnds, StartParamsEnds, SimpleParamEnds, OntIdEnds,
     TransferStateParamEnds, StartPairsEnds, PairKeyEnds, RepeatedCountEnds, PairAmountEnds,
     EndPairsEnds, TransferEnds
  DEF Next, Ended
<1> QED BY <1>1, <1>5

\* Every step of the parser leaves fewer to be taken, whatever numbers and lengths
\* the host has sent (the loops of parse.c 97 to 133 and 213 to 268 and of
\* deserialize.c 342 to 349), so that every transaction gets its status.
THEOREM EveryTransactionEnds == Spec => ParsingEnds
<1>1. IInv /\ [Next]_vars => [Fewer]_vars
  BY EveryStepEnds
<1> QED BY <1>1, Invariance, PTL DEF Spec, ParsingEnds, Fewer
-----------------------------------------------------------------------------
(* What the entries are.                                                   *)

\* The entries of p are of these kinds.
Reads(kinds, p) == \A k \in 1 .. Len(kinds) : p[k - 1].kind = kinds[k]

\* A number is as long as its first byte says; parse_amount and parse_uint128.
InForm(e) ==
    /\ e.kind = "AMOUNT"  =>
           AmountStarts(Byte(e.at)) /\ e.len = AmountLength(Byte(e.at)) /\ e.len # 0
    /\ e.kind = "UINT128" => e.len = 2 * U64

Sig == Signature(TheContract, TheMethod)

Done == Len(Sig) - Len(todo)

KindsDone == Joins(Parts(TheContract, TheMethod, num))[Done]

\* What is left of the signature is todo.
AtSignature ==
    /\ KnownMethod # {} /\ ~IsTransferList
    /\ Len(todo) <= Len(Sig)
    /\ \A k \in 1 .. Len(todo) : todo[k] = Sig[Done + k]

\* The number of peers is what the second entry says.
Counted == convert_param_to_uint64_le(Content(1)) /\ AsUint64(Content(1)) = num

\* A list of peers, with keys and amounts read up to the loop's variable.
PeersSoFar(keys, amounts) ==
    /\ TheMethod \in PeerMethods /\ cur = 1 /\ Counted
    /\ params[0].kind = "ADDR" /\ params[1].kind = "AMOUNT"
    /\ \A k \in 1 .. keys : params[1 + k].kind = "PUBKEY"
    /\ \A k \in 1 .. amounts : params[1 + num + k].kind = "AMOUNT"

Typed == {"method", "lookup", "params", "keys", "amounts", "transfers", "PARSING_OK",
          "PARSING_TX_NOT_DEFINED"}

AtStart == {"header", "payload", "contract", "method", "lookup"}

CalledInv ==
    /\ stage \in Typed => type \in ContractTypes
    /\ \A k \in DOMAIN params : InForm(params[k])
    /\ stage \in AtStart => num = 0

ParamsRead ==
    stage = "params" =>
        /\ AtSignature /\ num <= PARAMETERS_MAX_NUM
        /\ Len(KindsDone) = cur /\ Reads(KindsDone, params)
        /\ TheMethod \in PeerMethods /\ todo = <<>> => Counted

PeersRead ==
    /\ stage \in {"keys", "amounts"} => AtSignature
    /\ stage = "keys" => PeersSoFar(i - 1, 0)
    /\ stage = "amounts" => PeersSoFar(num, i - 1)

TransfersRead ==
    stage = "transfers" =>
        IsTransferList /\ cur = 3 * i /\ \A k \in 0 .. cur - 1 : params[k].kind = KindInList(k)

AllRead ==
    Accepted =>
        LET kinds == AllEntries(TheContract, TheMethod, Number)
        IN  /\ KnownMethod # {} /\ Number \in 0 .. PARAMETERS_MAX_NUM
            /\ DOMAIN params = 0 .. cur - 1
            /\ Len(kinds) = cur /\ Reads(kinds, params)
            /\ TheMethod \in PeerMethods => Counted /\ Number = num

KInv == CalledInv /\ ParamsRead /\ PeersRead /\ TransfersRead /\ AllRead
-----------------------------------------------------------------------------

\* What the tables say of a call stays with its bytes.
SameCall == UNCHANGED <<buf, type, addr, name>>

LEMMA SameTable ==
    ASSUME SameCall
    PROVE  /\ TheContract' = TheContract /\ TheMethod' = TheMethod
           /\ KnownMethod' = KnownMethod /\ (IsTransferList' <=> IsTransferList) /\ Sig' = Sig
           /\ type' = type /\ buf' = buf
<1>1. buf' = buf /\ type' = type /\ addr' = addr /\ name' = name
  BY DEF SameCall
<1>2. KnownContract' = KnownContract
  BY <1>1 DEF KnownContract, Slice
<1>3. KnownMethod' = KnownMethod
  BY <1>1, <1>2 DEF KnownMethod, Slice
<1>4. TheContract' = TheContract /\ TheMethod' = TheMethod
  BY <1>2, <1>3 DEF TheContract, TheMethod
<1> QED BY <1>1, <1>2, <1>3, <1>4 DEF IsTransferList, Native, Sig

\* A list of transfers is one of a native token's.
LEMMA TransferTable ==
    ASSUME IsTransferList
    PROVE  KnownMethod # {} /\ TheContract \in {"ONT", "ONG"} /\ TheMethod \in TransferMethods
<1>1. PICK m \in KnownMethod : m \in TransferMethods
  BY DEF IsTransferList
<1>2. KnownContract \subseteq Contracts
  BY DEF KnownContract
<1>3. KnownMethod \subseteq KnownNames
  BY <1>2 DEF KnownMethod, KnownNames
<1>4. PICK c \in KnownContract : m \in Methods(c)
  BY <1>1 DEF KnownMethod
<1>5. TheContract \in KnownContract
  BY <1>2, <1>4 DEF TheContract
<1>6. TheMethod \in KnownMethod
  BY <1>1, <1>3 DEF TheMethod
<1>7. TheMethod = m
  BY <1>1, <1>3, <1>6, TableAssumption DEF KnownMethod
<1> QED BY <1>1, <1>5, <1>7 DEF IsTransferList

\* Entries written behind others leave those as they are.
Extended(n, entries, m) ==
    /\ DOMAIN params' = 0 .. n + m - 1
    /\ \A k \in 0 .. n - 1 : params'[k] = params[k]
    /\ \A k \in 1 .. m : params'[n + k - 1] = entries[k]

LEMMA WrittenKeeps ==
    ASSUME NEW n \in Nat, NEW entries, NEW m \in Nat, Len(entries) = m,
           DOMAIN params = 0 .. n - 1, Write(n, entries)
    PROVE  Extended(n, entries, m)
<1>1. DOMAIN params' = 0 .. n + m - 1
  BY DEF Write
<1>2. \A k \in 0 .. n + m - 1 :
          params'[k] = IF k \in n .. n + m - 1 THEN entries[k - n + 1] ELSE params[k]
  BY DEF Write
<1>3. \A k \in 0 .. n - 1 : params'[k] = params[k]
  BY <1>2
<1>4. ASSUME NEW k \in 1 .. m PROVE params'[n + k - 1] = entries[k]
  <2>1. n + k - 1 \in n .. n + m - 1 /\ n + k - 1 \in 0 .. n + m - 1 /\ (n + k - 1) - n + 1 = k
    OBVIOUS
  <2> QED BY <1>2, <2>1
<1> QED BY <1>1, <1>3, <1>4 DEF Extended

LEMMA FormKept ==
    ASSUME buf' = buf, params' = params, CalledInv
    PROVE  \A k \in DOMAIN params' : InForm(params[k])'
BY DEF CalledInv, InForm, Byte

LEMMA FormGrows ==
    ASSUME buf' = buf, CalledInv, NEW n \in Nat, NEW entries, NEW m \in Nat, Len(entries) = m,
           DOMAIN params = 0 .. n - 1, Write(n, entries), \A k \in 1 .. m : InForm(entries[k])
    PROVE  \A k \in DOMAIN params' : InForm(params[k])'
<1>1. /\ DOMAIN params' = 0 .. n + m - 1
      /\ \A k \in 0 .. n - 1 : params'[k] = params[k]
      /\ \A k \in 1 .. m : params'[n + k - 1] = entries[k]
  <2>1. Extended(n, entries, m)
    BY WrittenKeeps
  <2> QED BY <2>1 DEF Extended
<1> SUFFICES ASSUME NEW k \in 0 .. n + m - 1 PROVE InForm(params[k])'
  BY <1>1
<1>2. CASE k < n
  <2>1. k \in 0 .. n - 1 /\ k \in DOMAIN params
    BY <1>2
  <2> QED BY <1>1, <2>1 DEF CalledInv, InForm, Byte
<1>3. CASE n <= k
  <2> DEFINE j == k - n + 1
  <2>1. j \in 1 .. m /\ n + j - 1 = k
    BY <1>3
  <2> HIDE DEF j
  <2>2. params'[k] = entries[j] /\ InForm(entries[j])
    BY <1>1, <2>1
  <2> QED BY <2>2 DEF InForm, Byte
<1> QED BY <1>2, <1>3

\* The code's working order: entries are written up to Written.
LEMMA EntriesWritten ==
    ASSUME IInv, Working
    PROVE  DOMAIN params = 0 .. Written - 1 /\ Written \in Nat
<1>1. Written \in 0 .. PARAMETERS_MAX_NUM /\ PARAMETERS_MAX_NUM \in Nat
  BY WrittenFits, SizeAssumption
<1> QED BY <1>1 DEF IInv, ParamsInv, Ordered
-----------------------------------------------------------------------------

LEMMA AmountInForm ==
    ASSUME Buffered, NEW at \in Places, Found(parse_amount(at))
    PROVE  InForm(AmountEntry(at))
<1>1. size \in Nat /\ at \in Nat /\ (at < size => Byte(at) \in Nat)
  BY BytesRead DEF Places, Bytes
<1>2. buffer_can_read(at, 1) /\ AmountStarts(Byte(at))
  BY <1>1 DEF parse_amount, Past, Found
<1>3. parse_amount(at) = buffer_seek_cur(at, AmountLength(Byte(at)))
  BY <1>2 DEF parse_amount
<1> DEFINE n == AmountLength(Byte(at))
<1>4. n \in Nat /\ n # 0
  BY <1>1, <1>2 DEF buffer_can_read, AmountLength
<1> HIDE DEF n
<1>5. parse_amount(at) = at + n
  BY <1>3, <1>4, SeekReads DEF n
<1>6. parse_amount(at) - at = n
  BY <1>1, <1>4, <1>5
<1> QED BY <1>2, <1>4, <1>6 DEF InForm, AmountEntry, Entry, n

LEMMA SimpleInForm ==
    ASSUME Buffered, NEW at \in Places, NEW kind \in SimpleKinds, Found(SimpleEnd(kind, at))
    PROVE  InForm(SimpleEntry(kind, at)) /\ SimpleEntry(kind, at).kind = kind
<1>1. CASE kind = "AMOUNT"
  BY <1>1, AmountInForm DEF SimpleEnd, SimpleEntry, AmountEntry, Entry
<1>2. CASE kind = "ADDR"
  BY <1>2 DEF SimpleEntry, AddressEntry, Entry, InForm
<1>3. CASE kind = "UINT128"
  BY <1>3 DEF SimpleEntry, Entry, InForm
<1>4. CASE kind = "PUBKEY"
  BY <1>4 DEF SimpleEntry, KeyEntry, Entry, InForm
<1> QED BY <1>1, <1>2, <1>3, <1>4 DEF SimpleKinds

LEMMA StateInForm ==
    ASSUME Buffered, NEW at \in Places, Found(StateEnd(at))
    PROVE  LET entries == StateEntries(at)
           IN  /\ Len(entries) = 3 /\ \A k \in 1 .. 3 : InForm(entries[k])
               /\ entries[1].kind = "ADDR" /\ entries[2].kind = "ADDR"
               /\ entries[3].kind = "AMOUNT"
<1> DEFINE entries == StateEntries(at)
<1>1. /\ Len(entries) = 3
      /\ entries[1] = AddressEntry(StateFrom(at) + 1)
      /\ entries[2] = AddressEntry(StateTo(at) + 1)
      /\ entries[3] = AmountEntry(StateAmount(at))
  BY DEF StateEntries
<1>2. StateAmount(at) \in Places /\ Found(parse_amount(StateAmount(at)))
  <2>1. /\ StateAmount(at) \in Nat /\ parse_amount(StateAmount(at)) \in Nat
        /\ StateAmount(at) <= parse_amount(StateAmount(at))
        /\ parse_amount(StateAmount(at)) < StateEnd(at)
    BY StateReads
  <2>2. StateEnd(at) \in Nat /\ StateEnd(at) <= size /\ size \in Nat
    BY StateReads, BytesRead DEF Found, Places
  <2> QED BY <2>1, <2>2 DEF Places, Found
<1> HIDE DEF entries
<1>3. InForm(entries[3])
  BY <1>1, <1>2, AmountInForm
<1>4. InForm(entries[1]) /\ InForm(entries[2])
  BY <1>1 DEF InForm, AddressEntry, Entry
<1>5. \A k \in 1 .. 3 : k = 1 \/ k = 2 \/ k = 3
  OBVIOUS
<1>6. entries[1].kind = "ADDR" /\ entries[2].kind = "ADDR" /\ entries[3].kind = "AMOUNT"
  BY <1>1 DEF AddressEntry, AmountEntry, Entry
<1> QED BY <1>1, <1>3, <1>4, <1>5, <1>6 DEF entries
-----------------------------------------------------------------------------

\* A step that ends the parsing without an acceptance.
LEMMA StopKeeps ==
    ASSUME CalledInv, NEW status \in Statuses \ {"PARSING_OK"}, Stop(status),
           status = "PARSING_TX_NOT_DEFINED" => type \in ContractTypes
    PROVE  KInv'
<1>1. stage' = status /\ UNCHANGED <<buf, type, params>>
  BY DEF Stop, call, list
<1>2. \A k \in DOMAIN params' : InForm(params[k])'
  BY <1>1, FormKept
<1>3. CalledInv'
  BY <1>1, <1>2 DEF CalledInv, Typed, AtStart, Statuses
<1>4. ParamsRead' /\ PeersRead' /\ TransfersRead' /\ AllRead'
  BY <1>1 DEF ParamsRead, PeersRead, TransfersRead, AllRead, Accepted, Statuses
<1> QED BY <1>3, <1>4 DEF KInv

LEMMA RefuseKeeps ==
    ASSUME CalledInv, Refuse
    PROVE  KInv'
BY StopKeeps DEF Refuse, Statuses

\* A step up to the lookup of the method.
LEMMA EarlyKeeps ==
    ASSUME CalledInv, stage \in AtStart,
           stage' \in {"payload", "contract", "method", "lookup"},
           UNCHANGED <<buf, params, num>>, stage' \in Typed => type' \in ContractTypes
    PROVE  KInv'
<1>1. \A k \in DOMAIN params' : InForm(params[k])'
  BY FormKept
<1>2. CalledInv'
  BY <1>1 DEF CalledInv
<1>3. ParamsRead' /\ PeersRead' /\ TransfersRead' /\ AllRead'
  BY DEF ParamsRead, PeersRead, TransfersRead, AllRead, Accepted
<1> QED BY <1>2, <1>3 DEF KInv

LEMMA InitKeeps == Init => KInv
BY DEF Init, KInv, CalledInv, ParamsRead, PeersRead, TransfersRead, AllRead, Accepted, Typed

LEMMA HeaderKeeps ==
    ASSUME KInv, Header
    PROVE  KInv'
<1>1. stage = "header" /\ CalledInv
  BY DEF Header, KInv
<1>2. CASE Stop("PARSING_LENGTH_WRONG") \/ Refuse
  BY <1>1, <1>2, StopKeeps, RefuseKeeps DEF Statuses
<1>3. CASE Skip("payload", HeaderLength)
  BY <1>1, <1>3, EarlyKeeps DEF Skip, GoTo, call, list, loop, AtStart, Typed
<1> QED BY <1>2, <1>3 DEF Header

LEMMA PayloadSizeKeeps ==
    ASSUME KInv, PayloadSize
    PROVE  KInv'
<1>1. stage = "payload" /\ CalledInv
  BY DEF PayloadSize, KInv
<1>2. CASE Stop("PARSING_LENGTH_WRONG") \/ Refuse
  BY <1>1, <1>2, StopKeeps, RefuseKeeps DEF Statuses
<1>3. CASE Skip("contract", PayloadAt(offset))
  BY <1>1, <1>3, EarlyKeeps DEF Skip, GoTo, call, list, loop, AtStart, Typed
<1> QED BY <1>2, <1>3 DEF PayloadSize

LEMMA ContractKeeps ==
    ASSUME KInv, Contract
    PROVE  KInv'
<1>1. stage = "contract" /\ CalledInv
  BY DEF Contract, KInv
<1>2. CASE Refuse
  BY <1>1, <1>2, RefuseKeeps
<1>3. ASSUME NEW t \in ContractTypes, NEW at, NEW next, SetContract(t, at, next)
      PROVE  KInv'
  BY <1>1, <1>3, EarlyKeeps DEF SetContract, GoTo, list, loop, AtStart
<1> QED BY <1>2, <1>3 DEF Contract, ContractTypes

LEMMA SetMethodKeeps ==
    ASSUME KInv, stage = "method", NEW at, NEW next, SetMethod(at, next)
    PROVE  KInv'
BY EarlyKeeps DEF KInv, CalledInv, SetMethod, GoTo, list, loop, AtStart, Typed

LEMMA WasmMethodKeeps ==
    ASSUME KInv, WasmMethod
    PROVE  KInv'
BY RefuseKeeps, SetMethodKeeps DEF WasmMethod, KInv

LEMMA MethodKeeps ==
    ASSUME KInv, Method
    PROVE  KInv'
BY RefuseKeeps, SetMethodKeeps DEF Method, KInv

LEMMA StartTransfersKeeps ==
    ASSUME IInv, KInv, StartTransfers
    PROVE  KInv'
<1>1. /\ stage = "lookup" /\ IsTransferList /\ stage' = "transfers" /\ i' = 0
      /\ UNCHANGED <<buf, type, addr, name, params, cur, todo, num>>
  BY DEF StartTransfers, GoTo, call, list
<1>2. cur = 0
  BY <1>1 DEF IInv, ParamsInv
<1>3. \A k \in DOMAIN params' : InForm(params[k])'
  BY <1>1, FormKept DEF KInv
<1>4. CalledInv'
  BY <1>1, <1>3 DEF KInv, CalledInv, Typed, AtStart
<1>5. IsTransferList'
  BY <1>1, SameTable DEF SameCall
<1>6. TransfersRead'
  BY <1>1, <1>2, <1>5 DEF TransfersRead
<1>7. ParamsRead' /\ PeersRead' /\ AllRead'
  BY <1>1 DEF ParamsRead, PeersRead, AllRead, Accepted
<1> QED BY <1>4, <1>6, <1>7 DEF KInv

LEMMA StartParamsKeeps ==
    ASSUME IInv, KInv, StartParams
    PROVE  KInv'
<1>1. stage = "lookup" /\ ~IsTransferList /\ CalledInv /\ type \in ContractTypes
  BY DEF StartParams, KInv, CalledInv, Typed
<1>2. CASE Refuse \/ Stop("PARSING_TX_NOT_DEFINED")
  BY <1>1, <1>2, StopKeeps, RefuseKeeps DEF Statuses
<1>3. ASSUME KnownMethod # {}, todo' = Sig, NEW at, GoTo("params", at),
             UNCHANGED <<buf, call, params, cur, num, i>>
      PROVE  KInv'
  <2>1. stage' = "params" /\ UNCHANGED <<buf, type, addr, name, params, cur, num>>
    BY <1>3 DEF GoTo, call
  <2>2. cur = 0 /\ num = 0
    BY <1>1 DEF IInv, ParamsInv, CalledInv, AtStart
  <2>3. \A k \in DOMAIN params' : InForm(params[k])'
    BY <1>1, <2>1, FormKept
  <2>4. CalledInv'
    BY <1>1, <2>1, <2>3 DEF CalledInv, Typed, AtStart
  <2>5. /\ TheContract' = TheContract /\ TheMethod' = TheMethod /\ KnownMethod' = KnownMethod
        /\ (IsTransferList' <=> IsTransferList) /\ Sig' = Sig
    BY <2>1, SameTable DEF SameCall
  <2>6. TheContract \in Contracts /\ TheMethod \in Methods(TheContract)
    BY <1>3, TheTable
  <2>7. Len(Sig) \in Nat /\ Parts(TheContract, TheMethod, 0) \in Seq(Seq(PARAM_KINDS))
    <3>1. 0 \in Nat
      OBVIOUS
    <3> QED BY <2>6, <3>1, PartsFacts DEF Sig
  <2>8. Done' = 0
    <3>1. Done' = Len(Sig) - Len(Sig)
      BY <1>3, <2>5 DEF Done
    <3> QED BY <2>7, <3>1
  <2>9. AtSignature'
    <3>1. Len(todo') <= Len(Sig')
      BY <1>3, <2>5, <2>7
    <3>2. \A k \in 1 .. Len(todo') : todo'[k] = Sig'[Done' + k]
      <4>1. ASSUME NEW k \in 1 .. Len(todo') PROVE todo'[k] = Sig'[Done' + k]
        <5>1. Done' + k = k
          BY <2>8
        <5> QED BY <1>3, <2>5, <5>1
      <4> QED BY <4>1
    <3> QED BY <1>1, <1>3, <2>5, <3>1, <3>2 DEF AtSignature
  <2>10. KindsDone' = <<>>
    BY <2>1, <2>2, <2>5, <2>7, <2>8, JoinsFacts DEF KindsDone
  <2>11. TheMethod \in PeerMethods => todo' # <<>>
    <3>1. TheMethod \in PeerMethods => Sig = <<"ADDR", "PK_AMOUNT_PAIRS">>
      BY <2>6, SignatureTable DEF Sig
    <3> QED BY <1>3, <3>1
  <2>12. ParamsRead'
    <3>1. Len(KindsDone') = cur' /\ Reads(KindsDone', params')
      BY <2>1, <2>2, <2>10 DEF Reads
    <3>2. num' <= PARAMETERS_MAX_NUM
      BY <2>1, <2>2, SizeAssumption
    <3> QED BY <2>5, <2>9, <2>11, <3>1, <3>2 DEF ParamsRead, Reads
  <2>13. PeersRead' /\ TransfersRead' /\ AllRead'
    BY <2>1 DEF PeersRead, TransfersRead, AllRead, Accepted
  <2> QED BY <2>4, <2>12, <2>13 DEF KInv
<1> QED BY <1>2, <1>3 DEF StartParams, Sig
-----------------------------------------------------------------------------

\* What has been read of a signature's entries.
LEMMA AtParamKinds ==
    ASSUME IInv, KInv, stage = "params"
    PROVE  /\ AtSignature /\ CalledInv /\ type \in ContractTypes
           /\ TheContract \in Contracts /\ TheMethod \in Methods(TheContract)
           /\ num \in Nat /\ num <= PARAMETERS_MAX_NUM
           /\ Parts(TheContract, TheMethod, num) \in Seq(Seq(PARAM_KINDS))
           /\ Len(Parts(TheContract, TheMethod, num)) = Len(Sig)
           /\ Len(Sig) \in Nat /\ Len(todo) \in Nat /\ Done \in 0 .. Len(Sig)
           /\ Done + Len(todo) = Len(Sig)
           /\ Sig \in Seq(ParameterTypes)
           /\ KindsDone \in Seq(PARAM_KINDS) /\ Len(KindsDone) = cur /\ Reads(KindsDone, params)
<1>1. /\ AtSignature /\ num <= PARAMETERS_MAX_NUM /\ CalledInv /\ KnownMethod # {}
      /\ Len(KindsDone) = cur /\ Reads(KindsDone, params) /\ Len(todo) <= Len(Sig)
  BY DEF KInv, ParamsRead, AtSignature
<1>2. TheContract \in Contracts /\ TheMethod \in Methods(TheContract)
  BY <1>1, TheTable
<1>3. num \in Nat /\ todo \in Seq(ParameterTypes)
  BY DEF IInv, TypeInv
<1>4. /\ Parts(TheContract, TheMethod, num) \in Seq(Seq(PARAM_KINDS))
      /\ Len(Parts(TheContract, TheMethod, num)) = Len(Sig) /\ Len(Sig) \in Nat
  BY <1>2, <1>3, PartsFacts DEF Sig
<1>5. Sig \in Seq(ParameterTypes)
  BY <1>2, SignatureTable DEF Sig
<1>6. Len(todo) \in Nat
  BY <1>3
<1>7. Done \in 0 .. Len(Sig) /\ Done + Len(todo) = Len(Sig)
  BY <1>1, <1>4, <1>6 DEF Done
<1>8. KindsDone \in Seq(PARAM_KINDS)
  BY <1>4, <1>7, JoinsFacts DEF KindsDone
<1>9. type \in ContractTypes
  BY <1>1 DEF CalledInv, Typed
<1> QED BY <1>1, <1>2, <1>3, <1>4, <1>5, <1>6, <1>7, <1>8, <1>9

\* A parameter other than a list of peers has been read to its entries.
LEMMA NextPart ==
    ASSUME IInv, KInv, stage = "params", stage' = "params", SameCall, num' = num,
           todo # <<>>, todo' = Tail(todo), Head(todo) # "PK_AMOUNT_PAIRS",
           NEW part, part = Entries(Head(todo), num), NEW m \in Nat, Len(part) = m,
           cur' = cur + m,
           \A k \in 0 .. cur - 1 : params'[k] = params[k],
           \A k \in 1 .. m : params'[cur + k - 1].kind = part[k],
           \A k \in DOMAIN params' : InForm(params[k])'
    PROVE  KInv'
<1> DEFINE parts == Parts(TheContract, TheMethod, num)
           before == KindsDone
           after == KindsDone'
           there == Done
<1>1. /\ AtSignature /\ type \in ContractTypes /\ Len(parts) = Len(Sig)
      /\ TheContract \in Contracts /\ TheMethod \in Methods(TheContract)
      /\ parts \in Seq(Seq(PARAM_KINDS)) /\ num \in Nat /\ num <= PARAMETERS_MAX_NUM
      /\ Len(Sig) \in Nat /\ Len(todo) \in Nat /\ there \in 0 .. Len(Sig)
      /\ there + Len(todo) = Len(Sig) /\ Sig \in Seq(ParameterTypes)
      /\ before \in Seq(PARAM_KINDS) /\ Len(before) = cur /\ Reads(before, params)
      /\ todo \in Seq(ParameterTypes) /\ cur \in Nat
  BY AtParamKinds DEF IInv, TypeInv
<1>2. /\ TheContract' = TheContract /\ TheMethod' = TheMethod /\ KnownMethod' = KnownMethod
      /\ (IsTransferList' <=> IsTransferList) /\ Sig' = Sig /\ type' = type
  BY SameTable
<1>3. /\ Len(todo) >= 1 /\ Len(todo') = Len(todo) - 1 /\ Head(todo) = todo[1]
      /\ \A k \in 1 .. Len(todo') : todo'[k] = todo[k + 1]
  BY <1>1
<1>4. \A k \in 1 .. Len(todo) : todo[k] = Sig[there + k]
  BY <1>1 DEF AtSignature
<1>5. Done' = there + 1
  <2>1. Done' = Len(Sig) - Len(todo') /\ there = Len(Sig) - Len(todo)
    BY <1>2 DEF Done
  <2> QED BY <1>1, <1>3, <2>1
<1> HIDE DEF there
<1>6. Head(todo) = Sig[there + 1] /\ there + 1 \in 1 .. Len(Sig)
  BY <1>1, <1>3, <1>4, SMTT(30)
<1>7. AtSignature'
  <2>1. \A k \in 1 .. Len(todo') : todo'[k] = Sig'[Done' + k]
    <3>1. ASSUME NEW k \in 1 .. Len(todo') PROVE todo'[k] = Sig'[Done' + k]
      <4>1. k + 1 \in 1 .. Len(todo) /\ (there + 1) + k = there + (k + 1)
        BY <1>1, <1>3
      <4> QED BY <1>2, <1>3, <1>4, <1>5, <4>1
    <3> QED BY <3>1
  <2>2. Len(todo') <= Len(Sig')
    BY <1>1, <1>2, <1>3
  <2> QED BY <1>1, <1>2, <2>1, <2>2 DEF AtSignature
<1>8. parts[there + 1] = part /\ part \in Seq(PARAM_KINDS)
  <2>1. parts[there + 1] = Entries(Sig[there + 1], num) /\ Sig[there + 1] \in ParameterTypes
    BY <1>1, <1>6, PartsFacts DEF Sig
  <2> QED BY <1>1, <1>6, <2>1, EntriesFacts
<1>9. after = Joins(parts)[there + 1] /\ before = Joins(parts)[there]
  BY <1>2, <1>5 DEF KindsDone, there
<1> HIDE DEF parts, before, after
<1>10. after = before \o part
  <2>1. there + 1 \in 1 .. Len(parts) /\ (there + 1) - 1 = there
    BY <1>1, <1>6
  <2>2. Joins(parts)[there + 1] = Joins(parts)[(there + 1) - 1] \o parts[there + 1]
    BY <1>1, <2>1, JoinsFacts
  <2> QED BY <1>8, <1>9, <2>1, <2>2
<1>11. Behind(after, before, part)
  BY <1>1, <1>8, <1>10, JoinedBehind
<1>12. Len(after) = cur'
  BY <1>1, <1>11 DEF Behind
<1>13. Reads(after, params')
  <2>1. ASSUME NEW k \in 1 .. cur + m PROVE params'[k - 1].kind = after[k]
    <3>1. CASE k <= cur
      <4>1. k \in 1 .. cur /\ k - 1 \in 0 .. cur - 1
        BY <1>1, <3>1
      <4>2. after[k] = before[k]
        BY <1>1, <1>11, <4>1 DEF Behind
      <4>3. params[k - 1].kind = before[k]
        BY <1>1, <4>1 DEF Reads
      <4> QED BY <4>1, <4>2, <4>3
    <3>2. CASE k > cur
      <4> DEFINE j == k - cur
      <4>1. j \in 1 .. m /\ cur + j = k /\ cur + j - 1 = k - 1
        BY <1>1, <3>2
      <4> HIDE DEF j
      <4>2. after[cur + j] = part[j]
        BY <1>1, <1>11, <4>1 DEF Behind
      <4>3. params'[cur + j - 1].kind = part[j]
        BY <4>1
      <4> QED BY <4>1, <4>2, <4>3
    <3> QED BY <1>1, <3>1, <3>2
  <2> QED BY <1>12, <2>1 DEF Reads
<1>14. TheMethod \in PeerMethods => todo' # <<>>
  <2>1. SUFFICES ASSUME TheMethod \in PeerMethods, todo' = <<>> PROVE FALSE
    OBVIOUS
  <2>2. Sig = <<"ADDR", "PK_AMOUNT_PAIRS">>
    BY <1>1, <2>1, SignatureTable DEF Sig
  <2>3. Len(Sig) = 2 /\ Sig[2] = "PK_AMOUNT_PAIRS"
    BY <2>2
  <2>4. Len(todo) = 1
    <3>1. \A s : s = <<>> => Len(s) = 0
      OBVIOUS
    <3>2. Len(todo') = 0
      BY <2>1, <3>1, Zenon
    <3> DEFINE left == Len(todo)
               then == Len(todo')
    <3>3. left \in Nat /\ then = left - 1 /\ then = 0
      BY <1>1, <1>3, <3>2, Zenon
    <3> HIDE DEF left, then
    <3>4. left = 1
      BY <3>3
    <3> QED BY <3>4 DEF left
  <2>5. there + 1 = 2
    BY <1>1, <2>3, <2>4
  <2> QED BY <1>6, <2>3, <2>5
<1>15. ParamsRead'
  <2>1. Reads(KindsDone, params)' /\ Len(KindsDone)' = cur'
    BY <1>12, <1>13 DEF Reads, after
  <2> QED BY <1>1, <1>2, <1>7, <1>14, <2>1 DEF ParamsRead
<1>16. CalledInv'
  BY <1>1, <1>2 DEF CalledInv, AtStart
<1>17. PeersRead' /\ TransfersRead' /\ AllRead'
  BY DEF PeersRead, TransfersRead, AllRead, Accepted
<1> QED BY <1>15, <1>16, <1>17 DEF KInv

LEMMA SimpleParamKeeps ==
    ASSUME IInv, KInv, SimpleParam
    PROVE  KInv'
<1> DEFINE kind  == Head(todo)
           end   == SimpleEnd(kind, offset)
           next  == Closed(end)
           entry == SimpleEntry(kind, offset)
<1>1. NextIs(SimpleKinds) /\ kind \in SimpleKinds /\ CalledInv
  BY DEF SimpleParam, NextIs, KInv
<1>2. CASE Refuse
  BY <1>1, <1>2, RefuseKeeps
<1>3. CASE /\ Found(next) /\ Write(cur, <<entry>>)
           /\ cur' = cur + 1 /\ todo' = Tail(todo)
           /\ GoTo("params", next) /\ UNCHANGED <<buf, call, num, i>>
  <2>1. /\ Buffered /\ Working /\ offset \in Places /\ cur \in Nat /\ Written = cur
        /\ stage = "params" /\ todo # <<>>
    BY <1>1, AtParam
  <2>2. end \in Places
    BY <1>1, <2>1, SimpleReads
  <2>3. /\ buf' = buf /\ stage' = "params" /\ cur' = cur + 1 /\ todo' = Tail(todo)
        /\ num' = num /\ SameCall
    BY <1>3 DEF GoTo, call, SameCall
  <2>4. Found(end)
    <3>1. Found(next)
      BY <1>3
    <3> HIDE DEF end
    <3>2. next \in Places /\ end <= next
      BY <2>1, <2>2, <3>1, EndReads
    <3> QED BY <2>1, <2>2, <3>1, <3>2, BytesRead DEF Found, Places
  <2>5. InForm(entry) /\ entry.kind = kind
    BY <1>1, <2>1, <2>4, SimpleInForm
  <2> DEFINE entries == <<entry>>
             part == <<kind>>
  <2>6. Write(cur, entries)
    BY <1>3
  <2>7. Len(entries) = 1 /\ entries[1] = entry /\ Len(part) = 1 /\ part[1] = kind
        /\ (\A k \in 1 .. 1 : k = 1) /\ 1 \in Nat
    OBVIOUS
  <2>8. part = Entries(kind, num) /\ kind # "PK_AMOUNT_PAIRS"
    <3>1. kind \in PARAM_KINDS /\ kind \in ParameterTypes /\ num \in Nat
      BY <1>1 DEF SimpleKinds, PARAM_KINDS, ParameterTypes, IInv, TypeInv
    <3> HIDE DEF kind
    <3> QED BY <3>1, EntriesFacts DEF PARAM_KINDS
  <2> HIDE DEF kind, entry, entries, part, end
  <2>9. \A k \in 1 .. 1 : InForm(entries[k])
    BY <2>5, <2>7
  <2>10. DOMAIN params = 0 .. cur - 1
    BY <2>1, EntriesWritten
  <2>11. /\ \A k \in 0 .. cur - 1 : params'[k] = params[k]
         /\ \A k \in 1 .. 1 : params'[cur + k - 1] = entries[k]
    <3>1. Extended(cur, entries, 1)
      BY <2>1, <2>6, <2>7, <2>10, WrittenKeeps
    <3> QED BY <3>1 DEF Extended
  <2>12. \A k \in DOMAIN params' : InForm(params[k])'
    BY <1>1, <2>1, <2>3, <2>6, <2>7, <2>9, <2>10, FormGrows
  <2>13. \A k \in 1 .. 1 : params'[cur + k - 1].kind = part[k]
    BY <2>5, <2>7, <2>11
  <2> QED BY <2>1, <2>3, <2>7, <2>8, <2>11, <2>12, <2>13, NextPart DEF kind
<1> QED BY <1>2, <1>3 DEF SimpleParam

LEMMA OntIdKeeps ==
    ASSUME IInv, KInv, OntId
    PROVE  KInv'
<1>1. NextIs({"ONTID"}) /\ Head(todo) = "ONTID" /\ CalledInv
  BY DEF OntId, NextIs, KInv
<1>2. CASE Refuse
  BY <1>1, <1>2, RefuseKeeps
<1>3. ASSUME todo' = Tail(todo), NEW next, GoTo("params", next),
             UNCHANGED <<buf, call, params, cur, num, i>>
      PROVE  KInv'
  <2>1. cur \in Nat /\ stage = "params" /\ todo # <<>> /\ num \in Nat
    BY <1>1, AtParam DEF IInv, TypeInv
  <2>2. /\ buf' = buf /\ stage' = "params" /\ params' = params /\ cur' = cur /\ num' = num
        /\ SameCall
    BY <1>3 DEF GoTo, call, SameCall
  <2>3. \A k \in DOMAIN params' : InForm(params[k])'
    BY <1>1, <2>2, FormKept
  <2> DEFINE part == <<>>
             m == 0
  <2>4. part = Entries(Head(todo), num) /\ Len(part) = m
    BY <1>1, <2>1, EntriesFacts, ZenonT(30) DEF ParameterTypes
  <2>5. m \in Nat /\ cur' = cur + m
    BY <2>1, <2>2
  <2>6. \A k \in 1 .. m : params'[cur + k - 1].kind = part[k]
    OBVIOUS
  <2>7. \A k \in 0 .. cur - 1 : params'[k] = params[k]
    BY <2>2
  <2> HIDE DEF part, m
  <2> QED BY <1>1, <1>3, <2>1, <2>2, <2>3, <2>4, <2>5, <2>6, <2>7, NextPart
<1> QED BY <1>2, <1>3 DEF OntId

LEMMA TransferStateParamKeeps ==
    ASSUME IInv, KInv, TransferStateParam
    PROVE  KInv'
<1> DEFINE end     == StateEnd(offset)
           next    == Closed(end)
           entries == StateEntries(offset)
<1>1. NextIs({"TRANSFER_STATE"}) /\ Head(todo) = "TRANSFER_STATE" /\ CalledInv
  BY DEF TransferStateParam, NextIs, KInv
<1>2. CASE Refuse
  BY <1>1, <1>2, RefuseKeeps
<1>3. CASE /\ Found(next) /\ Write(cur, entries) /\ cur' = cur + 3 /\ todo' = Tail(todo)
           /\ GoTo("params", next) /\ UNCHANGED <<buf, call, num, i>>
  <2>1. /\ Buffered /\ Working /\ offset \in Places /\ cur \in Nat /\ Written = cur
        /\ stage = "params" /\ todo # <<>>
    BY <1>1, AtParam
  <2>2. end \in Places
    BY <2>1, StateReads
  <2>3. /\ buf' = buf /\ stage' = "params" /\ cur' = cur + 3 /\ todo' = Tail(todo)
        /\ num' = num /\ SameCall
    BY <1>3 DEF GoTo, call, SameCall
  <2>4. Found(end)
    <3>1. Found(next)
      BY <1>3
    <3> HIDE DEF end
    <3>2. next \in Places /\ end <= next
      BY <2>1, <2>2, <3>1, EndReads
    <3> QED BY <2>1, <2>2, <3>1, <3>2, BytesRead DEF Found, Places
  <2>5. /\ Len(entries) = 3 /\ \A k \in 1 .. 3 : InForm(entries[k])
        /\ entries[1].kind = "ADDR" /\ entries[2].kind = "ADDR" /\ entries[3].kind = "AMOUNT"
    BY <2>1, <2>4, StateInForm
  <2>6. Write(cur, entries)
    BY <1>3
  <2> HIDE DEF end, entries
  <2>7. Triple = Entries(Head(todo), num) /\ Len(Triple) = 3
        /\ Triple[1] = "ADDR" /\ Triple[2] = "ADDR" /\ Triple[3] = "AMOUNT"
    <3>1. "TRANSFER_STATE" \in ParameterTypes /\ num \in Nat
      BY DEF ParameterTypes, IInv, TypeInv
    <3> QED BY <1>1, <3>1, EntriesFacts DEF Triple
  <2>8. DOMAIN params = 0 .. cur - 1
    BY <2>1, EntriesWritten
  <2>9. 3 \in Nat /\ \A k \in 1 .. 3 : k = 1 \/ k = 2 \/ k = 3
    OBVIOUS
  <2>10. /\ \A k \in 0 .. cur - 1 : params'[k] = params[k]
         /\ \A k \in 1 .. 3 : params'[cur + k - 1] = entries[k]
    <3>1. Extended(cur, entries, 3)
      BY <2>1, <2>5, <2>6, <2>8, <2>9, WrittenKeeps
    <3> QED BY <3>1 DEF Extended
  <2>11. \A k \in DOMAIN params' : InForm(params[k])'
    BY <1>1, <2>1, <2>3, <2>5, <2>6, <2>8, <2>9, FormGrows
  <2>12. \A k \in 1 .. 3 : params'[cur + k - 1].kind = Triple[k]
    BY <2>5, <2>7, <2>9, <2>10
  <2> QED BY <1>1, <2>1, <2>3, <2>7, <2>9, <2>10, <2>11, <2>12, NextPart
<1> QED BY <1>2, <1>3 DEF TransferStateParam

LEMMA ListParamKeeps ==
    ASSUME KInv, ListParam
    PROVE  KInv'
BY RefuseKeeps DEF ListParam, KInv
-----------------------------------------------------------------------------

\* In a list of peers the staker's address comes first.
LEMMA StartPairsKeeps ==
    ASSUME IInv, KInv, StartPairs
    PROVE  KInv'
<1> DEFINE entry == AmountEntry(offset)
           parts == Parts(TheContract, TheMethod, num)
<1>1. NextIs({"PK_AMOUNT_PAIRS"}) /\ Head(todo) = "PK_AMOUNT_PAIRS" /\ CalledInv
  BY DEF StartPairs, NextIs, KInv
<1>2. CASE Refuse
  BY <1>1, <1>2, RefuseKeeps
<1>3. CASE /\ PairsFit(offset) /\ Write(cur, <<entry>>)
           /\ num' = PairsCount(offset) /\ i' = 1
           /\ GoTo("keys", EndParam(parse_amount(offset))) /\ UNCHANGED <<buf, call, cur, todo>>
  <2>1. /\ Buffered /\ Working /\ offset \in Places /\ cur \in Nat /\ Written = cur
        /\ stage = "params" /\ todo # <<>>
    BY <1>1, AtParam
  <2>2. /\ AtSignature /\ type \in ContractTypes /\ Len(parts) = Len(Sig)
        /\ TheContract \in Contracts /\ TheMethod \in Methods(TheContract)
        /\ parts \in Seq(Seq(PARAM_KINDS)) /\ num \in Nat
        /\ Len(Sig) \in Nat /\ Len(todo) \in Nat /\ Done \in 0 .. Len(Sig)
        /\ Done + Len(todo) = Len(Sig) /\ Sig \in Seq(ParameterTypes)
        /\ Len(KindsDone) = cur /\ Reads(KindsDone, params)
    BY <2>1, AtParamKinds
  <2>3. Len(todo) = 1
    BY <1>1, AtParam, RestGood
  <2>4. todo[1] = Sig[Done + 1] /\ Head(todo) = todo[1]
    <3>1. 1 \in 1 .. Len(todo)
      BY <2>3
    <3> QED BY <2>1, <2>2, <3>1 DEF AtSignature
  <2>5. TheMethod \in PeerMethods /\ TheContract = "GOV" /\ Sig = <<"ADDR", "PK_AMOUNT_PAIRS">>
    <3>1. Done + 1 \in 1 .. Len(Sig) /\ Sig[Done + 1] = "PK_AMOUNT_PAIRS"
      BY <1>1, <2>2, <2>3, <2>4
    <3> QED BY <2>2, <3>1, SignatureTable DEF Sig
  <2>6. Done = 1
    <3>1. Len(Sig) = 2
      BY <2>5
    <3> QED BY <2>2, <2>3, <3>1
  <2>7. KindsDone = <<"ADDR">>
    <3>1. Joins(Parts("GOV", TheMethod, num))[1] = <<"ADDR">>
      BY <2>2, <2>5, PeersEntries, ZenonT(30)
    <3> HIDE DEF parts
    <3> QED BY <2>5, <2>6, <3>1, Zenon DEF KindsDone
  <2>8. cur = 1 /\ params[0].kind = "ADDR"
    <3>1. Len(KindsDone) = 1 /\ KindsDone[1] = "ADDR" /\ 1 \in 1 .. 1 /\ 1 - 1 = 0
      BY <2>7
    <3> QED BY <2>2, <3>1 DEF Reads
  <2>9. /\ buf' = buf /\ stage' = "keys" /\ cur' = 1 /\ todo' = todo /\ i' = 1
        /\ num' = PairsCount(offset) /\ SameCall /\ PairsFit(offset)
    BY <1>3, <2>8 DEF GoTo, call, SameCall
  <2>10. Found(parse_amount(offset))
    <3> DEFINE end == parse_amount(offset)
    <3>1. end \in Places /\ Found(EndParam(end))
      BY <2>1, <2>9, AmountReads DEF PairsFit
    <3> HIDE DEF end
    <3>2. Found(end)
      BY <2>1, <3>1, EndPosition
    <3> QED BY <3>2 DEF end
  <2>11. InForm(entry) /\ entry.kind = "AMOUNT" /\ Slice(entry.at, entry.len) =
             Slice(offset, parse_amount(offset) - offset)
    BY <2>1, <2>10, AmountInForm DEF AmountEntry, Entry
  <2> DEFINE entries == <<entry>>
  <2>12. Write(1, entries) /\ Len(entries) = 1 /\ entries[1] = entry
         /\ (\A k \in 1 .. 1 : k = 1) /\ 1 \in Nat /\ 1 \in 1 .. 1 /\ 1 + 1 - 1 = 1 /\ 0 \in 0 .. 1 - 1
    BY <1>3, <2>8
  <2>13. DOMAIN params = 0 .. 1 - 1
    BY <2>1, <2>8, EntriesWritten
  <2> HIDE DEF entry, entries
  <2>14. \A k \in 1 .. 1 : InForm(entries[k])
    BY <2>11, <2>12
  <2>15. params'[0] = params[0] /\ params'[1] = entry
    <3>1. Extended(1, entries, 1)
      BY <2>12, <2>13, WrittenKeeps
    <3>2. /\ \A k \in 0 .. 1 - 1 : params'[k] = params[k]
          /\ \A k \in 1 .. 1 : params'[1 + k - 1] = entries[k]
      BY <3>1 DEF Extended
    <3> QED BY <2>12, <3>2
  <2>16. \A k \in DOMAIN params' : InForm(params[k])'
    BY <1>1, <2>9, <2>12, <2>13, <2>14, FormGrows
  <2>17. /\ TheContract' = TheContract /\ TheMethod' = TheMethod /\ KnownMethod' = KnownMethod
         /\ (IsTransferList' <=> IsTransferList) /\ Sig' = Sig /\ type' = type
    BY <2>9, SameTable
  <2>18. CalledInv'
    BY <2>2, <2>9, <2>16, <2>17 DEF CalledInv, AtStart
  <2>19. Counted'
    <3>1. Content(1)' = Slice(offset, parse_amount(offset) - offset)
      BY <2>9, <2>11, <2>15 DEF Content, Slice
    <3> QED BY <2>9, <3>1 DEF Counted, PairsFit, PairsCount
  <2>20. AtSignature'
    BY <2>2, <2>9, <2>17 DEF AtSignature, Done
  <2>21. PeersSoFar(i - 1, 0)'
    <3>1. i' - 1 = 0 /\ \A k \in 1 .. 0 : FALSE
      BY <2>9
    <3>2. params'[0].kind = "ADDR" /\ params'[1].kind = "AMOUNT"
      BY <2>8, <2>11, <2>15
    <3> QED BY <2>5, <2>9, <2>17, <2>19, <3>1, <3>2 DEF PeersSoFar
  <2>22. PeersRead'
    BY <2>9, <2>20, <2>21 DEF PeersRead
  <2>23. ParamsRead' /\ TransfersRead' /\ AllRead'
    BY <2>9 DEF ParamsRead, TransfersRead, AllRead, Accepted
  <2> QED BY <2>18, <2>22, <2>23 DEF KInv
<1> QED BY <1>2, <1>3 DEF StartPairs

\* What holds while a list of peers is read.
LEMMA AtPeers ==
    ASSUME IInv, KInv, stage \in {"keys", "amounts"}
    PROVE  /\ AtSignature /\ CalledInv /\ type \in ContractTypes
           /\ TheContract = "GOV" /\ TheMethod \in PeerMethods /\ TheMethod \in Methods("GOV")
           /\ Sig = <<"ADDR", "PK_AMOUNT_PAIRS">>
           /\ cur = 1 /\ Counted /\ params[0].kind = "ADDR" /\ params[1].kind = "AMOUNT"
           /\ num \in Nat /\ i \in Nat /\ 1 <= i /\ i <= num + 1
           /\ stage = "keys" => DOMAIN params = 0 .. (1 + i) - 1
           /\ stage = "amounts" => DOMAIN params = 0 .. (1 + num + i) - 1
<1>1. /\ AtSignature /\ CalledInv /\ KnownMethod # {} /\ TheMethod \in PeerMethods
      /\ cur = 1 /\ Counted /\ params[0].kind = "ADDR" /\ params[1].kind = "AMOUNT"
  BY DEF KInv, PeersRead, AtSignature, PeersSoFar
<1>2. TheContract \in Contracts /\ TheMethod \in Methods(TheContract)
  BY <1>1, TheTable
<1>3. TheContract = "GOV" /\ Sig = <<"ADDR", "PK_AMOUNT_PAIRS">>
  BY <1>1, <1>2, SignatureTable DEF Sig
<1>4. num \in Nat /\ i \in Nat /\ 1 <= i /\ i <= num + 1
  BY DEF IInv, TypeInv, PairsInv
<1>5. DOMAIN params = 0 .. Written - 1
  BY EntriesWritten, AtPair
<1>6. type \in ContractTypes
  BY <1>1 DEF CalledInv, Typed
<1> QED BY <1>1, <1>2, <1>3, <1>4, <1>5, <1>6 DEF Written

LEMMA CountedStays ==
    ASSUME Counted, buf' = buf, num' = num, params'[1] = params[1]
    PROVE  Counted'
BY DEF Counted, Content, Slice

\* A step within a list of peers.
LEMMA PeersKeep ==
    ASSUME IInv, KInv, stage \in {"keys", "amounts"}, SameCall,
           UNCHANGED <<cur, todo, num>>, params'[0] = params[0], params'[1] = params[1],
           \A k \in DOMAIN params' : InForm(params[k])',
           NEW keys, NEW amounts,
           \A k \in 1 .. keys : params'[1 + k].kind = "PUBKEY",
           \A k \in 1 .. amounts : params'[1 + num + k].kind = "AMOUNT",
           \/ stage' = "keys" /\ keys = i' - 1 /\ amounts = 0
           \/ stage' = "amounts" /\ keys = num /\ amounts = i' - 1
    PROVE  KInv'
<1>1. /\ AtSignature /\ CalledInv /\ type \in ContractTypes /\ TheMethod \in PeerMethods
      /\ cur = 1 /\ Counted /\ params[0].kind = "ADDR" /\ params[1].kind = "AMOUNT"
  BY AtPeers
<1>2. /\ TheContract' = TheContract /\ TheMethod' = TheMethod /\ KnownMethod' = KnownMethod
      /\ (IsTransferList' <=> IsTransferList) /\ Sig' = Sig /\ type' = type /\ buf' = buf
  BY SameTable
<1>3. CalledInv'
  BY <1>1, <1>2 DEF CalledInv, AtStart
<1>4. AtSignature'
  BY <1>1, <1>2 DEF AtSignature, Done
<1>5. Counted'
  BY <1>1, <1>2, CountedStays
<1>6. PeersSoFar(keys, amounts)'
  BY <1>1, <1>2, <1>5 DEF PeersSoFar
<1>7. PeersRead'
  <2>1. CASE stage' = "keys" /\ keys = i' - 1 /\ amounts = 0
    BY <1>4, <1>6, <2>1 DEF PeersRead, PeersSoFar
  <2>2. CASE stage' = "amounts" /\ keys = num /\ amounts = i' - 1
    BY <1>4, <1>6, <2>2 DEF PeersRead, PeersSoFar
  <2> QED BY <2>1, <2>2
<1>8. ParamsRead' /\ TransfersRead' /\ AllRead'
  BY DEF ParamsRead, TransfersRead, AllRead, Accepted
<1> QED BY <1>3, <1>7, <1>8 DEF KInv

LEMMA PairKeyKeeps ==
    ASSUME IInv, KInv, PairKey
    PROVE  KInv'
<1> DEFINE entry == KeyEntry(offset)
           n == 1 + i
<1>1. stage = "keys" /\ i <= num /\ CalledInv
  BY DEF PairKey, KInv
<1>2. CASE Refuse
  BY <1>1, <1>2, RefuseKeeps
<1>3. ASSUME NEW next, Write(cur + i, <<entry>>), i' = i + 1, GoTo("keys", next),
             UNCHANGED <<buf, call, cur, todo, num>>
      PROVE  KInv'
  <2>1. /\ buf' = buf /\ stage' = "keys" /\ SameCall /\ UNCHANGED <<cur, todo, num>>
    BY <1>3 DEF GoTo, call, SameCall
  <2>2. /\ cur = 1 /\ num \in Nat /\ i \in Nat /\ 1 <= i /\ DOMAIN params = 0 .. n - 1 /\ n \in Nat
    BY <1>1, AtPeers
  <2>3. \A k \in 1 .. i - 1 : params[1 + k].kind = "PUBKEY"
    BY <1>1 DEF KInv, PeersRead, PeersSoFar
  <2> DEFINE entries == <<entry>>
  <2>4. Write(n, entries) /\ Len(entries) = 1 /\ entries[1] = entry
        /\ (\A k \in 1 .. 1 : k = 1) /\ 1 \in Nat /\ 1 \in 1 .. 1
    BY <1>3, <2>2
  <2>5. InForm(entry) /\ entry.kind = "PUBKEY"
    BY DEF KeyEntry, Entry, InForm
  <2> HIDE DEF entry, entries
  <2>6. \A k \in 1 .. 1 : InForm(entries[k])
    BY <2>4, <2>5
  <2>7. n = 1 + i
    OBVIOUS
  <2> HIDE DEF n
  <2>8. Extended(n, entries, 1)
    BY <2>2, <2>4, WrittenKeeps
  <2>9. \A k \in DOMAIN params' : InForm(params[k])'
    BY <1>1, <2>1, <2>2, <2>4, <2>6, FormGrows
  <2>10. /\ \A k \in 0 .. n - 1 : params'[k] = params[k]
         /\ params'[n] = entry
    <3>1. n + 1 - 1 = n
      BY <2>2
    <3> QED BY <2>4, <2>8, <3>1 DEF Extended
  <2>11. params'[0] = params[0] /\ params'[1] = params[1]
    <3>1. 0 \in 0 .. n - 1 /\ 1 \in 0 .. n - 1
      BY <2>2, <2>7
    <3> QED BY <2>10, <3>1
  <2>12. \A k \in 1 .. i : params'[1 + k].kind = "PUBKEY"
    <3>1. ASSUME NEW k \in 1 .. i PROVE params'[1 + k].kind = "PUBKEY"
      <4>1. CASE k = i
        BY <2>2, <2>5, <2>7, <2>10, <4>1
      <4>2. CASE k # i
        <5>1. k \in 1 .. i - 1 /\ 1 + k \in 0 .. n - 1
          BY <2>2, <2>7, <4>2
        <5> QED BY <2>3, <2>10, <5>1
      <4> QED BY <4>1, <4>2
    <3> QED BY <3>1
  <2> DEFINE keys == i
             amounts == 0
  <2>13. /\ stage' = "keys" /\ keys = i' - 1 /\ amounts = 0
         /\ \A k \in 1 .. keys : params'[1 + k].kind = "PUBKEY"
         /\ \A k \in 1 .. amounts : params'[1 + num + k].kind = "AMOUNT"
    BY <1>3, <2>1, <2>2, <2>12
  <2> HIDE DEF keys, amounts
  <2> QED BY <1>1, <2>1, <2>9, <2>11, <2>13, PeersKeep
<1> QED BY <1>2, <1>3 DEF PairKey

LEMMA RepeatedCountKeeps ==
    ASSUME IInv, KInv, RepeatedCount
    PROVE  KInv'
<1>1. stage = "keys" /\ i > num /\ CalledInv
  BY DEF RepeatedCount, KInv
<1>2. CASE Refuse
  BY <1>1, <1>2, RefuseKeeps
<1>3. ASSUME NEW next, i' = 1, GoTo("amounts", next), UNCHANGED <<buf, call, list, num>>
      PROVE  KInv'
  <2>1. /\ buf' = buf /\ stage' = "amounts" /\ SameCall /\ UNCHANGED <<params, cur, todo, num>>
    BY <1>3 DEF GoTo, call, list, SameCall
  <2>2. /\ num \in Nat /\ i \in Nat /\ i - 1 = num
    BY <1>1, AtPeers
  <2>3. \A k \in 1 .. i - 1 : params[1 + k].kind = "PUBKEY"
    BY <1>1 DEF KInv, PeersRead, PeersSoFar
  <2>4. \A k \in DOMAIN params' : InForm(params[k])'
    BY <1>1, <2>1, FormKept
  <2> DEFINE keys == num
             amounts == 0
  <2>5. /\ stage' = "amounts" /\ keys = num /\ amounts = i' - 1
        /\ \A k \in 1 .. keys : params'[1 + k].kind = "PUBKEY"
        /\ \A k \in 1 .. amounts : params'[1 + num + k].kind = "AMOUNT"
    BY <1>3, <2>1, <2>2, <2>3
  <2> HIDE DEF keys, amounts
  <2> QED BY <1>1, <2>1, <2>4, <2>5, PeersKeep
<1> QED BY <1>2, <1>3 DEF RepeatedCount

LEMMA PairAmountKeeps ==
    ASSUME IInv, KInv, PairAmount
    PROVE  KInv'
<1> DEFINE end   == parse_amount(offset)
           next  == IF i # num THEN EndParam(end) ELSE end
           entry == AmountEntry(offset)
           n == 1 + num + i
<1>1. stage = "amounts" /\ i <= num /\ CalledInv
  BY DEF PairAmount, KInv
<1>2. CASE Refuse
  BY <1>1, <1>2, RefuseKeeps
<1>3. CASE /\ Found(next) /\ Write(cur + num + i, <<entry>>) /\ i' = i + 1
           /\ GoTo("amounts", next) /\ UNCHANGED <<buf, call, cur, todo, num>>
  <2>1. /\ buf' = buf /\ stage' = "amounts" /\ SameCall /\ UNCHANGED <<cur, todo, num>>
        /\ i' = i + 1
    BY <1>3 DEF GoTo, call, SameCall
  <2>2. /\ cur = 1 /\ num \in Nat /\ i \in Nat /\ 1 <= i /\ DOMAIN params = 0 .. n - 1 /\ n \in Nat
    BY <1>1, AtPeers
  <2>3. /\ \A k \in 1 .. num : params[1 + k].kind = "PUBKEY"
        /\ \A k \in 1 .. i - 1 : params[1 + num + k].kind = "AMOUNT"
    BY <1>1 DEF KInv, PeersRead, PeersSoFar
  <2> DEFINE entries == <<entry>>
  <2>4. Write(n, entries) /\ Len(entries) = 1 /\ entries[1] = entry
        /\ (\A k \in 1 .. 1 : k = 1) /\ 1 \in Nat /\ 1 \in 1 .. 1
    BY <1>3, <2>2
  <2>5. InForm(entry) /\ entry.kind = "AMOUNT"
    <3>1. Buffered /\ offset \in Places
      BY <1>1, AtPair
    <3>2. end \in Places /\ Found(next)
      BY <1>3, <3>1, AmountReads
    <3>3. Found(end)
      <4> HIDE DEF end
      <4>1. CASE i # num
        BY <3>1, <3>2, <4>1, EndPosition
      <4>2. CASE i = num
        BY <3>2, <4>2
      <4> QED BY <4>1, <4>2
    <3> QED BY <3>1, <3>3, AmountInForm DEF AmountEntry, Entry
  <2> HIDE DEF entry, entries
  <2>6. \A k \in 1 .. 1 : InForm(entries[k])
    BY <2>4, <2>5
  <2>7. n = 1 + num + i
    OBVIOUS
  <2> HIDE DEF n
  <2>8. Extended(n, entries, 1)
    BY <2>2, <2>4, WrittenKeeps
  <2>9. \A k \in DOMAIN params' : InForm(params[k])'
    BY <1>1, <2>1, <2>2, <2>4, <2>6, FormGrows
  <2>10. /\ \A k \in 0 .. n - 1 : params'[k] = params[k]
         /\ params'[n] = entry
    <3>1. n + 1 - 1 = n
      BY <2>2
    <3> QED BY <2>4, <2>8, <3>1 DEF Extended
  <2>11. params'[0] = params[0] /\ params'[1] = params[1]
    <3>1. 0 \in 0 .. n - 1 /\ 1 \in 0 .. n - 1
      BY <2>2, <2>7
    <3> QED BY <2>10, <3>1
  <2>12. \A k \in 1 .. num : params'[1 + k].kind = "PUBKEY"
    <3>1. ASSUME NEW k \in 1 .. num PROVE params'[1 + k].kind = "PUBKEY"
      <4>1. 1 + k \in 0 .. n - 1
        BY <2>2, <2>7
      <4> QED BY <2>3, <2>10, <4>1
    <3> QED BY <3>1
  <2>13. \A k \in 1 .. i : params'[1 + num + k].kind = "AMOUNT"
    <3>1. ASSUME NEW k \in 1 .. i PROVE params'[1 + num + k].kind = "AMOUNT"
      <4>1. CASE k = i
        BY <2>2, <2>5, <2>7, <2>10, <4>1
      <4>2. CASE k # i
        <5>1. k \in 1 .. i - 1 /\ 1 + num + k \in 0 .. n - 1
          BY <2>2, <2>7, <4>2
        <5> QED BY <2>3, <2>10, <5>1
      <4> QED BY <4>1, <4>2
    <3> QED BY <3>1
  <2> DEFINE keys == num
             amounts == i
  <2>14. /\ stage' = "amounts" /\ keys = num /\ amounts = i' - 1
         /\ \A k \in 1 .. keys : params'[1 + k].kind = "PUBKEY"
         /\ \A k \in 1 .. amounts : params'[1 + num + k].kind = "AMOUNT"
    BY <2>1, <2>2, <2>12, <2>13
  <2> HIDE DEF keys, amounts
  <2> QED BY <1>1, <2>1, <2>9, <2>11, <2>14, PeersKeep
<1> QED BY <1>2, <1>3 DEF PairAmount

\* The entries of a list of peers are those of the table.
LEMMA PeersReads ==
    ASSUME NEW method \in PeerMethods, NEW n \in Nat, NEW p,
           p[0].kind = "ADDR", p[1].kind = "AMOUNT",
           \A k \in 1 .. n : p[1 + k].kind = "PUBKEY",
           \A k \in 1 .. n : p[1 + n + k].kind = "AMOUNT"
    PROVE  LET kinds == AllEntries("GOV", method, n)
           IN  Len(kinds) = 2 * n + 2 /\ Reads(kinds, p)
<1> DEFINE kinds == AllEntries("GOV", method, n)
<1>1. /\ Len(kinds) = 2 * n + 2 /\ kinds[1] = "ADDR" /\ kinds[2] = "AMOUNT"
      /\ \A k \in 1 .. n : kinds[2 + k] = "PUBKEY" /\ kinds[2 + n + k] = "AMOUNT"
  BY PeersEntries
<1> HIDE DEF kinds
<1>2. ASSUME NEW k \in 1 .. 2 * n + 2 PROVE p[k - 1].kind = kinds[k]
  <2>1. CASE k = 1
    BY <1>1, <2>1
  <2>2. CASE k = 2
    BY <1>1, <2>2
  <2>3. CASE k \in 3 .. 2 + n
    <3> DEFINE j == k - 2
    <3>1. j \in 1 .. n /\ 2 + j = k /\ 1 + j = k - 1
      BY <2>3
    <3> HIDE DEF j
    <3>2. kinds[2 + j] = "PUBKEY" /\ p[1 + j].kind = "PUBKEY"
      BY <1>1, <3>1
    <3> QED BY <3>1, <3>2
  <2>4. CASE k \in 3 + n .. 2 * n + 2
    <3> DEFINE j == k - 2 - n
    <3>1. j \in 1 .. n /\ 2 + n + j = k /\ 1 + n + j = k - 1
      BY <2>4
    <3> HIDE DEF j
    <3>2. kinds[2 + n + j] = "AMOUNT" /\ p[1 + n + j].kind = "AMOUNT"
      BY <1>1, <3>1
    <3> QED BY <3>1, <3>2
  <2> QED BY <2>1, <2>2, <2>3, <2>4
<1> QED BY <1>1, <1>2 DEF kinds, Reads

LEMMA EndPairsKeeps ==
    ASSUME IInv, KInv, EndPairs
    PROVE  KInv'
<1>1. stage = "amounts" /\ i > num /\ CalledInv
  BY DEF EndPairs, KInv
<1>2. CASE Refuse
  BY <1>1, <1>2, RefuseKeeps
<1>3. ASSUME NEW next, cur' = cur + PairsEntries, todo' = Tail(todo), GoTo("params", next),
             UNCHANGED <<buf, call, params, num, i>>
      PROVE  KInv'
  <2>1. /\ buf' = buf /\ stage' = "params" /\ SameCall /\ UNCHANGED <<params, num>>
        /\ cur' = cur + (2 * num + 1)
    BY <1>3 DEF GoTo, call, SameCall, PairsEntries
  <2>2. /\ AtSignature /\ type \in ContractTypes /\ TheContract = "GOV"
        /\ TheMethod \in PeerMethods /\ TheMethod \in Methods("GOV")
        /\ Sig = <<"ADDR", "PK_AMOUNT_PAIRS">> /\ cur = 1 /\ Counted
        /\ params[0].kind = "ADDR" /\ params[1].kind = "AMOUNT"
        /\ num \in Nat /\ i \in Nat /\ i - 1 = num
    BY <1>1, AtPeers
  <2>3. /\ \A k \in 1 .. num : params[1 + k].kind = "PUBKEY"
        /\ \A k \in 1 .. num : params[1 + num + k].kind = "AMOUNT"
    BY <1>1, <2>2 DEF KInv, PeersRead, PeersSoFar
  <2>4. num <= PARAMETERS_MAX_NUM
    BY <1>1, <2>2, SizeAssumption DEF IInv, PairsInv
  <2> DEFINE kinds == AllEntries("GOV", TheMethod, num)
             parts == Parts("GOV", TheMethod, num)
  <2>5. Len(kinds) = 2 * num + 2 /\ Reads(kinds, params)
    BY <2>2, <2>3, PeersReads
  <2>6. kinds = Joins(parts)[2]
    <3>1. "GOV" \in Contracts /\ Len(Sig) = 2
      BY <2>2 DEF Contracts
    <3>2. kinds = Joins(parts)[Len(Signature("GOV", TheMethod))]
      BY <2>2, <3>1, PartsFacts
    <3> QED BY <2>2, <3>1, <3>2 DEF Sig
  <2>7. /\ TheContract' = TheContract /\ TheMethod' = TheMethod /\ KnownMethod' = KnownMethod
        /\ (IsTransferList' <=> IsTransferList) /\ Sig' = Sig /\ type' = type
    BY <2>1, SameTable
  <2>8. todo' = <<>> /\ Len(todo') = 0
    <3>1. todo \in Seq(ParameterTypes) /\ Len(todo) = 1
      BY <1>1, AtPair DEF IInv, TypeInv
    <3>2. \A s \in Seq(ParameterTypes) :
              s # <<>> => Tail(s) \in Seq(ParameterTypes) /\ Len(Tail(s)) = Len(s) - 1
      OBVIOUS
    <3>6. Len(<<>>) = 0
      OBVIOUS
    <3>7. 0 # 1
      OBVIOUS
    <3>3. todo # <<>>
      BY <3>1, <3>6, <3>7, Zenon
    <3>4. Tail(todo) \in Seq(ParameterTypes) /\ Len(Tail(todo)) = 0
      BY <3>1, <3>2, <3>3
    <3>5. \A s \in Seq(ParameterTypes) : Len(s) = 0 => s = <<>>
      OBVIOUS
    <3> QED BY <1>3, <3>4, <3>5
  <2>9. Done' = 2
    <3>1. Len(Sig) = 2
      BY <2>2
    <3>2. Done' = Len(Sig) - 0
      BY <2>7, <2>8 DEF Done
    <3> QED BY <3>1, <3>2
  <2> HIDE DEF kinds
  <2>10. KindsDone' = kinds
    BY <2>1, <2>2, <2>6, <2>7, <2>9 DEF KindsDone
  <2>11. AtSignature'
    <3>1. Len(Sig) = 2
      BY <2>2
    <3> QED BY <2>2, <2>7, <2>8, <3>1 DEF AtSignature
  <2>12. Counted'
    BY <2>1, <2>2, CountedStays
  <2>13. ParamsRead'
    <3>1. Len(kinds) = cur'
      BY <2>1, <2>2, <2>5
    <3>2. Reads(KindsDone, params)' /\ Len(KindsDone)' = cur' /\ num' <= PARAMETERS_MAX_NUM
      BY <2>1, <2>4, <2>5, <2>10, <3>1 DEF Reads
    <3> QED BY <2>11, <2>12, <3>2 DEF ParamsRead
  <2>14. \A k \in DOMAIN params' : InForm(params[k])'
    BY <1>1, <2>1, FormKept
  <2>15. CalledInv'
    BY <2>1, <2>2, <2>7, <2>14 DEF CalledInv, AtStart
  <2>16. PeersRead' /\ TransfersRead' /\ AllRead'
    BY <2>1 DEF PeersRead, TransfersRead, AllRead, Accepted
  <2> QED BY <2>13, <2>15, <2>16 DEF KInv
<1> QED BY <1>2, <1>3 DEF EndPairs
-----------------------------------------------------------------------------

\* The end of a call.
LEMMA CloseKeeps ==
    ASSUME CalledInv, type \in ContractTypes, NEW at, Close(at),
           NEW n \in 0 .. PARAMETERS_MAX_NUM, n = Number, KnownMethod # {},
           DOMAIN params = 0 .. cur - 1,
           Len(AllEntries(TheContract, TheMethod, n)) = cur,
           Reads(AllEntries(TheContract, TheMethod, n), params),
           TheMethod \in PeerMethods => Counted /\ n = num
    PROVE  KInv'
<1>1. CASE Refuse
  BY <1>1, RefuseKeeps
<1>2. CASE Skip(Measured(at), at)
  <2>1. /\ stage' \in {"PARSING_OK", "PARSING_LENGTH_WRONG"} /\ SameCall
        /\ UNCHANGED <<buf, params, cur, num, i>>
    BY <1>2 DEF Skip, GoTo, Measured, call, list, loop, SameCall
  <2>2. /\ TheContract' = TheContract /\ TheMethod' = TheMethod /\ KnownMethod' = KnownMethod
        /\ (IsTransferList' <=> IsTransferList) /\ type' = type
    BY <2>1, SameTable
  <2>3. Number' = n
    BY <2>1, <2>2 DEF Number
  <2>4. TheMethod' \in PeerMethods => Counted' /\ Number' = num'
    BY <2>1, <2>2, <2>3, CountedStays
  <2>5. AllRead'
    <3> DEFINE kinds == AllEntries(TheContract, TheMethod, n)
    <3>1. AllEntries(TheContract', TheMethod', Number') = kinds
      BY <2>2, <2>3
    <3>2. Len(kinds) = cur /\ Reads(kinds, params)
      OBVIOUS
    <3> HIDE DEF kinds
    <3>3. Len(kinds) = cur' /\ Reads(kinds, params')
      BY <2>1, <3>2
    <3> QED BY <2>1, <2>2, <2>3, <2>4, <3>1, <3>3 DEF AllRead, Reads
  <2>6. \A k \in DOMAIN params' : InForm(params[k])'
    BY <2>1, FormKept
  <2>7. CalledInv'
    BY <2>1, <2>2, <2>6 DEF CalledInv, AtStart
  <2>8. ParamsRead' /\ PeersRead' /\ TransfersRead'
    BY <2>1 DEF ParamsRead, PeersRead, TransfersRead
  <2> QED BY <2>5, <2>7, <2>8 DEF KInv
<1> QED BY <1>1, <1>2 DEF Close

LEMMA EndParamsKeeps ==
    ASSUME IInv, KInv, EndParams
    PROVE  KInv'
<1>1. stage = "params" /\ todo = <<>>
  BY DEF EndParams
<1>2. PICK at : Close(at)
  BY DEF EndParams
<1>3. /\ AtSignature /\ CalledInv /\ type \in ContractTypes
      /\ TheContract \in Contracts /\ TheMethod \in Methods(TheContract)
      /\ num \in Nat /\ num <= PARAMETERS_MAX_NUM
      /\ Len(Sig) \in Nat /\ Len(todo) \in Nat /\ Done + Len(todo) = Len(Sig) /\ Done \in 0 .. Len(Sig)
      /\ Len(KindsDone) = cur /\ Reads(KindsDone, params)
  BY <1>1, AtParamKinds
<1>4. Done = Len(Sig)
  <2>1. Len(todo) = 0
    BY <1>1
  <2> QED BY <1>3, <2>1
<1>5. KindsDone = AllEntries(TheContract, TheMethod, num)
  BY <1>3, <1>4, PartsFacts DEF KindsDone, Sig
<1>6. num = Number /\ KnownMethod # {}
  BY <1>3 DEF Number, AtSignature
<1>7. DOMAIN params = 0 .. cur - 1
  <2>1. Working /\ Written = cur
    BY <1>1 DEF Working, Statuses, Written
  <2> QED BY <2>1, EntriesWritten
<1>8. TheMethod \in PeerMethods => Counted
  BY <1>1 DEF KInv, ParamsRead
<1>9. num \in 0 .. PARAMETERS_MAX_NUM
  BY <1>3, SizeAssumption
<1> QED BY <1>2, <1>3, <1>5, <1>6, <1>7, <1>8, <1>9, CloseKeeps

\* What holds while transfers are read.
LEMMA AtTransfers ==
    ASSUME IInv, KInv, stage = "transfers"
    PROVE  /\ IsTransferList /\ CalledInv /\ type \in ContractTypes
           /\ i \in Nat /\ cur \in Nat /\ cur = 3 * i /\ Working
           /\ DOMAIN params = 0 .. cur - 1
           /\ \A k \in 0 .. cur - 1 : params[k].kind = KindInList(k)
<1>1. Working /\ Written = cur
  BY DEF Working, Statuses, Written
<1>2. DOMAIN params = 0 .. cur - 1
  BY <1>1, EntriesWritten
<1> QED BY <1>1, <1>2 DEF KInv, TransfersRead, CalledInv, Typed, IInv, TypeInv

\* The three entries of one transfer.
LEMMA KindsOfTransfer ==
    ASSUME NEW n \in Nat
    PROVE  /\ KindInList(3 * n) = "ADDR" /\ KindInList(3 * n + 1) = "ADDR"
           /\ KindInList(3 * n + 2) = "AMOUNT"
<1>1. (3 * n) % 3 = 0
  OBVIOUS
<1>2. (3 * n + 1) % 3 = 1
  OBVIOUS
<1>3. (3 * n + 2) % 3 = 2
  OBVIOUS
<1>4. Triple[1] = "ADDR" /\ Triple[2] = "ADDR" /\ Triple[3] = "AMOUNT"
  BY DEF Triple
<1> QED BY <1>1, <1>2, <1>3, <1>4 DEF KindInList

LEMMA TransferKeeps ==
    ASSUME IInv, KInv, Transfer
    PROVE  KInv'
<1> DEFINE entries == StateEntries(offset)
<1>1. stage = "transfers" /\ CalledInv
  BY DEF Transfer, KInv
<1>2. CASE Refuse
  BY <1>1, <1>2, RefuseKeeps
<1>3. CASE /\ Found(StateEnd(offset)) /\ Write(cur, entries)
           /\ cur' = cur + 3 /\ i' = i + 1
           /\ GoTo("transfers", StateEnd(offset)) /\ UNCHANGED <<buf, call, todo, num>>
  <2>1. /\ buf' = buf /\ stage' = "transfers" /\ SameCall /\ cur' = cur + 3 /\ i' = i + 1
    BY <1>3 DEF GoTo, call, SameCall
  <2>2. /\ IsTransferList /\ type \in ContractTypes
        /\ i \in Nat /\ cur \in Nat /\ cur = 3 * i /\ DOMAIN params = 0 .. cur - 1
        /\ \A k \in 0 .. cur - 1 : params[k].kind = KindInList(k)
        /\ Buffered /\ offset \in Places
    BY <1>1, AtTransfers, Known
  <2>3. /\ Len(entries) = 3 /\ \A k \in 1 .. 3 : InForm(entries[k])
        /\ entries[1].kind = "ADDR" /\ entries[2].kind = "ADDR" /\ entries[3].kind = "AMOUNT"
    BY <1>3, <2>2, StateInForm
  <2>4. Write(cur, entries) /\ 3 \in Nat
    BY <1>3
  <2> HIDE DEF entries
  <2>5. Extended(cur, entries, 3)
    BY <2>2, <2>3, <2>4, WrittenKeeps
  <2>6. \A k \in DOMAIN params' : InForm(params[k])'
    BY <1>1, <2>1, <2>2, <2>3, <2>4, FormGrows
  <2>7. /\ \A k \in 0 .. cur - 1 : params'[k] = params[k]
        /\ params'[cur] = entries[1] /\ params'[cur + 1] = entries[2]
        /\ params'[cur + 2] = entries[3]
    <3>1. 1 \in 1 .. 3 /\ 2 \in 1 .. 3 /\ 3 \in 1 .. 3
      OBVIOUS
    <3>2. cur + 1 - 1 = cur /\ cur + 2 - 1 = cur + 1 /\ cur + 3 - 1 = cur + 2
      BY <2>2
    <3>3. \A k \in 1 .. 3 : params'[cur + k - 1] = entries[k]
      BY <2>5 DEF Extended
    <3>4. /\ params'[cur + 1 - 1] = entries[1] /\ params'[cur + 2 - 1] = entries[2]
          /\ params'[cur + 3 - 1] = entries[3]
      BY <3>1, <3>3
    <3> QED BY <2>5, <3>2, <3>4 DEF Extended
  <2>8. /\ KindInList(cur) = "ADDR" /\ KindInList(cur + 1) = "ADDR"
        /\ KindInList(cur + 2) = "AMOUNT"
    BY <2>2, KindsOfTransfer
  <2>9. \A k \in 0 .. cur' - 1 : params'[k].kind = KindInList(k)
    <3>1. ASSUME NEW k \in 0 .. cur + 2 PROVE params'[k].kind = KindInList(k)
      <4>1. k \in 0 .. cur - 1 \/ k = cur \/ k = cur + 1 \/ k = cur + 2
        BY <2>2
      <4> QED BY <2>2, <2>3, <2>7, <2>8, <4>1
    <3> QED BY <2>1, <2>2, <3>1
  <2>10. (IsTransferList' <=> IsTransferList) /\ type' = type
    BY <2>1, SameTable
  <2>11. TransfersRead'
    <3>1. cur' = 3 * i'
      BY <2>1, <2>2
    <3> QED BY <2>2, <2>9, <2>10, <3>1 DEF TransfersRead
  <2>12. CalledInv'
    BY <2>1, <2>2, <2>6, <2>10 DEF CalledInv, AtStart
  <2>13. ParamsRead' /\ PeersRead' /\ AllRead'
    BY <2>1 DEF ParamsRead, PeersRead, AllRead, Accepted
  <2> QED BY <2>11, <2>12, <2>13 DEF KInv
<1> QED BY <1>2, <1>3 DEF Transfer

LEMMA EndTransfersKeeps ==
    ASSUME IInv, KInv, EndTransfers
    PROVE  KInv'
<1>1. stage = "transfers"
  BY DEF EndTransfers
<1>2. PICK at : Close(at)
  BY DEF EndTransfers
<1>3. /\ IsTransferList /\ CalledInv /\ type \in ContractTypes
      /\ i \in Nat /\ cur \in Nat /\ cur = 3 * i /\ DOMAIN params = 0 .. cur - 1
      /\ \A k \in 0 .. cur - 1 : params[k].kind = KindInList(k)
  BY <1>1, AtTransfers
<1>4. KnownMethod # {} /\ TheContract \in {"ONT", "ONG"} /\ TheMethod \in TransferMethods
  BY <1>3, TransferTable
<1> DEFINE kinds == AllEntries(TheContract, TheMethod, i)
<1>5. Len(kinds) = 3 * i /\ \A k \in 0 .. 3 * i - 1 : kinds[k + 1] = KindInList(k)
  BY <1>3, <1>4, ListEntries
<1>6. Len(kinds) = cur /\ Reads(kinds, params)
  <2> HIDE DEF kinds
  <2>1. ASSUME NEW k \in 1 .. cur PROVE params[k - 1].kind = kinds[k]
    <3>1. k - 1 \in 0 .. cur - 1 /\ (k - 1) + 1 = k
      BY <1>3
    <3>2. kinds[(k - 1) + 1] = KindInList(k - 1) /\ params[k - 1].kind = KindInList(k - 1)
      BY <1>3, <1>5, <3>1
    <3> QED BY <3>1, <3>2
  <2> QED BY <1>3, <1>5, <2>1 DEF Reads
<1>7. i \in 0 .. PARAMETERS_MAX_NUM
  <2>1. cur <= PARAMETERS_MAX_NUM /\ PARAMETERS_MAX_NUM \in Nat
    BY SizeAssumption DEF IInv, TypeInv
  <2> QED BY <1>3, <2>1
<1>8. i = Number /\ TheMethod \notin PeerMethods
  BY <1>3, <1>4 DEF Number, TransferMethods, PeerMethods
<1> QED BY <1>2, <1>3, <1>4, <1>6, <1>7, <1>8, CloseKeeps
-----------------------------------------------------------------------------

LEMMA NextKeeps ==
    ASSUME IInv, KInv, [Next]_vars
    PROVE  KInv'
<1>1. CASE UNCHANGED vars
  <2>1. UNCHANGED <<buf, offset, stage, type, addr, name, params, cur, todo, num, i>> /\ SameCall
    BY <1>1 DEF vars, call, list, loop, SameCall
  <2>2. /\ TheContract' = TheContract /\ TheMethod' = TheMethod /\ KnownMethod' = KnownMethod
        /\ (IsTransferList' <=> IsTransferList) /\ Sig' = Sig /\ type' = type
    BY <2>1, SameTable
  <2>3. \A k \in DOMAIN params' : InForm(params[k])'
    BY <2>1, FormKept DEF KInv
  <2>4. CalledInv'
    BY <2>1, <2>3 DEF KInv, CalledInv
  <2>5. Counted' <=> Counted
    BY <2>1 DEF Counted, Content, Slice
  <2>6. ParamsRead'
    BY <2>1, <2>2, <2>5 DEF KInv, ParamsRead, AtSignature, KindsDone, Done, Reads
  <2>7. PeersRead'
    BY <2>1, <2>2, <2>5 DEF KInv, PeersRead, PeersSoFar, AtSignature, Done
  <2>8. TransfersRead'
    BY <2>1, <2>2 DEF KInv, TransfersRead
  <2>9. AllRead'
    BY <2>1, <2>2, <2>5 DEF KInv, AllRead, Accepted, Number, Reads
  <2> QED BY <2>4, <2>6, <2>7, <2>8, <2>9 DEF KInv
<1>2. CASE Next
  BY <1>2, HeaderKeeps, PayloadSizeKeeps, ContractKeeps, WasmMethodKeeps, MethodKeeps,
     StartTransfersKeeps, StartParamsKeeps, SimpleParamKeeps, OntIdKeeps,
     TransferStateParamKeeps, ListParamKeeps, StartPairsKeeps, PairKeyKeeps, RepeatedCountKeeps,
     PairAmountKeeps, EndPairsKeeps, EndParamsKeeps, TransferKeeps, EndTransfersKeeps, <1>1
  DEF Next, Ended
<1> QED BY <1>1, <1>2

THEOREM ReadingInvariance == Spec => []KInv
<1>1. IInv /\ KInv /\ [Next]_vars => KInv'
  BY NextKeeps
<1> QED BY InitKeeps, <1>1, Invariance, PTL DEF Spec
-----------------------------------------------------------------------------
(* What follows for a call that is accepted.                               *)

\* The bytes of an entry.
LEMMA ContentBytes ==
    ASSUME IInv, NEW k \in DOMAIN params
    PROVE  /\ params[k].at \in Nat /\ params[k].len \in Nat
           /\ params[k].at + params[k].len <= size /\ params[k].kind \in PARAM_KINDS
           /\ Content(k) \in Seq(Bytes) /\ Len(Content(k)) = params[k].len
           /\ params[k].len # 0 => Content(k)[1] = Byte(params[k].at)
<1>1. TypeOK
  BY InvType
<1> DEFINE at == params[k].at
           len == params[k].len
<1>2. /\ at \in Nat /\ len \in Nat /\ at + len <= size /\ params[k].kind \in PARAM_KINDS
      /\ Buffered /\ size \in Nat
  BY <1>1, BytesRead DEF TypeOK, Positions, IInv
<1> HIDE DEF at, len
<1>3. Slice(at, len) \in Seq(Bytes) /\ Len(Slice(at, len)) = len
  BY <1>2, SliceBytes
<1>4. len # 0 => Slice(at, len)[1] = Byte(at)
  BY <1>2 DEF Slice, Byte, Buffered, size
<1> QED BY <1>2, <1>3, <1>4 DEF at, len, Content

LEMMA EntryConverts ==
    ASSUME IInv, KInv, NEW k \in DOMAIN params, params[k].kind \in {"AMOUNT", "UINT128"}
    PROVE  convert_params_to_uint128_le(params[k].kind, params[k].kind = "AMOUNT", Content(k))
<1> DEFINE kind == params[k].kind
           data == Content(k)
           byte == Byte(params[k].at)
<1>1. /\ data \in Seq(Bytes) /\ Len(data) = params[k].len
      /\ params[k].len \in Nat /\ params[k].len # 0 => data[1] = byte
  BY ContentBytes
<1>2. InForm(params[k])
  BY DEF KInv, CalledInv
<1>3. kind = "UINT128" => Len(data) = 2 * U64
  BY <1>1, <1>2 DEF InForm
<1>4. kind = "AMOUNT" =>
          data # <<>> /\ AmountStarts(data[1]) /\ Len(data) = AmountLength(data[1])
  <2> SUFFICES ASSUME kind = "AMOUNT"
               PROVE  data # <<>> /\ AmountStarts(data[1]) /\ Len(data) = AmountLength(data[1])
    OBVIOUS
  <2>1. AmountStarts(byte) /\ params[k].len = AmountLength(byte) /\ params[k].len # 0
    BY <1>2 DEF InForm
  <2>2. data[1] = byte /\ Len(data) # 0
    BY <1>1, <2>1
  <2> HIDE DEF data
  <2>3. Len(<<>>) = 0
    OBVIOUS
  <2>4. data # <<>>
    BY <2>2, <2>3
  <2> QED BY <1>1, <2>1, <2>2, <2>4
<1> HIDE DEF data, kind
<1>5. convert_params_to_uint128_le(kind, kind = "AMOUNT", data)
  <2>1. kind \in {"AMOUNT", "UINT128"}
    BY DEF kind
  <2> QED BY <1>1, <1>3, <1>4, <2>1, FormConverts
<1> QED BY <1>5 DEF data, kind

LEMMA AllReadable == IInv /\ KInv => AmountsReadable
<1> SUFFICES ASSUME IInv, KInv, Accepted, NEW k \in 0 .. cur - 1,
                    IF Wasm THEN params[k].kind = "UINT128" ELSE params[k].kind = "AMOUNT"
             PROVE  convert_params_to_uint128_le(params[k].kind, ~Wasm, Content(k))
  BY DEF AmountsReadable
<1>1. k \in DOMAIN params
  BY DEF KInv, AllRead
<1>2. convert_params_to_uint128_le(params[k].kind, params[k].kind = "AMOUNT", Content(k))
  BY <1>1, EntryConverts
<1>3. (params[k].kind = "AMOUNT") = ~Wasm
  <2>1. Wasm \in BOOLEAN
    BY DEF Wasm
  <2> QED BY <2>1
<1> QED BY <1>2, <1>3

\* The tables' kinds are as many as the entries, and theirs.
LEMMA AcceptedKinds ==
    ASSUME IInv, KInv, Accepted
    PROVE  /\ TheContract \in Contracts /\ TheMethod \in Methods(TheContract)
           /\ Number \in 0 .. PARAMETERS_MAX_NUM /\ cur \in 0 .. PARAMETERS_MAX_NUM
           /\ DOMAIN params = 0 .. cur - 1
           /\ [k \in 1 .. cur |-> params[k - 1].kind]
                  = AllEntries(TheContract, TheMethod, Number)
<1> DEFINE kinds == AllEntries(TheContract, TheMethod, Number)
<1>1. /\ KnownMethod # {} /\ Number \in 0 .. PARAMETERS_MAX_NUM
      /\ DOMAIN params = 0 .. cur - 1
      /\ Len(kinds) = cur /\ \A k \in 1 .. Len(kinds) : params[k - 1].kind = kinds[k]
  BY DEF KInv, AllRead, Reads
<1>2. TheContract \in Contracts /\ TheMethod \in Methods(TheContract)
  BY <1>1, TheTable
<1>3. Number \in Nat /\ cur \in 0 .. PARAMETERS_MAX_NUM
  BY <1>1, SizeAssumption DEF IInv, TypeInv
<1>4. kinds \in Seq(PARAM_KINDS)
  BY <1>2, <1>3, PartsFacts
<1> HIDE DEF kinds
<1>5. kinds = [k \in 1 .. Len(kinds) |-> kinds[k]]
  BY <1>4
<1>6. [k \in 1 .. cur |-> params[k - 1].kind] = [k \in 1 .. Len(kinds) |-> kinds[k]]
  BY <1>1
<1> QED BY <1>1, <1>2, <1>3, <1>5, <1>6 DEF kinds

LEMMA AllAsTable == IInv /\ KInv => EntriesAsTable
BY AcceptedKinds DEF EntriesAsTable

LEMMA AmountNat ==
    ASSUME IInv, NEW k \in DOMAIN params
    PROVE  Amount(k) \in Nat
<1> DEFINE data == Content(k)
<1>1. data \in Seq(Bytes)
  BY ContentBytes
<1> HIDE DEF data
<1>2. convert_param_to_uint64_le(data) => AsUint64(data) \in Nat
  <2> SUFFICES ASSUME convert_param_to_uint64_le(data) PROVE AsUint64(data) \in Nat
    OBVIOUS
  <2>1. data # <<>>
    <3>1. Len(data) # 0 /\ Len(<<>>) = 0
      BY WordAssumption DEF convert_param_to_uint64_le
    <3> QED BY <3>1
  <2>2. Tail(data) \in Seq(Bytes)
    BY <1>1, <2>1
  <2>3. LittleEndian(Tail(data)) \in Nat
    BY <2>2, LittleEndianNat
  <2>4. IsPushNumber(data[1]) => data[1] - OPCODE_PUSH_NUMBER \in Nat
    BY DEF IsPushNumber, OPCODE_PUSH_NUMBER
  <2> QED BY <2>3, <2>4 DEF AsUint64
<1> QED BY <1>2 DEF Amount, data

LEMMA UnknownApart ==
    ASSUME NEW c \in Contracts, NEW m \in Methods(c)
    PROVE  m # Unknown
BY DEF Contracts, Methods, GovernanceMethods, PeerMethods, TransferMethods, TransferFromMethods,
       ApproveMethods, Unknown

LEMMA AllFed == IInv /\ KInv => FeedsReviewPages
<1> SUFFICES ASSUME IInv, KInv, stage \in {"PARSING_OK", "PARSING_TX_NOT_DEFINED"}
             PROVE  WellParsed(ParsedTx, PARAMETERS_MAX_NUM)
  BY DEF FeedsReviewPages
<1> DEFINE t == ParsedTx
<1>1. t.type = type /\ type \in ContractTypes
  BY DEF ParsedTx, KInv, CalledInv, Typed
<1>2. CASE ~Accepted
  <2>1. t.method = Unknown
    BY <1>2 DEF ParsedTx
  <2>2. t.params = [k \in 1 .. 0 |-> [kind |-> params[k - 1].kind, value |-> Amount(k - 1)]]
    BY <1>2 DEF ParsedTx
  <2>3. t.params = <<>>
    BY <2>2
  <2> HIDE DEF t
  <2>4. t.params \in Seq([kind : PARAM_KINDS, value : Nat]) /\ Len(t.params) = 0
    BY <2>3
  <2>5. 0 <= PARAMETERS_MAX_NUM
    BY SizeAssumption
  <2>6. WellParsed(t, PARAMETERS_MAX_NUM)
    BY <1>1, <2>1, <2>4, <2>5 DEF WellParsed
  <2> QED BY <2>6 DEF t
<1>3. CASE Accepted
  <2> DEFINE kinds == AllEntries(TheContract, TheMethod, Number)
             entries == t.params
  <2>1. t.contract = TheContract /\ t.method = TheMethod
        /\ entries = [k \in 1 .. cur |->
                         [kind |-> params[k - 1].kind, value |-> Amount(k - 1)]]
    BY <1>3 DEF ParsedTx
  <2>2. /\ TheContract \in Contracts /\ TheMethod \in Methods(TheContract)
        /\ Number \in 0 .. PARAMETERS_MAX_NUM /\ cur \in 0 .. PARAMETERS_MAX_NUM
        /\ DOMAIN params = 0 .. cur - 1
        /\ [k \in 1 .. cur |-> params[k - 1].kind] = kinds
    BY <1>3, AcceptedKinds
  <2>3. ASSUME NEW k \in 1 .. cur
        PROVE  [kind |-> params[k - 1].kind, value |-> Amount(k - 1)]
                   \in [kind : PARAM_KINDS, value : Nat]
    <3>1. k - 1 \in DOMAIN params
      BY <2>2, SizeAssumption
    <3>2. params[k - 1].kind \in PARAM_KINDS /\ Amount(k - 1) \in Nat
      BY <3>1, ContentBytes, AmountNat
    <3> QED BY <3>2
  <2> HIDE DEF entries, kinds
  <2>4. entries \in Seq([kind : PARAM_KINDS, value : Nat]) /\ Len(entries) = cur
    BY <2>1, <2>2, <2>3, SizeAssumption
  <2>5. [k \in 1 .. Len(entries) |-> entries[k].kind] = kinds
    <3>1. \A k \in 1 .. cur : entries[k].kind = params[k - 1].kind
      BY <2>1
    <3>2. [k \in 1 .. Len(entries) |-> entries[k].kind] = [k \in 1 .. cur |-> params[k - 1].kind]
      BY <2>4, <3>1
    <3> QED BY <2>2, <3>2
  <2>6. TheMethod \in PeerMethods => entries[2].value = Number
    <3> SUFFICES ASSUME TheMethod \in PeerMethods PROVE entries[2].value = Number
      OBVIOUS
    <3>1. Counted /\ Number = num
      BY <1>3 DEF KInv, AllRead
    <3>2. TheContract = "GOV"
      BY <2>2, SignatureTable
    <3>3. Len(kinds) = 2 * Number + 2 /\ kinds[2] = "AMOUNT"
      BY <2>2, <3>2, PeersEntries, SizeAssumption DEF kinds
    <3>4. Number \in Nat
      BY <2>2, SizeAssumption
    <3>5. Len(kinds) = cur
      BY <2>2, SizeAssumption
    <3>6. 2 \in 1 .. cur /\ 2 - 1 = 1
      BY <3>3, <3>4, <3>5
    <3>7. entries[2].kind = params[1].kind /\ entries[2].value = Amount(1)
      BY <2>1, <3>6
    <3>8. entries[2].kind = kinds[2]
      BY <2>4, <2>5, <3>6
    <3>9. Amount(1) = num
      BY <3>1, <3>3, <3>7, <3>8 DEF Amount, Counted
    <3> QED BY <3>1, <3>7, <3>9
  <2>7. cur <= PARAMETERS_MAX_NUM
    BY <2>2, SizeAssumption
  <2> HIDE DEF t
  <2>8. \E n \in 0 .. PARAMETERS_MAX_NUM :
            /\ [k \in 1 .. Len(t.params) |-> t.params[k].kind]
                   = AllEntries(t.contract, t.method, n)
            /\ t.method \in PeerMethods => t.params[2].value = n
    BY <2>1, <2>2, <2>5, <2>6 DEF entries, kinds
  <2>9. WellParsed(t, PARAMETERS_MAX_NUM)
    BY <1>1, <2>1, <2>2, <2>4, <2>7, <2>8 DEF WellParsed, entries
  <2> QED BY <2>9 DEF t
<1> QED BY <1>2, <1>3

\* parse_method_params leaves in method.parameters what the signature announces:
\* as many entries, and of those kinds, for each method and number of pairs or
\* transfers (parse.c 204 to 271).
THEOREM EntriesFollowTable == Spec => []EntriesAsTable
  BY Invariance, ReadingInvariance, AllAsTable, PTL

\* What the review of a transaction takes for granted (tx_init.c and
\* nbgl_display_transaction.c) is true of whatever the parser lets through.
THEOREM PagesAreFed == Spec => []FeedsReviewPages
  BY Invariance, ReadingInvariance, AllFed, PTL

\* An amount that parse_amount lets pass is not refused by
\* convert_params_to_uint128_le, unless the type of the call disagrees with its
\* parameters' table on the form of an amount.
THEOREM AmountsStayReadable == Spec => []AmountsReadable
  BY Invariance, ReadingInvariance, AllReadable, PTL

-----------------------------------------------------------------------------
(* Pieces of the transaction.                                              *)

\* The bytes from one position up to another.
Span(a, b) == Slice(a, b - a)

LEMMA SpanFacts ==
    ASSUME Buffered, NEW a \in Nat, NEW b \in Nat, a <= b, b <= size
    PROVE  /\ Span(a, b) \in Seq(Bytes) /\ Len(Span(a, b)) = b - a
           /\ \A j \in 1 .. b - a : Span(a, b)[j] = buf[a + j]
<1> DEFINE n == b - a
<1>1. n \in Nat /\ a + n = b
  OBVIOUS
<1> HIDE DEF n
<1>2. Slice(a, n) \in Seq(Bytes) /\ Len(Slice(a, n)) = n
  BY <1>1, SliceBytes
<1>3. \A j \in 1 .. n : Slice(a, n)[j] = buf[a + j]
  BY <1>1 DEF Slice, Buffered, size
<1> QED BY <1>2, <1>3 DEF Span, n

LEMMA SpanJoin ==
    ASSUME Buffered, NEW a \in Nat, NEW b \in Nat, NEW d \in Nat, a <= b, b <= d, d <= size
    PROVE  Span(a, d) = Span(a, b) \o Span(b, d)
<1> DEFINE s == Span(a, b)
           t == Span(b, d)
           u == Span(a, d)
<1>0. size \in Nat
  BY BytesRead
<1>1. s \in Seq(Bytes) /\ Len(s) = b - a /\ \A j \in 1 .. b - a : s[j] = buf[a + j]
  BY <1>0, SpanFacts
<1>2. t \in Seq(Bytes) /\ Len(t) = d - b /\ \A j \in 1 .. d - b : t[j] = buf[b + j]
  BY <1>0, SpanFacts
<1>3. u \in Seq(Bytes) /\ Len(u) = d - a /\ \A j \in 1 .. d - a : u[j] = buf[a + j]
  BY <1>0, SpanFacts
<1> HIDE DEF s, t, u
<1>4. /\ s \o t \in Seq(Bytes) /\ Len(s \o t) = d - a
      /\ \A j \in 1 .. b - a : (s \o t)[j] = s[j]
      /\ \A j \in 1 .. d - b : (s \o t)[(b - a) + j] = t[j]
  <2>1. /\ s \o t \in Seq(Bytes) /\ Len(s \o t) = Len(s) + Len(t)
        /\ \A j \in 1 .. Len(s) : (s \o t)[j] = s[j]
        /\ \A j \in 1 .. Len(t) : (s \o t)[Len(s) + j] = t[j]
    <3>1. s \in Seq(Bytes) /\ t \in Seq(Bytes)
      BY <1>1, <1>2
    <3> HIDE DEF Buffered
    <3> QED BY <3>1, JoinedTwo, SMTT(30)
  <2>2. (b - a) + (d - b) = d - a
    OBVIOUS
  <2> QED BY <1>1, <1>2, <2>1, <2>2
<1>5. ASSUME NEW j \in 1 .. d - a PROVE (s \o t)[j] = u[j]
  <2>1. CASE j <= b - a
    <3>1. j \in 1 .. b - a
      BY <2>1
    <3>2. (s \o t)[j] = s[j]
      BY <1>4, <3>1
    <3>3. s[j] = buf[a + j] /\ u[j] = buf[a + j]
      BY <1>1, <1>3, <3>1
    <3> QED BY <3>2, <3>3
  <2>2. CASE j > b - a
    <3> DEFINE k == j - (b - a)
    <3>1. k \in 1 .. d - b /\ (b - a) + k = j /\ b + k = a + j
      BY <2>2
    <3> HIDE DEF k
    <3>2. (s \o t)[j] = t[k]
      BY <1>4, <3>1
    <3>3. t[k] = buf[b + k] /\ u[j] = buf[a + j]
      BY <1>2, <1>3, <3>1
    <3> QED BY <3>1, <3>2, <3>3
  <2>3. j <= b - a \/ j > b - a
    OBVIOUS
  <2> QED BY <2>1, <2>2, <2>3
<1>6. u = s \o t
  BY <1>3, <1>4, <1>5, SameElements
<1> QED BY <1>6 DEF s, t, u

LEMMA OneByte ==
    ASSUME Buffered, NEW a \in Nat, a < size
    PROVE  Span(a, a + 1) = <<Byte(a)>>
<1>1. size \in Nat /\ Byte(a) \in Bytes
  BY BytesRead
<1>2. /\ Span(a, a + 1) \in Seq(Bytes) /\ Len(Span(a, a + 1)) = (a + 1) - a
      /\ \A j \in 1 .. (a + 1) - a : Span(a, a + 1)[j] = buf[a + j]
  <2> DEFINE b == a + 1
  <2>1. b \in Nat /\ a <= b /\ b <= size
    BY <1>1
  <2> HIDE DEF b
  <2>2. /\ Span(a, b) \in Seq(Bytes) /\ Len(Span(a, b)) = b - a
        /\ \A j \in 1 .. b - a : Span(a, b)[j] = buf[a + j]
    BY <2>1, SpanFacts
  <2> QED BY <2>2 DEF b
<1> DEFINE s == Span(a, a + 1)
           t == <<Byte(a)>>
<1>3. t \in Seq(Bytes) /\ Len(t) = 1 /\ t[1] = buf[a + 1]
  BY <1>1 DEF Byte
<1>4. Len(s) = 1 /\ s[1] = buf[a + 1]
  BY <1>2
<1> HIDE DEF s, t
<1>5. s = t
  BY <1>2, <1>3, <1>4, SameElements DEF s
<1> QED BY <1>5 DEF s, t

\* A constant that is found.
LEMMA ConstantSpan ==
    ASSUME Buffered, NEW at \in Places, NEW str, NEW n \in Nat, Len(str) = n,
           Found(parse_check_constant(at, str))
    PROVE  /\ parse_check_constant(at, str) = at + n /\ at \in Nat /\ at + n <= size
           /\ Span(at, parse_check_constant(at, str)) = str
<1>1. /\ parse_check_constant(at, str) = at + n /\ Slice(at, n) = str
  BY ConstantReads
<1>2. at \in Nat /\ (at + n) - at = n /\ at + n <= size
  BY <1>1, BytesRead DEF Places, Found
<1> QED BY <1>1, <1>2 DEF Span

\* A byte that counts the ones behind it, and those.
LEMMA SizedSpan ==
    ASSUME Buffered, NEW at \in Places, NEW sizes, Found(Sized(at, sizes))
    PROVE  /\ at \in Nat /\ at < size /\ Byte(at) \in sizes /\ Byte(at) \in Bytes
           /\ Sized(at, sizes) = at + 1 + Byte(at) /\ Sized(at, sizes) <= size
           /\ Slice(at + 1, Byte(at)) \in Seq(Bytes) /\ Len(Slice(at + 1, Byte(at))) = Byte(at)
           /\ Span(at, Sized(at, sizes)) = WithLength(Slice(at + 1, Byte(at)))
<1> DEFINE n == Byte(at)
<1>1. at \in Nat /\ size \in Nat
  BY BytesRead DEF Places
<1>2. at < size /\ n \in sizes /\ Sized(at, sizes) = at + 1 + n /\ at + 1 + n <= size
  BY SizedReads DEF Found
<1>3. n \in Bytes /\ n \in Nat
  BY <1>1, <1>2, BytesRead DEF Bytes
<1>4. Span(at, at + 1) = <<n>>
  BY <1>1, <1>2, OneByte
<1> HIDE DEF n
<1>5. Slice(at + 1, n) \in Seq(Bytes) /\ Len(Slice(at + 1, n)) = n
  BY <1>1, <1>2, <1>3, SliceBytes
<1>6. Span(at + 1, at + 1 + n) = Slice(at + 1, n)
  <2>1. (at + 1 + n) - (at + 1) = n
    BY <1>1, <1>3
  <2> QED BY <2>1 DEF Span
<1>7. Span(at, at + 1 + n) = Span(at, at + 1) \o Span(at + 1, at + 1 + n)
  <2>1. at + 1 \in Nat /\ at + 1 + n \in Nat /\ at <= at + 1 /\ at + 1 <= at + 1 + n
    BY <1>1, <1>3
  <2> QED BY <1>1, <1>2, <2>1, SpanJoin, ZenonT(30)
<1>8. Span(at, at + 1 + n) = WithLength(Slice(at + 1, n))
  BY <1>4, <1>5, <1>6, <1>7 DEF WithLength
<1> QED BY <1>1, <1>2, <1>3, <1>5, <1>8 DEF n

\* Pieces that follow one another, joined.
LEMMA JoinedSpans ==
    ASSUME Buffered, NEW n \in Nat, NEW parts, NEW at \in [0 .. n -> Nat],
           parts \in Seq(Seq(Bytes)), Len(parts) = n, at[0] <= size,
           \A k \in 1 .. n :
               at[k - 1] <= at[k] /\ at[k] <= size /\ Span(at[k - 1], at[k]) = parts[k]
    PROVE  /\ at[0] <= at[n] /\ at[n] <= size
           /\ Span(at[0], at[n]) = Concat(parts)
<1>0. size \in Nat /\ \A k \in 0 .. n : at[k] \in Nat
  BY BytesRead
<1>1. ASSUME NEW k \in 1 .. n PROVE parts[k] \in Seq(Bytes) /\ k \in 0 .. n /\ k - 1 \in 0 .. n
  <2>1. k \in 0 .. n /\ k - 1 \in 0 .. n
    OBVIOUS
  <2>2. at[k - 1] <= at[k] /\ at[k] <= size /\ Span(at[k - 1], at[k]) = parts[k]
    OBVIOUS
  <2>3. at[k - 1] \in Nat /\ at[k] \in Nat
    BY <1>0, <2>1
  <2> QED BY <2>1, <2>2, <2>3, SpanFacts
<1>3. /\ Joins(parts)[0] = <<>>
      /\ \A k \in 1 .. n : Joins(parts)[k] = Joins(parts)[k - 1] \o parts[k]
  BY JoinsFacts
<1> DEFINE T == {k \in 0 .. n : /\ at[0] <= at[k] /\ at[k] <= size
                                /\ Span(at[0], at[k]) = Joins(parts)[k]}
<1>4. 0 \in T
  <2> DEFINE a == at[0]
  <2>1. a \in Nat /\ a <= size
    BY <1>0
  <2> HIDE DEF a
  <2>2. Span(a, a) \in Seq(Bytes) /\ Len(Span(a, a)) = 0
    <3>1. a - a = 0 /\ a <= a
      BY <2>1
    <3> QED BY <2>1, <3>1, SpanFacts
  <2>3. Span(a, a) = <<>>
    BY <2>2
  <2> QED BY <1>0, <1>3, <2>1, <2>3 DEF a
<1>5. ASSUME NEW k \in 1 .. n, k - 1 \in T PROVE k \in T
  <2> DEFINE a == at[0]
             b == at[k - 1]
             d == at[k]
  <2>1. /\ a \in Nat /\ b \in Nat /\ d \in Nat /\ a <= b /\ b <= d /\ d <= size
        /\ Span(a, b) = Joins(parts)[k - 1] /\ Span(b, d) = parts[k]
    BY <1>0, <1>1, <1>5
  <2> HIDE DEF a, b, d
  <2>2. Span(a, d) = Span(a, b) \o Span(b, d)
    <3>1. /\ a \in Nat /\ b \in Nat /\ d \in Nat
          /\ a <= b /\ b <= d /\ d <= size
      BY <2>1
    <3> QED BY <3>1, SpanJoin
  <2>4. Joins(parts)[k] = Joins(parts)[k - 1] \o parts[k]
    BY <1>3
  <2>5. Span(a, d) = Joins(parts)[k]
    BY <2>1, <2>2, <2>4
  <2>3. a <= d
    BY <2>1
  <2> QED BY <1>1, <2>1, <2>3, <2>5 DEF a, d
<1> HIDE DEF T
<1>6. \A k \in 0 .. n : k \in T
  BY <1>4, <1>5, BoundedInduction
<1>7. n \in T
  BY <1>6
<1> QED BY <1>7 DEF T, Concat

-----------------------------------------------------------------------------
(* What the readers have read, as the format writes it.                    *)

LEMMA AddressSpan ==
    ASSUME Buffered, NEW at \in Places, NEW has_length \in BOOLEAN,
           Found(parse_address(at, has_length))
    PROVE  LET content == Slice(IF has_length THEN at + 1 ELSE at, ADDRESS_SCRIPT_HASH_LEN)
           IN  /\ at \in Nat /\ parse_address(at, has_length) \in Nat
               /\ at <= parse_address(at, has_length)
               /\ Span(at, parse_address(at, has_length)) =
                      IF has_length THEN WithLength(content) ELSE content
<1>0. at \in Nat /\ ADDRESS_SCRIPT_HASH_LEN \in Nat
  BY BytesRead, SizeAssumption DEF Places
<1>1. CASE has_length
  <2>1. parse_address(at, TRUE) = Sized(at, {ADDRESS_SCRIPT_HASH_LEN})
    BY DEF parse_address
  <2>2. Found(Sized(at, {ADDRESS_SCRIPT_HASH_LEN}))
    BY <1>1, <2>1
  <2>3. /\ Byte(at) \in {ADDRESS_SCRIPT_HASH_LEN}
        /\ Sized(at, {ADDRESS_SCRIPT_HASH_LEN}) = at + 1 + Byte(at)
        /\ Span(at, Sized(at, {ADDRESS_SCRIPT_HASH_LEN})) = WithLength(Slice(at + 1, Byte(at)))
    BY <2>2, SizedSpan
  <2>4. Byte(at) = ADDRESS_SCRIPT_HASH_LEN
    BY <2>3
  <2>5. has_length = TRUE
    BY <1>1
  <2>6. at <= at + 1 + ADDRESS_SCRIPT_HASH_LEN /\ at + 1 + ADDRESS_SCRIPT_HASH_LEN \in Nat
    BY <1>0
  <2>7. /\ parse_address(at, TRUE) = at + 1 + ADDRESS_SCRIPT_HASH_LEN
        /\ Span(at, parse_address(at, TRUE)) =
               WithLength(Slice(at + 1, ADDRESS_SCRIPT_HASH_LEN))
    BY <2>1, <2>3, <2>4
  <2> QED BY <1>0, <2>5, <2>6, <2>7
<1>2. CASE ~has_length
  <2>1. parse_address(at, FALSE) = buffer_seek_cur(at, ADDRESS_SCRIPT_HASH_LEN)
    BY DEF parse_address
  <2>2. parse_address(at, FALSE) = at + ADDRESS_SCRIPT_HASH_LEN
    BY <1>0, <1>2, <2>1, SeekReads
  <2>3. (at + ADDRESS_SCRIPT_HASH_LEN) - at = ADDRESS_SCRIPT_HASH_LEN
    BY <1>0
  <2>4. Span(at, parse_address(at, FALSE)) = Slice(at, ADDRESS_SCRIPT_HASH_LEN)
    BY <2>2, <2>3 DEF Span
  <2>5. has_length = FALSE
    BY <1>2
  <2>6. at <= at + ADDRESS_SCRIPT_HASH_LEN /\ at + ADDRESS_SCRIPT_HASH_LEN \in Nat
    BY <1>0
  <2> QED BY <1>0, <2>2, <2>4, <2>5, <2>6
<1> QED BY <1>1, <1>2

LEMMA KeySpan ==
    ASSUME Buffered, NEW at \in Places, Found(parse_pk(at))
    PROVE  /\ at \in Nat /\ parse_pk(at) \in Nat /\ at <= parse_pk(at)
           /\ Span(at, parse_pk(at)) = WithLength(Slice(at + 1, 2 * COMPRESSED_KEY_LEN))
<1> DEFINE n == 2 * COMPRESSED_KEY_LEN
<1>1. parse_pk(at) = Sized(at, {n}) /\ n \in Nat
  BY SizeAssumption DEF parse_pk
<1> HIDE DEF n
<1>2. /\ at \in Nat /\ Byte(at) \in {n} /\ Sized(at, {n}) = at + 1 + Byte(at)
      /\ Span(at, Sized(at, {n})) = WithLength(Slice(at + 1, Byte(at)))
  BY <1>1, SizedSpan
<1>3. Byte(at) = n
  BY <1>2
<1> QED BY <1>1, <1>2, <1>3 DEF n

LEMMA WideSpan ==
    ASSUME Buffered, NEW at \in Places, Found(parse_uint128(at))
    PROVE  /\ at \in Nat /\ parse_uint128(at) \in Nat /\ at <= parse_uint128(at)
           /\ Span(at, parse_uint128(at)) = Slice(at, 2 * U64)
<1>1. at \in Nat /\ 2 * U64 \in Nat
  BY BytesRead, WordAssumption DEF Places
<1>2. parse_uint128(at) = at + 2 * U64
  BY WideReads
<1>3. (at + 2 * U64) - at = 2 * U64 /\ at <= at + 2 * U64
  BY <1>1
<1> QED BY <1>1, <1>2, <1>3 DEF Span

LEMMA AmountSpan ==
    ASSUME Buffered, NEW at \in Places, Found(parse_amount(at))
    PROVE  /\ at \in Nat /\ parse_amount(at) \in Nat /\ at <= parse_amount(at)
           /\ Span(at, parse_amount(at)) = Slice(at, parse_amount(at) - at)
<1>1. at \in Nat /\ parse_amount(at) \in Places /\ at + 1 <= parse_amount(at)
  BY AmountReads, BytesRead DEF Places
<1>2. parse_amount(at) \in Nat /\ at <= parse_amount(at)
  BY <1>1, BytesRead DEF Places
<1> QED BY <1>1, <1>2 DEF Span

LEMMA EndSpan ==
    ASSUME Buffered, NEW a \in Nat, NEW e \in Places, a <= e, Found(EndParam(e))
    PROVE  /\ e \in Nat /\ EndParam(e) \in Nat /\ a <= EndParam(e) /\ EndParam(e) <= size
           /\ Span(a, EndParam(e)) = Span(a, e) \o OPCODE_PARAM_END
<1>1. /\ EndParam(e) = e + 3 /\ e \in Nat /\ e + 3 <= size
      /\ Span(e, EndParam(e)) = OPCODE_PARAM_END
  BY ConstantLengths, ConstantSpan DEF EndParam
<1>2. e <= e + 3 /\ e + 3 \in Nat /\ a <= e + 3
  BY <1>1
<1>3. Span(a, e + 3) = Span(a, e) \o Span(e, e + 3)
  <2>1. /\ a \in Nat /\ e \in Nat /\ e + 3 \in Nat
        /\ a <= e /\ e <= e + 3 /\ e + 3 <= size
    BY <1>1, <1>2
  <2> QED BY <2>1, SpanJoin
<1> QED BY <1>1, <1>2, <1>3

\* A part from one position, and its end, up to another.
ClosedPiece(a, b, part) ==
    \E e \in Places : a <= e /\ b = EndParam(e) /\ Found(EndParam(e)) /\ Span(a, e) = part

\* Parts that are each closed, one behind the other.
LEMMA ClosedSpans ==
    ASSUME Buffered, NEW n \in Nat, NEW parts, Len(parts) = n, NEW at \in [0 .. n -> Nat],
           at[0] <= size, \A k \in 1 .. n : ClosedPiece(at[k - 1], at[k], parts[k])
    PROVE  /\ at[0] <= at[n] /\ at[n] <= size
           /\ Span(at[0], at[n]) = ClosedAll(parts)
<1> DEFINE closed == [k \in 1 .. n |-> parts[k] \o OPCODE_PARAM_END]
<1>1. ASSUME NEW k \in 1 .. n
      PROVE  /\ at[k - 1] <= at[k] /\ at[k] <= size
             /\ Span(at[k - 1], at[k]) = parts[k] \o OPCODE_PARAM_END
  <2>1. PICK e \in Places : /\ at[k - 1] <= e /\ at[k] = EndParam(e) /\ Found(EndParam(e))
                            /\ Span(at[k - 1], e) = parts[k]
    BY DEF ClosedPiece
  <2>2. k - 1 \in 0 .. n /\ at[k - 1] \in Nat
    OBVIOUS
  <2> DEFINE a == at[k - 1]
  <2>3. a \in Nat /\ a <= e
    BY <2>1, <2>2
  <2> HIDE DEF a
  <2>4. a <= EndParam(e) /\ EndParam(e) <= size
        /\ Span(a, EndParam(e)) = Span(a, e) \o OPCODE_PARAM_END
    BY <2>1, <2>3, EndSpan
  <2> QED BY <2>1, <2>4 DEF a
<1>6. \A k \in 1 .. n : parts[k] \o OPCODE_PARAM_END \in Seq(Bytes)
  <2> SUFFICES ASSUME NEW k \in 1 .. n PROVE parts[k] \o OPCODE_PARAM_END \in Seq(Bytes)
    OBVIOUS
  <2> DEFINE a == at[k - 1]
             b == at[k]
  <2>1. a \in Nat /\ b \in Nat
    OBVIOUS
  <2>2. a <= b /\ b <= size /\ Span(a, b) = parts[k] \o OPCODE_PARAM_END
    BY <1>1
  <2> HIDE DEF a, b
  <2>3. Span(a, b) \in Seq(Bytes)
    BY <2>1, <2>2, SpanFacts
  <2> QED BY <2>2, <2>3
<1>2. /\ closed \in Seq(Seq(Bytes)) /\ Len(closed) = n
      /\ \A k \in 1 .. n : closed[k] = parts[k] \o OPCODE_PARAM_END
  BY <1>6, SMTT(30)
<1>3. ClosedAll(parts) = Concat(closed)
  BY DEF ClosedAll
<1> HIDE DEF closed
<1>4. \A k \in 1 .. n :
          at[k - 1] <= at[k] /\ at[k] <= size /\ Span(at[k - 1], at[k]) = closed[k]
  BY <1>1, <1>2
<1>5. at[0] <= at[n] /\ at[n] <= size /\ Span(at[0], at[n]) = Concat(closed)
  BY <1>2, <1>4, JoinedSpans
<1> QED BY <1>3, <1>5

\* What an entry points to.
Pointed(e) == Slice(e.at, e.len)

LEMMA SimpleSpan ==
    ASSUME Buffered, NEW at \in Places, NEW kind \in SimpleKinds,
           Found(SimpleEnd(kind, at)),
           NEW c, c.type = type, NEW values, values[1] = Pointed(SimpleEntry(kind, at))
    PROVE  /\ at \in Nat /\ SimpleEnd(kind, at) \in Nat /\ at <= SimpleEnd(kind, at)
           /\ Span(at, SimpleEnd(kind, at)) = Part(c, kind, values)
<1>1. CASE kind = "ADDR"
  <2> DEFINE has_length == ~Wasm
  <2>1. /\ has_length \in BOOLEAN /\ SimpleEnd(kind, at) = parse_address(at, has_length)
        /\ values[1] = Slice(IF has_length THEN at + 1 ELSE at, ADDRESS_SCRIPT_HASH_LEN)
    BY <1>1 DEF SimpleEnd, SimpleEntry, AddressEntry, Entry, Pointed
  <2>2. has_length <=> c.type # "WASMVM_CONTRACT"
    BY DEF Wasm
  <2> HIDE DEF has_length
  <2>3. /\ at \in Nat /\ parse_address(at, has_length) \in Nat
        /\ at <= parse_address(at, has_length)
        /\ Span(at, parse_address(at, has_length)) =
               IF has_length THEN WithLength(values[1]) ELSE values[1]
    BY <2>1, AddressSpan
  <2>4. Part(c, kind, values) = IF has_length THEN WithLength(values[1]) ELSE values[1]
    BY <1>1, <2>2, PartIs
  <2> QED BY <2>1, <2>3, <2>4
<1>2. CASE kind = "AMOUNT"
  <2>1. /\ SimpleEnd(kind, at) = parse_amount(at)
        /\ values[1] = Slice(at, parse_amount(at) - at)
    BY <1>2 DEF SimpleEnd, SimpleEntry, AmountEntry, Entry, Pointed
  <2> QED BY <1>2, <2>1, AmountSpan, PartIs
<1>3. CASE kind = "UINT128"
  <2>1. SimpleEnd(kind, at) = parse_uint128(at) /\ values[1] = Slice(at, 2 * U64)
    BY <1>3 DEF SimpleEnd, SimpleEntry, Entry, Pointed
  <2> QED BY <1>3, <2>1, WideSpan, PartIs
<1>4. CASE kind = "PUBKEY"
  <2>1. /\ SimpleEnd(kind, at) = parse_pk(at)
        /\ values[1] = Slice(at + 1, 2 * COMPRESSED_KEY_LEN)
    BY <1>4 DEF SimpleEnd, SimpleEntry, KeyEntry, Entry, Pointed
  <2> QED BY <1>4, <2>1, KeySpan, PartIs
<1> QED BY <1>1, <1>2, <1>3, <1>4 DEF SimpleKinds

LEMMA StateSpan ==
    ASSUME Buffered, NEW at \in Places, Found(StateEnd(at)), NEW c, NEW values,
           \A k \in 1 .. 3 : values[k] = Pointed(StateEntries(at)[k])
    PROVE  /\ at \in Nat /\ StateEnd(at) \in Nat /\ at <= StateEnd(at)
           /\ Span(at, StateEnd(at)) = Part(c, "TRANSFER_STATE", values)
<1>0. size \in Nat /\ at \in Nat
  BY BytesRead DEF Places
<1> DEFINE p == StateFrom(at)
           q == parse_address(p, TRUE)
           r == StateTo(at)
           s == parse_address(r, TRUE)
           t == StateAmount(at)
           u == parse_amount(t)
           v == EndParam(u)
           z == StateEnd(at)
<1>1. p \in Places /\ q \in Places /\ r \in Places /\ s \in Places
  BY ConstantLengths, ConstantReads, AddressReads, EndReads DEF StateFrom, StateTo
<1>2. t \in Places /\ u \in Places /\ v \in Places
  <2>1. t \in Places
    BY <1>1, EndReads DEF StateAmount
  <2>2. u \in Places
    BY <2>1, AmountReads
  <2> QED BY <2>1, <2>2, EndReads
<1>3. r = EndParam(q) /\ t = EndParam(s) /\ z = parse_check_constant(v, OPCODE_ST_END)
  BY DEF StateTo, StateAmount, StateEnd
<1>4. /\ values[1] = Slice(p + 1, ADDRESS_SCRIPT_HASH_LEN)
      /\ values[2] = Slice(r + 1, ADDRESS_SCRIPT_HASH_LEN)
      /\ values[3] = Slice(t, u - t)
  BY DEF StateEntries, AddressEntry, AmountEntry, Entry, Pointed
<1>5. p = parse_check_constant(at, OPCODE_ST_BEGIN)
  BY DEF StateFrom
<1>6. Found(z)
  OBVIOUS
<1> HIDE DEF p, q, r, s, t, u, v, z
<1>7. z = v + 1 /\ v \in Nat /\ v + 1 <= size /\ Span(v, z) = OPCODE_ST_END
  <2>1. Len(OPCODE_ST_END) = 1 /\ 1 \in Nat
    BY ConstantLengths
  <2> QED BY <1>2, <1>3, <1>6, <2>1, ConstantSpan
<1>8. Found(v) /\ Found(EndParam(u))
  BY <1>0, <1>7 DEF Found, v
<1>9. u \in Nat /\ v = u + 3 /\ Found(u)
  BY <1>2, <1>8, EndPosition DEF v
<1>10. t \in Nat /\ t <= u /\ Span(t, u) = values[3]
  BY <1>2, <1>4, <1>9, AmountSpan DEF u
<1>11. Found(t)
  BY <1>0, <1>9, <1>10 DEF Found
<1>12. s \in Nat /\ t = s + 3 /\ Found(s)
  BY <1>1, <1>3, <1>11, EndPosition
<1>13. r \in Nat /\ r <= s /\ Span(r, s) = WithLength(values[2])
  BY <1>1, <1>4, <1>12, AddressSpan DEF s
<1>14. Found(r)
  BY <1>0, <1>12, <1>13 DEF Found
<1>15. q \in Nat /\ r = q + 3 /\ Found(q)
  BY <1>1, <1>3, <1>14, EndPosition
<1>16. p \in Nat /\ p <= q /\ Span(p, q) = WithLength(values[1])
  BY <1>1, <1>4, <1>15, AddressSpan DEF q
<1>17. Found(p) /\ p <= size
  BY <1>0, <1>15, <1>16 DEF Found
<1>18. p = at + 3 /\ Span(at, p) = OPCODE_ST_BEGIN
  BY <1>5, <1>17, ConstantLengths, ConstantSpan
<1> DEFINE parts == <<WithLength(values[1]), WithLength(values[2]), values[3]>>
           place == [k \in 0 .. 3 |-> IF k = 0 THEN p ELSE IF k = 1 THEN r
                                       ELSE IF k = 2 THEN t ELSE v]
<1>19. /\ Len(parts) = 3 /\ parts[1] = WithLength(values[1]) /\ parts[2] = WithLength(values[2])
       /\ parts[3] = values[3]
  OBVIOUS
<1>20. /\ place \in [0 .. 3 -> Nat]
       /\ place[0] = p /\ place[1] = r /\ place[2] = t /\ place[3] = v
  BY <1>7, <1>10, <1>13, <1>16
<1> HIDE DEF parts, place
<1>21. ASSUME NEW k \in 1 .. 3
       PROVE  ClosedPiece(place[k - 1], place[k], parts[k])
  <2>1. CASE k = 1
    <3>1. k - 1 = 0
      BY <2>1
    <3> QED BY <1>1, <1>3, <1>14, <1>16, <1>19, <1>20, <2>1, <3>1 DEF ClosedPiece
  <2>2. CASE k = 2
    <3>1. k - 1 = 1
      BY <2>2
    <3> QED BY <1>1, <1>3, <1>11, <1>13, <1>19, <1>20, <2>2, <3>1 DEF ClosedPiece
  <2>3. CASE k = 3
    <3>1. k - 1 = 2 /\ v = EndParam(u)
      BY <2>3 DEF v
    <3> QED BY <1>2, <1>8, <1>10, <1>19, <1>20, <2>3, <3>1 DEF ClosedPiece
  <2> QED BY <2>1, <2>2, <2>3
<1>22. Span(p, v) = ClosedAll(parts) /\ p <= v
  <2>1. place[0] <= size
    BY <1>17, <1>20
  <2>2. place[0] <= place[3] /\ Span(place[0], place[3]) = ClosedAll(parts)
    BY <1>19, <1>20, <1>21, <2>1, ClosedSpans
  <2> QED BY <1>20, <2>2
<1>23. z \in Nat /\ v <= z /\ v <= size /\ z <= size /\ at <= p /\ at <= v /\ at <= z
  BY <1>0, <1>7, <1>16, <1>18, <1>22
<1>24. Span(at, z) = Span(at, v) \o Span(v, z)
  <2>1. /\ at \in Nat /\ v \in Nat /\ z \in Nat
        /\ at <= v /\ v <= z /\ z <= size
    BY <1>0, <1>7, <1>23
  <2> QED BY <2>1, SpanJoin
<1>25. Span(at, v) = Span(at, p) \o Span(p, v)
  <2>1. /\ at \in Nat /\ p \in Nat /\ v \in Nat
        /\ at <= p /\ p <= v /\ v <= size
    BY <1>0, <1>7, <1>16, <1>22, <1>23
  <2> QED BY <2>1, SpanJoin
<1>26. Span(at, z) = OPCODE_ST_BEGIN \o ClosedAll(parts) \o OPCODE_ST_END
  BY <1>7, <1>18, <1>22, <1>24, <1>25
<1>27. Part(c, "TRANSFER_STATE", values) = OPCODE_ST_BEGIN \o ClosedAll(parts) \o OPCODE_ST_END
  BY PartIs DEF parts
<1> QED BY <1>0, <1>23, <1>26, <1>27 DEF z

-----------------------------------------------------------------------------
(* What the parser has found between two positions: its own checks, and    *)
(* the entries it has written.                                             *)

LEMMA CheckedSpan ==
    ASSUME Buffered, NEW at \in Places, NEW number, Found(parse_check_amount(at, number))
    PROVE  /\ at \in Nat /\ parse_check_amount(at, number) = parse_amount(at)
           /\ parse_amount(at) \in Nat /\ at <= parse_amount(at) /\ parse_amount(at) <= size
           /\ number \in Nat /\ Span(at, parse_amount(at)) \in AmountForms(number)
<1>1. size \in Nat
  BY BytesRead
<1>2. IsAmount(at, number) /\ parse_check_amount(at, number) = parse_amount(at)
  BY <1>1 DEF parse_check_amount, Found, Past
<1> DEFINE data == Slice(at, parse_amount(at) - at)
<1>3. Found(parse_amount(at)) /\ convert_param_to_uint64_le(data) /\ AsUint64(data) = number
  BY <1>2 DEF IsAmount
<1>4. /\ at \in Nat /\ parse_amount(at) \in Nat /\ at <= parse_amount(at)
      /\ Span(at, parse_amount(at)) = data
  BY <1>3, AmountSpan
<1> HIDE DEF data
<1>5. parse_amount(at) <= size
  BY <1>3 DEF Found
<1>6. data \in Seq(Bytes)
  BY <1>4, <1>5, SpanFacts
<1> QED BY <1>2, <1>3, <1>4, <1>5, <1>6, FormOf

\* The pieces of a list of pairs, each with its end but the last.
PairPiece(q, a, b) ==
    /\ Found(b)
    /\ q = 1 =>
           IsAmount(a, num) /\ params[1] = AmountEntry(a) /\ b = EndParam(parse_amount(a))
    /\ q \in 2 .. num + 1 => params[q] = KeyEntry(a) /\ b = EndParam(parse_pk(a))
    /\ q = num + 2 => b = EndParam(parse_check_amount(a, num))
    /\ q \in num + 3 .. 2 * num + 1 =>
           params[q - 1] = AmountEntry(a) /\ b = EndParam(parse_amount(a))
    /\ q = 2 * num + 2 => params[q - 1] = AmountEntry(a) /\ b = parse_amount(a)

PairsFound(m, a, b) ==
    \E at \in [0 .. m -> Nat] :
        /\ at[0] = a /\ at[m] = b
        /\ \A q \in 1 .. m : PairPiece(q, at[q - 1], at[q])

\* The values of a list of pairs, as the parts of the format that are closed.
ClosedParts(n, count, values) ==
    <<values[1]>> \o [k \in 1 .. n |-> WithLength(values[1 + k])]
        \o <<count>> \o SubSeq(values, 2 + n, Len(values) - 1)

AreClosed(parts, n, count, values) ==
    /\ Len(parts) = 2 * n + 1 /\ parts[1] = values[1]
    /\ \A k \in 1 .. n : parts[1 + k] = WithLength(values[1 + k])
    /\ parts[n + 2] = count
    /\ \A k \in 1 .. n - 1 : parts[n + 2 + k] = values[n + 1 + k]

LEMMA ClosedPartsFacts ==
    ASSUME NEW values \in Seq(Seq(Bytes)), NEW n \in Nat, n # 0,
           Len(values) = 2 * n + 1, NEW count \in Seq(Bytes),
           \A k \in 1 .. n : WithLength(values[1 + k]) \in Seq(Bytes)
    PROVE  AreClosed(ClosedParts(n, count, values), n, count, values)
<1> DEFINE S == Seq(Bytes)
           keys == [k \in 1 .. n |-> WithLength(values[1 + k])]
           rest == SubSeq(values, 2 + n, Len(values) - 1)
           first == values[1]
<1>1. keys \in Seq(S) /\ Len(keys) = n /\ \A k \in 1 .. n : keys[k] = WithLength(values[1 + k])
  OBVIOUS
<1>2. /\ rest \in Seq(S) /\ Len(rest) = n - 1
      /\ \A k \in 1 .. n - 1 : rest[k] = values[n + 1 + k]
  <2>1. /\ 2 + n \in 1 .. Len(values) + 1 /\ Len(values) - 1 \in 0 .. Len(values)
        /\ Len(values) - 1 = 2 * n
    OBVIOUS
  <2>2. rest = [k \in 1 .. n - 1 |-> values[n + 1 + k]]
    BY <2>1
  <2>3. \A k \in 1 .. n - 1 : n + 1 + k \in 1 .. Len(values)
    OBVIOUS
  <2>4. \A k \in 1 .. n - 1 : values[n + 1 + k] \in S
    BY <2>3
  <2>5. n - 1 \in Nat
    OBVIOUS
  <2> HIDE DEF rest, S
  <2> QED BY <2>2, <2>4, <2>5
<1>3. first \in S /\ count \in S
  OBVIOUS
<1>4. ClosedParts(n, count, values) = <<first>> \o keys \o <<count>> \o rest
  BY DEF ClosedParts
<1> HIDE DEF S, keys, rest, first
<1> DEFINE all == ClosedParts(n, count, values)
<1>5. InRow(all, n, first, keys, count, rest)
  <2>1. /\ keys \in Seq(S) /\ Len(keys) = n /\ rest \in Seq(S) /\ Len(rest) = n - 1
        /\ first \in S /\ count \in S
    BY <1>1, <1>2, <1>3
  <2>2. InRow(<<first>> \o keys \o <<count>> \o rest, n, first, keys, count, rest)
    BY <2>1, FourJoined
  <2> QED BY <1>4, <2>2
<1> HIDE DEF all
<1>6. /\ Len(all) = 2 * n + 1 /\ all[1] = first
      /\ \A k \in 1 .. n : all[1 + k] = WithLength(values[1 + k])
      /\ all[n + 2] = count
      /\ \A k \in 1 .. n - 1 : all[n + 2 + k] = values[n + 1 + k]
  BY <1>1, <1>2, <1>5, ZenonT(30) DEF InRow
<1> QED BY <1>6 DEF first, all, AreClosed

\* What the entries of a list of pairs point to.
PairValues == [j \in 1 .. 2 * num + 1 |-> Pointed(params[j])]

PairsText(count) ==
    ClosedAll(ClosedParts(num, count, PairValues)) \o PairValues[2 * num + 1]

LEMMA PairsSpan ==
    ASSUME Buffered, num \in Nat, num # 0, NEW a \in Nat, a <= size, NEW b,
           PairsFound(2 * num + 2, a, b), PairValues \in Seq(Seq(Bytes))
    PROVE  /\ b \in Nat /\ a <= b /\ b <= size
           /\ \E count \in AmountForms(num) : Span(a, b) = PairsText(count)
<1> DEFINE n == num
           m == 2 * n + 1
           values == PairValues
<1>0. size \in Nat
  BY BytesRead
<1>1. /\ n \in Nat /\ n # 0 /\ m \in Nat /\ m = 2 * n + 1 /\ Len(values) = m
      /\ \A j \in 1 .. m : values[j] = Pointed(params[j])
  BY DEF PairValues
<1>2. PICK at \in [0 .. m + 1 -> Nat] :
          at[0] = a /\ at[m + 1] = b /\ \A q \in 1 .. m + 1 : PairPiece(q, at[q - 1], at[q])
  <2>1. m + 1 = 2 * num + 2
    OBVIOUS
  <2> QED BY <2>1 DEF PairsFound
<1>3. ASSUME NEW q \in 0 .. m + 1 PROVE at[q] \in Places /\ at[q] \in Nat /\ at[q] <= size
  <2>1. at[q] \in Nat
    OBVIOUS
  <2>2. at[q] <= size
    <3>1. CASE q = 0
      BY <1>2, <3>1
    <3>2. CASE q # 0
      BY <1>2, <3>2 DEF PairPiece, Found
    <3> QED BY <3>1, <3>2
  <2> QED BY <1>0, <2>1, <2>2 DEF Places
<1>4. ASSUME NEW q \in 1 .. m + 1
      PROVE  /\ at[q - 1] \in Places /\ at[q - 1] \in Nat /\ at[q - 1] <= size
             /\ PairPiece(q, at[q - 1], at[q]) /\ Found(at[q])
  BY <1>2, <1>3 DEF PairPiece
<1> HIDE DEF n, m, values
<1>5. /\ EndParam(parse_amount(at[0])) = at[1] /\ Found(at[1])
      /\ parse_amount(at[0]) \in Places /\ at[0] <= parse_amount(at[0])
      /\ Span(at[0], parse_amount(at[0])) = values[1]
  <2> DEFINE x == at[0]
             y == at[1]
  <2>1. 1 \in 1 .. m /\ 1 \in 1 .. m + 1 /\ 1 - 1 = 0
    BY <1>1
  <2>2. x \in Places /\ PairPiece(1, x, y) /\ Found(y)
    BY <1>4, <2>1
  <2> HIDE DEF x, y
  <2>3. params[1] = AmountEntry(x) /\ y = EndParam(parse_amount(x))
    BY <2>2 DEF PairPiece
  <2>4. parse_amount(x) \in Places
    BY <2>2, AmountReads
  <2>5. Found(parse_amount(x))
    BY <2>2, <2>3, <2>4, EndPosition
  <2>6. x <= parse_amount(x) /\ Span(x, parse_amount(x)) = Slice(x, parse_amount(x) - x)
    BY <2>2, <2>5, AmountSpan
  <2>7. values[1] = Slice(x, parse_amount(x) - x)
    BY <1>1, <2>1, <2>3 DEF Pointed, AmountEntry, Entry
  <2> QED BY <2>2, <2>3, <2>4, <2>6, <2>7 DEF x, y
<1>6. ASSUME NEW q \in 2 .. n + 1
      PROVE  /\ EndParam(parse_pk(at[q - 1])) = at[q] /\ Found(at[q])
             /\ parse_pk(at[q - 1]) \in Places /\ at[q - 1] <= parse_pk(at[q - 1])
             /\ Span(at[q - 1], parse_pk(at[q - 1])) = WithLength(values[q])
             /\ WithLength(values[q]) \in Seq(Bytes)
  <2> DEFINE x == at[q - 1]
             y == at[q]
  <2>1. q \in 1 .. m /\ q \in 1 .. m + 1
    BY <1>1
  <2>2. x \in Places /\ x \in Nat /\ PairPiece(q, x, y) /\ Found(y)
    BY <1>4, <2>1
  <2> HIDE DEF x, y
  <2>3. params[q] = KeyEntry(x) /\ y = EndParam(parse_pk(x))
    BY <2>2 DEF PairPiece, n
  <2>4. parse_pk(x) \in Places
    BY <2>2, KeyReads
  <2>5. Found(parse_pk(x)) /\ parse_pk(x) <= size
    BY <2>2, <2>3, <2>4, EndPosition DEF Found
  <2>6. /\ x <= parse_pk(x) /\ parse_pk(x) \in Nat
        /\ Span(x, parse_pk(x)) = WithLength(Slice(x + 1, 2 * COMPRESSED_KEY_LEN))
    BY <2>2, <2>5, KeySpan
  <2>7. values[q] = Slice(x + 1, 2 * COMPRESSED_KEY_LEN)
    BY <1>1, <2>1, <2>3 DEF Pointed, KeyEntry, Entry
  <2>8. Span(x, parse_pk(x)) \in Seq(Bytes)
    BY <2>2, <2>5, <2>6, SpanFacts
  <2> QED BY <2>2, <2>3, <2>4, <2>6, <2>7, <2>8 DEF x, y
<1> DEFINE w == at[n + 1]
           count == Span(w, parse_amount(w))
<1>7. /\ EndParam(parse_amount(w)) = at[n + 2] /\ Found(at[n + 2])
      /\ parse_amount(w) \in Places /\ w <= parse_amount(w)
      /\ count \in AmountForms(num) /\ count \in Seq(Bytes)
  <2> DEFINE y == at[n + 2]
  <2>1. n + 2 \in 1 .. m + 1 /\ (n + 2) - 1 = n + 1
    BY <1>1
  <2>2. w \in Places /\ w \in Nat /\ PairPiece(n + 2, w, y) /\ Found(y)
    BY <1>4, <2>1
  <2> HIDE DEF w, y
  <2>3. y = EndParam(parse_check_amount(w, num))
    BY <2>2 DEF PairPiece, n
  <2>4. parse_check_amount(w, num) \in Places
    <3>1. parse_amount(w) \in Places /\ Past \in Places
      BY <1>0, <2>2, AmountReads DEF Past, Places
    <3> QED BY <3>1 DEF parse_check_amount
  <2>5. Found(parse_check_amount(w, num))
    BY <2>2, <2>3, <2>4, EndPosition
  <2>6. /\ parse_check_amount(w, num) = parse_amount(w) /\ parse_amount(w) \in Nat
        /\ w <= parse_amount(w) /\ parse_amount(w) <= size /\ count \in AmountForms(num)
    BY <2>2, <2>5, CheckedSpan
  <2>7. count \in Seq(Bytes)
    BY <2>2, <2>6, SpanFacts
  <2> QED BY <2>2, <2>3, <2>4, <2>6, <2>7 DEF w, y
<1>8. ASSUME NEW q \in n + 3 .. m + 1
      PROVE  /\ parse_amount(at[q - 1]) \in Places /\ at[q - 1] <= parse_amount(at[q - 1])
             /\ Span(at[q - 1], parse_amount(at[q - 1])) = values[q - 1]
             /\ q # m + 1 => EndParam(parse_amount(at[q - 1])) = at[q]
             /\ q = m + 1 => parse_amount(at[q - 1]) = at[q]
             /\ Found(at[q])
  <2> DEFINE x == at[q - 1]
             y == at[q]
  <2>1. q - 1 \in 1 .. m /\ q \in 1 .. m + 1
    BY <1>1
  <2>2. x \in Places /\ x \in Nat /\ PairPiece(q, x, y) /\ Found(y)
    BY <1>4, <2>1
  <2> HIDE DEF x, y
  <2>3. /\ params[q - 1] = AmountEntry(x)
        /\ q # m + 1 => EndParam(parse_amount(x)) = y
        /\ q = m + 1 => parse_amount(x) = y
    <3>1. CASE q = m + 1
      <4>1. q = 2 * num + 2
        BY <1>1, <3>1 DEF n
      <4> QED BY <2>2, <3>1, <4>1 DEF PairPiece
    <3>2. CASE q # m + 1
      <4>1. q \in num + 3 .. 2 * num + 1
        BY <1>1, <3>2 DEF n
      <4> QED BY <2>2, <3>2, <4>1 DEF PairPiece
    <3> QED BY <3>1, <3>2
  <2>4. parse_amount(x) \in Places
    BY <2>2, AmountReads
  <2>5. Found(parse_amount(x))
    BY <2>2, <2>3, <2>4, EndPosition
  <2>6. x <= parse_amount(x) /\ Span(x, parse_amount(x)) = Slice(x, parse_amount(x) - x)
    BY <2>2, <2>5, AmountSpan
  <2>7. values[q - 1] = Slice(x, parse_amount(x) - x)
    BY <1>1, <2>1, <2>3 DEF Pointed, AmountEntry, Entry
  <2> QED BY <2>2, <2>3, <2>4, <2>6, <2>7 DEF x, y
<1> DEFINE parts == ClosedParts(n, count, values)
<1>9. /\ Len(parts) = m /\ parts[1] = values[1]
      /\ \A k \in 1 .. n : parts[1 + k] = WithLength(values[1 + k])
      /\ parts[n + 2] = count
      /\ \A k \in 1 .. n - 1 : parts[n + 2 + k] = values[n + 1 + k]
  <2>1. \A k \in 1 .. n : WithLength(values[1 + k]) \in Seq(Bytes)
    <3> SUFFICES ASSUME NEW k \in 1 .. n PROVE WithLength(values[1 + k]) \in Seq(Bytes)
      OBVIOUS
    <3>1. 1 + k \in 2 .. n + 1
      BY <1>1
    <3> QED BY <1>6, <3>1
  <2>2. values \in Seq(Seq(Bytes)) /\ Len(values) = 2 * n + 1
    BY <1>1 DEF values
  <2> HIDE DEF w, count
  <2>3. AreClosed(parts, n, count, values)
    BY <1>1, <1>7, <2>1, <2>2, ClosedPartsFacts
  <2> HIDE DEF parts
  <2> QED BY <1>1, <2>3 DEF AreClosed
<1> HIDE DEF w, count, parts
<1>10. ASSUME NEW q \in 1 .. m PROVE ClosedPiece(at[q - 1], at[q], parts[q])
  <2>1. CASE q = 1
    <3>1. q - 1 = 0
      BY <2>1
    <3> QED BY <1>5, <1>9, <2>1, <3>1 DEF ClosedPiece
  <2>2. CASE q \in 2 .. n + 1
    <3>1. q - 1 \in 1 .. n /\ 1 + (q - 1) = q
      BY <1>1, <2>2
    <3>2. parts[q] = WithLength(values[q])
      BY <1>9, <3>1
    <3>3. /\ EndParam(parse_pk(at[q - 1])) = at[q] /\ Found(at[q])
          /\ parse_pk(at[q - 1]) \in Places /\ at[q - 1] <= parse_pk(at[q - 1])
          /\ Span(at[q - 1], parse_pk(at[q - 1])) = WithLength(values[q])
      BY <1>6, <2>2
    <3> QED BY <3>2, <3>3 DEF ClosedPiece
  <2>3. CASE q = n + 2
    <3>1. q - 1 = n + 1
      BY <1>1, <2>3
    <3>2. Span(w, parse_amount(w)) = parts[q] /\ at[q - 1] = w
      BY <1>9, <2>3, <3>1 DEF count, w
    <3> QED BY <1>7, <2>3, <3>2 DEF ClosedPiece
  <2>4. CASE q \in n + 3 .. m
    <3>1. /\ q - (n + 2) \in 1 .. n - 1 /\ n + 2 + (q - (n + 2)) = q
          /\ n + 1 + (q - (n + 2)) = q - 1 /\ q # m + 1 /\ q \in n + 3 .. m + 1
      BY <1>1, <2>4
    <3>2. parts[q] = values[q - 1]
      BY <1>9, <3>1
    <3>3. /\ EndParam(parse_amount(at[q - 1])) = at[q] /\ Found(at[q])
          /\ parse_amount(at[q - 1]) \in Places /\ at[q - 1] <= parse_amount(at[q - 1])
          /\ Span(at[q - 1], parse_amount(at[q - 1])) = values[q - 1]
      BY <1>8, <3>1
    <3> QED BY <3>2, <3>3 DEF ClosedPiece
  <2> QED BY <1>1, <2>1, <2>2, <2>3, <2>4
<1> DEFINE place == [k \in 0 .. m |-> at[k]]
<1>11. place \in [0 .. m -> Nat] /\ \A k \in 0 .. m : place[k] = at[k]
  BY <1>1
<1>12. at[0] <= at[m] /\ at[m] <= size /\ Span(at[0], at[m]) = ClosedAll(parts)
  <2>1. \A k \in 1 .. m : k - 1 \in 0 .. m /\ k \in 0 .. m
    BY <1>1
  <2> HIDE DEF place
  <2>2. \A k \in 1 .. m : ClosedPiece(place[k - 1], place[k], parts[k])
    BY <1>10, <1>11, <2>1
  <2>3. 0 \in 0 .. m /\ m \in 0 .. m /\ 0 \in 0 .. m + 1
    BY <1>1
  <2>4. place[0] <= size
    BY <1>3, <1>11, <2>3
  <2>5. place[0] <= place[m] /\ place[m] <= size /\ Span(place[0], place[m]) = ClosedAll(parts)
    BY <1>1, <1>9, <1>11, <2>2, <2>4, ClosedSpans
  <2> QED BY <1>11, <2>3, <2>5
<1>13. at[m] <= b /\ Span(at[m], b) = values[m] /\ b \in Nat /\ b <= size
  <2>1. m + 1 \in n + 3 .. m + 1 /\ (m + 1) - 1 = m /\ m + 1 \in 0 .. m + 1
    BY <1>1
  <2>2. /\ at[m] <= parse_amount(at[m]) /\ Span(at[m], parse_amount(at[m])) = values[m]
        /\ parse_amount(at[m]) = b
    BY <1>2, <1>8, <2>1
  <2> QED BY <1>2, <1>3, <2>1, <2>2
<1>14. Span(a, b) = Span(a, at[m]) \o Span(at[m], b)
  <2> DEFINE x == at[m]
  <2>1. m \in 0 .. m + 1
    BY <1>1
  <2>2. x \in Nat
    BY <1>3, <2>1
  <2>3. a <= x /\ x <= b /\ b <= size /\ b \in Nat
    BY <1>2, <1>12, <1>13
  <2> HIDE DEF x
  <2>4. Span(a, b) = Span(a, x) \o Span(x, b)
    <3>1. /\ a \in Nat /\ x \in Nat /\ b \in Nat
          /\ a <= x /\ x <= b /\ b <= size
      BY <2>2, <2>3
    <3> QED BY <3>1, SpanJoin
  <2> QED BY <2>4 DEF x
<1>15. Span(a, b) = PairsText(count)
  BY <1>1, <1>2, <1>12, <1>13, <1>14 DEF PairsText, parts, values, n, m
<1>16. a <= b
  <2>1. m \in 0 .. m + 1
    BY <1>1
  <2>2. at[m] \in Nat
    BY <1>3, <2>1
  <2> QED BY <1>2, <1>12, <1>13, <2>2
<1> QED BY <1>7, <1>13, <1>15, <1>16

-----------------------------------------------------------------------------
(* What the parser has found of a parameter, and what the format says.     *)

\* The index of the first entry behind those of the first k parameters.
First(k) == Len(Joins(Parts(TheContract, TheMethod, num))[k])

\* The k-th parameter of the signature.
ParamPiece(k, a, b) ==
    /\ Found(b)
    /\ Sig[k] # "TRANSFER_STATE_LIST"
    /\ Sig[k] \in SimpleKinds =>
           params[First(k - 1)] = SimpleEntry(Sig[k], a) /\ b = Closed(SimpleEnd(Sig[k], a))
    /\ Sig[k] = "ONTID" => b = Closed(parse_ont_id(a))
    /\ Sig[k] = "TRANSFER_STATE" =>
           /\ \A j \in 1 .. 3 : params[First(k - 1) + j - 1] = StateEntries(a)[j]
           /\ b = Closed(StateEnd(a))
    /\ Sig[k] = "PK_AMOUNT_PAIRS" =>
           num # 0 /\ \E z \in Nat : PairsFound(2 * num + 2, a, z) /\ b = Closed(z)

\* A part from one position, and its end in a native call, up to another.
PartPiece(a, b, part) ==
    \E e \in Places : a <= e /\ b = Closed(e) /\ Found(Closed(e)) /\ Span(a, e) = part

LEMMA ClosedFound ==
    ASSUME Buffered, NEW e \in Places, Found(Closed(e))
    PROVE  Found(e) /\ e \in Nat /\ e <= Closed(e) /\ Closed(e) \in Nat /\ Closed(e) <= size
<1>1. size \in Nat
  BY BytesRead
<1>2. CASE Native
  <2>1. Closed(e) = EndParam(e)
    BY <1>2 DEF Closed
  <2>2. EndParam(e) \in Nat /\ EndParam(e) = e + 3 /\ Found(e) /\ e \in Nat
    BY <2>1, EndPosition
  <2> QED BY <1>1, <2>1, <2>2 DEF Found
<1>3. CASE ~Native
  <2>1. Closed(e) = e
    BY <1>3 DEF Closed
  <2>2. e \in Nat
    BY <1>1 DEF Places
  <2> QED BY <1>1, <2>1, <2>2 DEF Found
<1> QED BY <1>2, <1>3

LEMMA ParamEnd ==
    ASSUME Buffered, num \in Nat, NEW k, Sig[k] \in ParameterTypes,
           NEW a \in Nat, a <= size, NEW b, ParamPiece(k, a, b),
           NEW c, c.type = type, NEW values,
           \A j \in 1 .. Len(Entries(Sig[k], num)) :
               values[j] = Pointed(params[First(k - 1) + j - 1]),
           Sig[k] = "ONTID" => c.id = Slice(a + 1, Byte(a)),
           Sig[k] = "PK_AMOUNT_PAIRS" =>
               /\ c.n = num /\ values = PairValues
               /\ \E z \in Nat : a <= z /\ b = Closed(z) /\ Span(a, z) = PairsText(c.count)
    PROVE  PartPiece(a, b, Part(c, Sig[k], values))
<1>0. size \in Nat /\ a \in Places
  BY BytesRead DEF Places
<1> DEFINE p == Sig[k]
           e == First(k - 1)
<1>1. CASE p \in SimpleKinds
  <2> DEFINE end == SimpleEnd(p, a)
  <2>1. params[e] = SimpleEntry(p, a) /\ b = Closed(end) /\ Found(b)
    BY <1>1 DEF ParamPiece
  <2>2. Entries(p, num) = <<p>> /\ Len(<<p>>) = 1
    <3>1. p \in PARAM_KINDS
      BY <1>1 DEF SimpleKinds, PARAM_KINDS
    <3> QED BY <3>1, EntriesFacts
  <2>3. e \in Int /\ e + 1 - 1 = e
    <3>1. Len(Joins(Parts(TheContract, TheMethod, num))[k - 1]) \in Nat
      OBVIOUS
    <3> QED BY <3>1 DEF First
  <2>4. values[1] = Pointed(SimpleEntry(p, a))
    BY <2>1, <2>2, <2>3
  <2>5. end \in Places
    BY <1>0, <1>1, SimpleReads
  <2>6. Found(end) /\ Found(Closed(end))
    BY <2>1, <2>5, ClosedFound
  <2> HIDE DEF p, e, end
  <2>7. a <= end /\ Span(a, end) = Part(c, p, values)
    BY <1>0, <1>1, <2>4, <2>6, SimpleSpan DEF end
  <2> QED BY <2>1, <2>5, <2>6, <2>7 DEF PartPiece, p
<1>2. CASE p = "ONTID"
  <2> DEFINE end == parse_ont_id(a)
  <2>1. b = Closed(end) /\ Found(b)
    BY <1>2 DEF ParamPiece
  <2>2. end \in Places
    BY <1>0, IdentityReads
  <2>3. Found(end) /\ Found(Closed(end))
    BY <2>1, <2>2, ClosedFound
  <2>4. end = Sized(a, 1 .. 255)
    BY DEF parse_ont_id
  <2>5. /\ end = a + 1 + Byte(a) /\ Byte(a) \in Bytes
        /\ Span(a, end) = WithLength(Slice(a + 1, Byte(a)))
    BY <1>0, <2>3, <2>4, SizedSpan
  <2>6. a <= end
    <3> DEFINE n == Byte(a)
    <3>3. n \in Bytes
      BY <2>5
    <3> HIDE DEF n
    <3>1. n \in Nat
      BY <3>3 DEF Bytes
    <3>2. a <= a + 1 + n
      BY <3>1
    <3> QED BY <2>5, <3>2 DEF n
  <2>7. Part(c, p, values) = WithLength(c.id)
    BY <1>2, PartIs
  <2> HIDE DEF end
  <2> QED BY <1>2, <2>1, <2>2, <2>3, <2>5, <2>6, <2>7 DEF PartPiece
<1>3. CASE p = "TRANSFER_STATE"
  <2> DEFINE end == StateEnd(a)
  <2>1. b = Closed(end) /\ Found(b) /\ \A j \in 1 .. 3 : params[e + j - 1] = StateEntries(a)[j]
    BY <1>3 DEF ParamPiece
  <2>2. Entries(p, num) = Triple /\ Len(Triple) = 3
    BY <1>3, EntriesFacts, TripleFacts
  <2>3. \A j \in 1 .. 3 : values[j] = Pointed(StateEntries(a)[j])
    BY <2>1, <2>2
  <2>4. end \in Places
    BY <1>0, StateReads
  <2>5. Found(end) /\ Found(Closed(end))
    BY <2>1, <2>4, ClosedFound
  <2> HIDE DEF e
  <2>6. a <= end /\ Span(a, end) = Part(c, "TRANSFER_STATE", values)
    BY <1>0, <2>3, <2>5, StateSpan
  <2> HIDE DEF end
  <2> QED BY <1>3, <2>1, <2>4, <2>5, <2>6 DEF PartPiece
<1>4. CASE p = "PK_AMOUNT_PAIRS"
  <2>1. c.n = num /\ values = PairValues /\ Found(b)
    BY <1>4 DEF ParamPiece
  <2>2. PICK z \in Nat : a <= z /\ b = Closed(z) /\ Span(a, z) = PairsText(c.count)
    BY <1>4
  <2>3. Len(values) = 2 * num + 1
    BY <2>1 DEF PairValues
  <2>4. Part(c, "PK_AMOUNT_PAIRS", values) = PairsText(c.count)
    <3>1. Part(c, "PK_AMOUNT_PAIRS", values) =
              ClosedAll(ClosedParts(num, c.count, values)) \o values[2 * num + 1]
      BY <2>1, <2>3, PartIs, ZenonT(30) DEF ClosedParts
    <3> QED BY <2>1, <3>1 DEF PairsText
  <2>5. z \in Places
    <3>1. CASE Native
      <4>1. b = EndParam(z)
        BY <2>2, <3>1 DEF Closed
      <4>2. z + Len(OPCODE_PARAM_END) <= size
        BY <1>0, <2>1, <4>1 DEF EndParam, parse_check_constant, buffer_can_read, Found, Past
      <4> QED BY <1>0, <4>2, ConstantLengths DEF Places
    <3>2. CASE ~Native
      BY <1>0, <2>1, <2>2, <3>2 DEF Closed, Found, Places
    <3> QED BY <3>1, <3>2
  <2> QED BY <1>4, <2>1, <2>2, <2>4, <2>5 DEF PartPiece
<1>5. p # "TRANSFER_STATE_LIST"
  BY DEF ParamPiece
<1> QED BY <1>1, <1>2, <1>3, <1>4, <1>5 DEF ParameterTypes, SimpleKinds

-----------------------------------------------------------------------------
(* The values of a call that has been accepted.                            *)

LEMMA FirstFacts ==
    ASSUME TheContract \in Contracts, TheMethod \in Methods(TheContract), num \in Nat
    PROVE  /\ Sig \in Seq(ParameterTypes) /\ Len(Sig) \in Nat
           /\ First(0) = 0 /\ \A k \in 0 .. Len(Sig) : First(k) \in Nat
           /\ \A k \in 1 .. Len(Sig) :
                  /\ Sig[k] \in ParameterTypes /\ Len(Entries(Sig[k], num)) \in Nat
                  /\ First(k) = First(k - 1) + Len(Entries(Sig[k], num))
                  /\ First(k) <= First(Len(Sig))
           /\ First(Len(Sig)) = Len(AllEntries(TheContract, TheMethod, num))
<1> DEFINE parts == Parts(TheContract, TheMethod, num)
           J == Joins(parts)
<1>1. /\ Len(Sig) \in Nat /\ parts \in Seq(Seq(PARAM_KINDS)) /\ Len(parts) = Len(Sig)
      /\ \A k \in 1 .. Len(Sig) : Sig[k] \in ParameterTypes /\ parts[k] = Entries(Sig[k], num)
      /\ AllEntries(TheContract, TheMethod, num) = J[Len(Sig)]
  BY PartsFacts DEF Sig
<1>2. Sig \in Seq(ParameterTypes)
  BY SignatureTable DEF Sig
<1>3. \A k : First(k) = Len(J[k])
  BY DEF First
<1> HIDE DEF parts, J
<1>4. /\ \A k \in 0 .. Len(Sig) : J[k] \in Seq(PARAM_KINDS)
      /\ J[0] = <<>>
  BY <1>1, JoinsFacts DEF J
<1>5. First(0) = 0 /\ \A k \in 0 .. Len(Sig) : First(k) \in Nat
  BY <1>3, <1>4
<1>6. ASSUME NEW k \in 1 .. Len(Sig)
      PROVE  /\ Len(Entries(Sig[k], num)) \in Nat
             /\ First(k) = First(k - 1) + Len(Entries(Sig[k], num))
             /\ First(k) <= First(Len(Sig))
  <2>1. k \in 1 .. Len(parts)
    BY <1>1
  <2>2. /\ parts[k] \in Seq(PARAM_KINDS) /\ Len(J[k]) = Len(J[k - 1]) + Len(parts[k])
        /\ Len(J[k]) <= Len(Concat(parts))
    BY <1>1, <2>1, PartInWhole DEF J
  <2>3. Concat(parts) = J[Len(Sig)]
    BY <1>1 DEF Concat, J
  <2>4. parts[k] = Entries(Sig[k], num) /\ Len(parts[k]) \in Nat
    BY <1>1, <2>2
  <2>5. First(k) = Len(J[k]) /\ First(k - 1) = Len(J[k - 1]) /\ First(Len(Sig)) = Len(J[Len(Sig)])
    BY <1>3
  <2>6. /\ Len(Entries(Sig[k], num)) \in Nat
        /\ First(k) = First(k - 1) + Len(Entries(Sig[k], num))
    BY <2>2, <2>4, <2>5
  <2>7. First(k) <= First(Len(Sig))
    BY <2>2, <2>3, <2>5
  <2> QED BY <2>6, <2>7
<1>7. First(Len(Sig)) = Len(AllEntries(TheContract, TheMethod, num))
  BY <1>1, <1>3
<1> QED BY <1>1, <1>2, <1>5, <1>6, <1>7

LEMMA PointedBytes ==
    ASSUME IInv, NEW k \in DOMAIN params
    PROVE  Pointed(params[k]) \in Seq(Bytes) /\ Content(k) = Pointed(params[k])
<1>1. Content(k) = Pointed(params[k])
  BY DEF Content, Pointed
<1> QED BY <1>1, ContentBytes

LEMMA ValuesFacts ==
    ASSUME IInv, cur \in Nat, DOMAIN params = 0 .. cur - 1
    PROVE  /\ Values \in Seq(Seq(Bytes)) /\ Len(Values) = cur
           /\ \A k \in 1 .. cur : Values[k] = Pointed(params[k - 1])
<1>1. ASSUME NEW k \in 1 .. cur
      PROVE  Content(k - 1) = Pointed(params[k - 1]) /\ Content(k - 1) \in Seq(Bytes)
  <2>1. k - 1 \in DOMAIN params
    OBVIOUS
  <2> QED BY <2>1, PointedBytes
<1> QED BY <1>1 DEF Values

\* The record that the parser's results are read as.
ReadFrom(c) ==
    /\ c.type = type /\ c.signature = Sig /\ c.values = Values /\ c.n = num
    /\ c.id = Identity

LEMMA ValuesOfFacts ==
    ASSUME IInv, KInv, Accepted, ~IsTransferList, NEW c, ReadFrom(c),
           NEW k \in 1 .. Len(Sig)
    PROVE  LET n == Len(Entries(Sig[k], num))
           IN  /\ ValuesOf(c, k) \in Seq(Seq(Bytes)) /\ Len(ValuesOf(c, k)) = n
               /\ First(k - 1) + n <= cur
               /\ \A j \in 1 .. n : ValuesOf(c, k)[j] = Pointed(params[First(k - 1) + j - 1])
<1> DEFINE L == Len(Sig)
           n == Len(Entries(Sig[k], num))
           lengths == [j \in 1 .. L |-> Len(Entries(Sig[j], num))]
           upTo == Sums(lengths)
           T == {j \in 0 .. L : upTo[j] = First(j)}
<1>1. /\ TheContract \in Contracts /\ TheMethod \in Methods(TheContract)
      /\ Number = num /\ num \in Nat /\ cur \in Nat /\ DOMAIN params = 0 .. cur - 1
      /\ Len(AllEntries(TheContract, TheMethod, num)) = cur
  <2>1. Number = num
    BY DEF Number
  <2>2. /\ TheContract \in Contracts /\ TheMethod \in Methods(TheContract)
        /\ Number \in 0 .. PARAMETERS_MAX_NUM /\ cur \in 0 .. PARAMETERS_MAX_NUM
        /\ DOMAIN params = 0 .. cur - 1
    BY AcceptedKinds
  <2>3. Len(AllEntries(TheContract, TheMethod, Number)) = cur
    BY DEF KInv, AllRead
  <2> QED BY <2>1, <2>2, <2>3
<1>2. /\ L \in Nat /\ First(0) = 0 /\ \A j \in 0 .. L : First(j) \in Nat
      /\ \A j \in 1 .. L : /\ Len(Entries(Sig[j], num)) \in Nat
                           /\ First(j) = First(j - 1) + Len(Entries(Sig[j], num))
                           /\ First(j) <= cur
  BY <1>1, FirstFacts
<1>3. lengths \in Seq(Nat) /\ Len(lengths) = L
      /\ \A j \in 1 .. L : lengths[j] = Len(Entries(Sig[j], num))
  BY <1>2
<1>4. ValuesOf(c, k) = SubSeq(Values, upTo[k - 1] + 1, upTo[k])
  BY DEF ValuesOf, ReadFrom
<1>5. k \in 1 .. L
  OBVIOUS
<1> HIDE DEF lengths, L
<1>6. upTo[0] = 0 /\ \A j \in 1 .. L : upTo[j] = upTo[j - 1] + lengths[j]
  BY <1>3, SumsFacts
<1> HIDE DEF upTo
<1>7. 0 \in T
  BY <1>2, <1>6
<1>8. ASSUME NEW j \in 1 .. L, j - 1 \in T PROVE j \in T
  <2>1. upTo[j - 1] = First(j - 1) /\ j \in 0 .. L
    BY <1>2, <1>8
  <2>2. upTo[j] = upTo[j - 1] + lengths[j] /\ lengths[j] = Len(Entries(Sig[j], num))
    BY <1>3, <1>6
  <2>3. First(j) = First(j - 1) + Len(Entries(Sig[j], num))
    BY <1>2
  <2>4. upTo[j] = First(j)
    BY <2>1, <2>2, <2>3
  <2> QED BY <2>1, <2>4
<1> HIDE DEF T
<1>9. \A j \in 0 .. L : j \in T
  BY <1>2, <1>7, <1>8, BoundedInduction
<1>10. k - 1 \in 0 .. L /\ k \in 0 .. L
  BY <1>2, <1>5
<1>11. upTo[k - 1] = First(k - 1) /\ upTo[k] = First(k)
  BY <1>9, <1>10 DEF T
<1> DEFINE m == First(k - 1)
<1>12. m \in Nat /\ n \in Nat /\ First(k) = m + n /\ m + n <= cur
  BY <1>2, <1>5, <1>10
<1> HIDE DEF m, n
<1>13. ValuesOf(c, k) = SubSeq(Values, m + 1, m + n)
  BY <1>4, <1>11, <1>12 DEF m
<1>14. Values \in Seq(Seq(Bytes)) /\ Len(Values) = cur
       /\ \A j \in 1 .. cur : Values[j] = Pointed(params[j - 1])
  BY <1>1, ValuesFacts
<1>15. /\ ValuesOf(c, k) \in Seq(Seq(Bytes)) /\ Len(ValuesOf(c, k)) = n
       /\ \A j \in 1 .. n : ValuesOf(c, k)[j] = Values[m + j]
  BY <1>12, <1>13, <1>14, Cut
<1>16. ASSUME NEW j \in 1 .. n PROVE ValuesOf(c, k)[j] = Pointed(params[m + j - 1])
  <2>1. m + j \in 1 .. cur
    BY <1>1, <1>12
  <2>2. Values[m + j] = Pointed(params[m + j - 1])
    <3> DEFINE q == m + j
    <3>1. q \in 1 .. cur /\ q - 1 = m + j - 1
      BY <1>12, <2>1
    <3> HIDE DEF q
    <3>2. Values[q] = Pointed(params[q - 1])
      BY <1>14, <3>1
    <3>3. Values[q] = Pointed(params[m + j - 1])
      BY <3>1, <3>2
    <3> QED BY <3>3 DEF q
  <2>3. ValuesOf(c, k)[j] = Values[m + j]
    BY <1>15
  <2> QED BY <2>2, <2>3
<1> QED BY <1>12, <1>15, <1>16 DEF m, n

\* The identity that a registration names.
LEMMA IdentityRead ==
    ASSUME IInv, KInv, Accepted, ~IsTransferList,
           NEW at \in [0 .. Len(Sig) -> Nat],
           \A j \in 1 .. Len(Sig) : at[j - 1] <= size /\ ParamPiece(j, at[j - 1], at[j]),
           NEW k \in 1 .. Len(Sig), Sig[k] = "ONTID"
    PROVE  Identity = Slice(at[k - 1] + 1, Byte(at[k - 1]))
<1>1. /\ TheContract \in Contracts /\ TheMethod \in Methods(TheContract) /\ num \in Nat
      /\ Buffered
  BY AcceptedKinds DEF IInv, TypeInv
<1>2. k = 4 /\ (\A j \in 1 .. 3 : Sig[j] \in PARAM_KINDS) /\ Sig[3] = "AMOUNT"
  BY <1>1, SignatureShape DEF Shaped, Sig
<1>3. 3 \in 1 .. Len(Sig) /\ 2 \in 0 .. Len(Sig) /\ 3 \in 0 .. Len(Sig) /\ Len(Sig) \in Nat
  BY <1>1, <1>2, FirstFacts
<1>4. First(2) = 2
  <2>1. 2 \in 0 .. Len(Signature(TheContract, TheMethod))
    BY <1>3 DEF Sig
  <2>2. \A j \in 1 .. 2 : Signature(TheContract, TheMethod)[j] \in PARAM_KINDS
    BY <1>2 DEF Sig
  <2> DEFINE two == 2
  <2>3. two \in 0 .. Len(Signature(TheContract, TheMethod))
        /\ \A j \in 1 .. two : Signature(TheContract, TheMethod)[j] \in PARAM_KINDS
    BY <2>1, <2>2
  <2> HIDE DEF two
  <2>4. Len(Joins(Parts(TheContract, TheMethod, num))[two]) = two
    BY <1>1, <2>3, PlainStart
  <2> QED BY <2>4 DEF two, First
<1> DEFINE x == at[2]
           y == at[3]
           end == parse_amount(x)
<1>5. ParamPiece(3, x, y) /\ x <= size /\ x \in Nat /\ y \in Nat
  <2>1. 3 - 1 = 2
    OBVIOUS
  <2> QED BY <1>3, <2>1
<1>6. x \in Places
  BY <1>1, <1>5, BytesRead DEF Places
<1> HIDE DEF x, y
<1>7. params[2] = AmountEntry(x) /\ y = Closed(end) /\ Found(y)
  <2>1. 3 - 1 = 2 /\ "AMOUNT" \in SimpleKinds
    BY DEF SimpleKinds
  <2>2. params[2] = SimpleEntry("AMOUNT", x) /\ y = Closed(SimpleEnd("AMOUNT", x)) /\ Found(y)
    BY <1>2, <1>4, <1>5, <2>1 DEF ParamPiece
  <2> QED BY <2>2 DEF SimpleEntry, SimpleEnd
<1>8. end \in Places
  BY <1>1, <1>6, AmountReads
<1>9. end \in Nat
  BY <1>1, <1>7, <1>8, ClosedFound
<1>10. params[2].at + params[2].len = end
  <2>1. params[2].at = x /\ params[2].len = end - x
    BY <1>7 DEF AmountEntry, Entry
  <2> HIDE DEF end
  <2> QED BY <1>5, <1>9, <2>1
<1> HIDE DEF end
<1>11. IdentityAt = y
  <2>1. CASE Native
    <3>1. y = EndParam(end) /\ EndParam(end) = end + 3
      BY <1>1, <1>7, <1>8, <2>1, EndPosition DEF Closed
    <3>2. IdentityAt = end + 3
      BY <1>10, <2>1, ConstantLengths DEF IdentityAt
    <3> QED BY <3>1, <3>2
  <2>2. CASE ~Native
    <3>1. y = end
      BY <1>7, <2>2 DEF Closed
    <3>2. IdentityAt = end
      BY <1>9, <1>10, <2>2 DEF IdentityAt
    <3> QED BY <3>1, <3>2
  <2> QED BY <2>1, <2>2
<1>12. "ONTID" \in Range(Signature(TheContract, TheMethod))
  <2>1. k \in DOMAIN Signature(TheContract, TheMethod)
    BY <1>1, FirstFacts DEF Sig
  <2> QED BY <2>1 DEF Range, Sig
<1>13. Identity = Slice(y + 1, Byte(y))
  BY <1>11, <1>12 DEF Identity
<1> QED BY <1>2, <1>13 DEF y

\* A list of pairs is the second parameter, behind an address.
LEMMA PairValuesRead ==
    ASSUME IInv, KInv, Accepted, ~IsTransferList, NEW k \in 1 .. Len(Sig),
           Sig[k] = "PK_AMOUNT_PAIRS"
    PROVE  /\ k = 2 /\ First(k - 1) = 1 /\ Len(Sig) = 2
           /\ PairValues \in Seq(Seq(Bytes)) /\ Len(PairValues) = 2 * num + 1
           /\ Len(Entries(Sig[k], num)) = 2 * num + 1
<1>1. /\ TheContract \in Contracts /\ TheMethod \in Methods(TheContract) /\ num \in Nat
      /\ DOMAIN params = 0 .. cur - 1 /\ Number = num /\ cur \in Nat
  BY AcceptedKinds DEF IInv, TypeInv, Number
<1>2. TheMethod \in PeerMethods /\ Sig = <<"ADDR", "PK_AMOUNT_PAIRS">> /\ TheContract = "GOV"
  BY <1>1, SignatureTable DEF Sig
<1>3. k = 2 /\ Len(Sig) = 2
  BY <1>2
<1>4. /\ Joins(Parts("GOV", TheMethod, num))[1] = <<"ADDR">>
      /\ Len(AllEntries("GOV", TheMethod, num)) = 2 * num + 2
  BY <1>1, <1>2, PeersEntries
<1>5. First(1) = 1
  BY <1>2, <1>4 DEF First
<1>6. cur = 2 * num + 2
  BY <1>1, <1>2, <1>4 DEF KInv, AllRead
<1>7. ASSUME NEW j \in 1 .. 2 * num + 1 PROVE Pointed(params[j]) \in Seq(Bytes)
  <2>1. j \in DOMAIN params
    BY <1>1, <1>6
  <2> QED BY <2>1, PointedBytes
<1>8. PairValues \in Seq(Seq(Bytes)) /\ Len(PairValues) = 2 * num + 1
  BY <1>1, <1>7 DEF PairValues
<1>9. Len(Entries(Sig[k], num)) = 2 * num + 1
  <2>1. Entries("PK_AMOUNT_PAIRS", num) = PairsKinds(num)
    BY <1>1, EntriesFacts DEF ParameterTypes
  <2> QED BY <1>1, <2>1, PairsFacts
<1> QED BY <1>3, <1>5, <1>8, <1>9

-----------------------------------------------------------------------------
(* The parameters of a call, as the format writes them.                    *)

\* at[k] is the position behind the k-th parameter.
Places0(at) ==
    /\ at \in [0 .. Len(Sig) -> Nat] /\ at[0] <= size
    /\ \A k \in 1 .. Len(Sig) : ParamPiece(k, at[k - 1], at[k])

\* The count stands between the keys and the amounts of a list of pairs.
CountStands(at, count) ==
    \A k \in 1 .. Len(Sig) : Sig[k] = "PK_AMOUNT_PAIRS" =>
        \E z \in Nat : at[k - 1] <= z /\ at[k] = Closed(z) /\ Span(at[k - 1], z) = PairsText(count)

LEMMA PlacesFacts ==
    ASSUME IInv, KInv, Accepted, ~IsTransferList, NEW at, Places0(at)
    PROVE  /\ Len(Sig) \in Nat /\ size \in Nat /\ Buffered /\ num \in Nat
           /\ TheContract \in Contracts /\ TheMethod \in Methods(TheContract)
           /\ num <= PARAMETERS_MAX_NUM
           /\ \A k \in 0 .. Len(Sig) : at[k] \in Nat /\ at[k] <= size
           /\ \A k \in 1 .. Len(Sig) :
                  /\ at[k - 1] \in Nat /\ at[k - 1] <= size /\ ParamPiece(k, at[k - 1], at[k])
                  /\ Sig[k] \in ParameterTypes
<1>1. /\ TheContract \in Contracts /\ TheMethod \in Methods(TheContract) /\ num \in Nat
      /\ Buffered /\ Number = num /\ Number \in 0 .. PARAMETERS_MAX_NUM
  BY AcceptedKinds DEF IInv, TypeInv, Number
<1>2. Len(Sig) \in Nat /\ size \in Nat /\ \A k \in 1 .. Len(Sig) : Sig[k] \in ParameterTypes
  BY <1>1, FirstFacts, BytesRead
<1>3. ASSUME NEW k \in 0 .. Len(Sig) PROVE at[k] \in Nat /\ at[k] <= size
  <2>1. CASE k = 0
    BY <1>2, <2>1 DEF Places0
  <2>2. CASE k # 0
    <3>1. k \in 1 .. Len(Sig)
      BY <2>2
    <3>2. ParamPiece(k, at[k - 1], at[k])
      BY <3>1 DEF Places0
    <3> QED BY <3>2 DEF Places0, ParamPiece, Found
  <2> QED BY <2>1, <2>2
<1>4. \A k \in 1 .. Len(Sig) : k - 1 \in 0 .. Len(Sig)
  BY <1>2
<1> QED BY <1>1, <1>2, <1>3, <1>4, SizeAssumption DEF Places0

LEMMA CountFound ==
    ASSUME IInv, KInv, Accepted, ~IsTransferList, NEW at, Places0(at)
    PROVE  \E count \in AmountForms(num) : CountStands(at, count)
<1>1. /\ Len(Sig) \in Nat /\ size \in Nat /\ Buffered /\ num \in Nat
      /\ num <= PARAMETERS_MAX_NUM
      /\ \A k \in 1 .. Len(Sig) :
             at[k - 1] \in Nat /\ at[k - 1] <= size /\ ParamPiece(k, at[k - 1], at[k])
  BY PlacesFacts
<1>2. CASE \E k \in 1 .. Len(Sig) : Sig[k] = "PK_AMOUNT_PAIRS"
  <2>1. PICK k \in 1 .. Len(Sig) : Sig[k] = "PK_AMOUNT_PAIRS"
    BY <1>2
  <2>2. k = 2 /\ Len(Sig) = 2 /\ PairValues \in Seq(Seq(Bytes))
    BY <2>1, PairValuesRead
  <2> DEFINE a == at[k - 1]
  <2>3. a \in Nat /\ a <= size /\ ParamPiece(k, a, at[k])
    BY <1>1
  <2>4. PICK z \in Nat : num # 0 /\ PairsFound(2 * num + 2, a, z) /\ at[k] = Closed(z)
    BY <2>1, <2>3 DEF ParamPiece
  <2> HIDE DEF a
  <2>5. a <= z /\ \E count \in AmountForms(num) : Span(a, z) = PairsText(count)
    BY <1>1, <2>2, <2>3, <2>4, PairsSpan
  <2>6. PICK count \in AmountForms(num) : Span(a, z) = PairsText(count)
    BY <2>5
  <2>7. \A j \in 1 .. Len(Sig) : Sig[j] = "PK_AMOUNT_PAIRS" => j = k
    BY <2>2, PairValuesRead
  <2>8. CountStands(at, count)
    BY <2>4, <2>5, <2>6, <2>7 DEF CountStands, a
  <2> QED BY <2>8
<1>3. CASE ~(\E k \in 1 .. Len(Sig) : Sig[k] = "PK_AMOUNT_PAIRS")
  <2>1. num < UINT64
    BY <1>1, CapacityAssumption, SizeAssumption, WordAssumption
  <2>2. PICK count : count \in AmountForms(num)
    BY <1>1, <2>1, FormExists
  <2>3. CountStands(at, count)
    BY <1>3 DEF CountStands
  <2> QED BY <2>2, <2>3
<1> QED BY <1>2, <1>3

LEMMA PartsStand ==
    ASSUME IInv, KInv, Accepted, ~IsTransferList, NEW at, Places0(at),
           NEW c, ReadFrom(c), CountStands(at, c.count), NEW k \in 1 .. Len(Sig)
    PROVE  PartPiece(at[k - 1], at[k], Part(c, Sig[k], ValuesOf(c, k)))
<1> DEFINE a == at[k - 1]
           b == at[k]
           values == ValuesOf(c, k)
           n == Len(Entries(Sig[k], num))
<1>1. /\ Buffered /\ num \in Nat /\ Sig[k] \in ParameterTypes
      /\ a \in Nat /\ a <= size /\ ParamPiece(k, a, b)
  BY PlacesFacts
<1>2. /\ values \in Seq(Seq(Bytes)) /\ Len(values) = n
      /\ \A j \in 1 .. n : values[j] = Pointed(params[First(k - 1) + j - 1])
  BY ValuesOfFacts
<1>3. c.type = type /\ c.n = num
  BY DEF ReadFrom
<1>4. ASSUME Sig[k] = "ONTID" PROVE c.id = Slice(a + 1, Byte(a))
  <2>1. at \in [0 .. Len(Sig) -> Nat]
        /\ \A j \in 1 .. Len(Sig) : at[j - 1] <= size /\ ParamPiece(j, at[j - 1], at[j])
    BY PlacesFacts DEF Places0
  <2>2. Identity = Slice(at[k - 1] + 1, Byte(at[k - 1]))
    BY <1>4, <2>1, IdentityRead
  <2> QED BY <2>2 DEF ReadFrom
<1>5. ASSUME Sig[k] = "PK_AMOUNT_PAIRS"
      PROVE  /\ values = PairValues
             /\ \E z \in Nat : a <= z /\ b = Closed(z) /\ Span(a, z) = PairsText(c.count)
  <2>1. /\ First(k - 1) = 1 /\ PairValues \in Seq(Seq(Bytes)) /\ Len(PairValues) = 2 * num + 1
        /\ n = 2 * num + 1
    BY <1>5, PairValuesRead
  <2> HIDE DEF values, n
  <2>2. ASSUME NEW j \in 1 .. Len(values) PROVE values[j] = PairValues[j]
    <3>1. j \in 1 .. 2 * num + 1 /\ 1 + j - 1 = j
      BY <1>1, <1>2, <2>1
    <3>2. values[j] = Pointed(params[j])
      BY <1>2, <2>1, <3>1
    <3>3. PairValues[j] = Pointed(params[j])
      BY <3>1 DEF PairValues
    <3> QED BY <3>2, <3>3
  <2>3. values = PairValues
    BY <1>2, <2>1, <2>2, SameElements
  <2> QED BY <1>5, <2>3 DEF CountStands
<1> HIDE DEF a, b, values
<1>6. PartPiece(a, b, Part(c, Sig[k], values))
  BY <1>1, <1>2, <1>3, <1>4, <1>5, ParamEnd
<1> QED BY <1>6 DEF a, b, values

PartsOf(c) == [k \in 1 .. Len(c.signature) |-> Part(c, c.signature[k], ValuesOf(c, k))]

LEMMA PartsSpan ==
    ASSUME IInv, KInv, Accepted, ~IsTransferList, NEW at, Places0(at),
           NEW c, ReadFrom(c), CountStands(at, c.count)
    PROVE  /\ at[0] <= at[Len(Sig)] /\ at[Len(Sig)] <= size
           /\ Span(at[0], at[Len(Sig)]) =
                  IF Native THEN ClosedAll(PartsOf(c)) ELSE Concat(PartsOf(c))
<1> DEFINE L == Len(Sig)
           parts == PartsOf(c)
<1>1. L \in Nat /\ size \in Nat /\ Buffered /\ \A k \in 0 .. L : at[k] \in Nat /\ at[k] <= size
  BY PlacesFacts
<1>2. at \in [0 .. L -> Nat] /\ at[0] <= size
  BY DEF Places0
<1>3. parts = [k \in 1 .. L |-> Part(c, Sig[k], ValuesOf(c, k))]
  BY DEF PartsOf, ReadFrom
<1> HIDE DEF parts
<1>4. \A k \in 1 .. L : PartPiece(at[k - 1], at[k], parts[k])
  BY <1>3, PartsStand
<1>5. Len(parts) = L
  BY <1>1, <1>3
<1> HIDE DEF L
<1>6. CASE Native
  <2>1. \A k \in 1 .. L : ClosedPiece(at[k - 1], at[k], parts[k])
    BY <1>4, <1>6 DEF PartPiece, ClosedPiece, Closed
  <2>2. at[0] <= at[L] /\ at[L] <= size /\ Span(at[0], at[L]) = ClosedAll(parts)
    BY <1>1, <1>2, <1>5, <2>1, ClosedSpans
  <2> QED BY <1>6, <2>2 DEF L, parts
<1>7. CASE ~Native
  <2>1. ASSUME NEW k \in 1 .. L
        PROVE  /\ at[k - 1] <= at[k] /\ at[k] <= size /\ Span(at[k - 1], at[k]) = parts[k]
               /\ parts[k] \in Seq(Bytes)
    <3>1. at[k - 1] <= at[k] /\ Span(at[k - 1], at[k]) = parts[k]
      BY <1>4, <1>7 DEF PartPiece, Closed
    <3>2. k - 1 \in 0 .. L /\ k \in 0 .. L
      BY <1>1
    <3>3. at[k - 1] \in Nat /\ at[k] \in Nat /\ at[k] <= size
      BY <1>1, <3>2
    <3>4. Span(at[k - 1], at[k]) \in Seq(Bytes)
      BY <1>1, <3>1, <3>3, SpanFacts
    <3> QED BY <3>1, <3>3, <3>4
  <2>2. parts \in Seq(Seq(Bytes))
    BY <1>1, <1>3, <1>5, <2>1
  <2>3. at[0] <= at[L] /\ at[L] <= size /\ Span(at[0], at[L]) = Concat(parts)
    BY <1>1, <1>2, <1>5, <2>1, <2>2, JoinedSpans
  <2> QED BY <1>7, <2>3 DEF L, parts
<1> QED BY <1>6, <1>7

-----------------------------------------------------------------------------
(* The contract and the method, which stand behind the parameters or, in a *)
(* wasm call, before them.                                                 *)

\* The constant part that starts at a position.
NativeTail(at) ==
    LET syscall == parse_check_constant(parse_address(at, TRUE), OPCODE_SYSCALL)
        invoke  == parse_check_constant(syscall, NATIVE_INVOKE)
    IN  Found(parse_check_constant(invoke, OPCODE_END))

NeovmTail(at) ==
    LET appcall == parse_check_constant(at, OPCODE_APPCALL)
    IN  Found(parse_check_constant(parse_address(appcall, FALSE), OPCODE_END))

TailNative(at) == at \in Nat /\ addr = at + 1 /\ NativeTail(at)

TailNeovm(at) == at \in Nat /\ addr = at + 1 /\ NeovmTail(at)

\* Behind the address in a wasm call.
Behind20 == Start + ADDRESS_SCRIPT_HASH_LEN

CallFound ==
    /\ Start <= size
    /\ type = "NATIVE_CONTRACT" => TailNative(size - NATIVE_CONTRACT_CONSTANT_LENGTH)
    /\ type = "NEOVM_CONTRACT" => TailNeovm(size - NEOVM_CONTRACT_CONSTANT_LENGTH)
    /\ type = "WASMVM_CONTRACT" => addr = Start /\ Found(parse_address(Start, FALSE))

NameFound ==
    /\ Wasm =>
           /\ Byte(Behind20) = size - (Behind20 + 1) - Len(OPCODE_END)
           /\ name = Name(Behind20 + 1) /\ Found(parse_method_name(Behind20 + 1))
    /\ ~Wasm =>
           \E at \in Places :
               name = Name(at) /\ Found(parse_method_name(at)) /\ Byte(at) = sEnd - 1 - at

LEMMA FoundBefore ==
    ASSUME Buffered, NEW at \in Places, NEW str, NEW n \in Nat, Len(str) = n,
           Found(parse_check_constant(at, str))
    PROVE  /\ at \in Nat /\ Found(at) /\ at <= size /\ at + n \in Nat /\ at <= at + n
           /\ at + n <= size
           /\ parse_check_constant(at, str) = at + n /\ Span(at, at + n) = str
<1>1. size \in Nat
  BY BytesRead
<1>2. /\ parse_check_constant(at, str) = at + n /\ at \in Nat /\ at + n <= size
      /\ Span(at, parse_check_constant(at, str)) = str
  BY ConstantSpan
<1>3. Found(at) /\ at <= size /\ at + n \in Nat /\ at <= at + n
  BY <1>1, <1>2 DEF Found
<1> QED BY <1>2, <1>3

LEMMA NativeSpan ==
    ASSUME Buffered, NEW at, at = size - NATIVE_CONTRACT_CONSTANT_LENGTH, TailNative(at),
           NEW from \in Nat, from <= at
    PROVE  Span(from, size) = Span(from, at) \o WithLength(Slice(addr, ADDRESS_SCRIPT_HASH_LEN))
                                  \o OPCODE_SYSCALL \o NATIVE_INVOKE \o OPCODE_END
<1> DEFINE A == ADDRESS_SCRIPT_HASH_LEN
           v == Len(NATIVE_INVOKE)
           p == parse_address(at, TRUE)
           q == parse_check_constant(p, OPCODE_SYSCALL)
           r == parse_check_constant(q, NATIVE_INVOKE)
           s == parse_check_constant(r, OPCODE_END)
<1>1. size \in Nat /\ A \in Nat /\ v \in Nat /\ at \in Nat /\ addr = at + 1 /\ Found(s)
      /\ at = size - (1 + A + 2 + v + 1)
  BY BytesRead, ConstantPartLengths DEF TailNative, NativeTail
<1>2. at \in Places
  BY <1>1 DEF Places
<1>3. p \in Places
  BY <1>2, AddressReads
<1>4. q \in Places
  <2>1. Len(OPCODE_SYSCALL) = 2 /\ 2 \in Nat
    BY ConstantLengths
  <2> QED BY <1>3, <2>1, ConstantReads DEF q
<1>5. r \in Places
  BY <1>1, <1>4, ConstantReads DEF r
<1> HIDE DEF p, q, r, s
<1>6. r \in Nat /\ Found(r) /\ s = r + 1 /\ r + 1 <= size /\ Span(r, r + 1) = OPCODE_END
  <2>1. Len(OPCODE_END) = 1 /\ 1 \in Nat
    BY ConstantLengths
  <2>2. Found(parse_check_constant(r, OPCODE_END))
    BY <1>1 DEF s
  <2>3. /\ r \in Nat /\ Found(r) /\ parse_check_constant(r, OPCODE_END) = r + 1
        /\ r + 1 <= size /\ Span(r, r + 1) = OPCODE_END
    BY <1>5, <2>1, <2>2, FoundBefore
  <2> QED BY <2>3 DEF s
<1>7. q \in Nat /\ Found(q) /\ r = q + v /\ q <= r /\ Span(q, r) = NATIVE_INVOKE
  <2> HIDE DEF v
  <2>1. Len(NATIVE_INVOKE) = v
    BY DEF v
  <2>2. q + v = r /\ q \in Nat /\ Found(q) /\ q <= q + v /\ Span(q, q + v) = NATIVE_INVOKE
    BY <1>1, <1>4, <1>6, <2>1, FoundBefore DEF r
  <2> QED BY <2>2
<1>8. p \in Nat /\ Found(p) /\ q = p + 2 /\ p <= q /\ Span(p, q) = OPCODE_SYSCALL
  <2>1. p + 2 = q /\ p \in Nat /\ Found(p) /\ p <= p + 2 /\ Span(p, p + 2) = OPCODE_SYSCALL
    <3>1. Found(parse_check_constant(p, OPCODE_SYSCALL)) /\ Len(OPCODE_SYSCALL) = 2 /\ 2 \in Nat
      BY <1>7, ConstantLengths DEF q
    <3> QED BY <1>3, <3>1, FoundBefore DEF q
  <2> QED BY <2>1
<1>9. at <= p /\ p = at + 1 + A /\ Span(at, p) = WithLength(Slice(addr, A))
  <2>1. p = at + 1 + A
    BY <1>2, <1>8, AddressReads DEF p
  <2>2. Span(at, p) = WithLength(Slice(at + 1, A))
    BY <1>2, <1>8, AddressSpan DEF p
  <2>3. at <= p
    <3> HIDE DEF p
    <3>1. A \in Nat /\ at \in Nat /\ p = at + 1 + A
      BY <1>1, <2>1
    <3> HIDE DEF A
    <3> QED BY <3>1
  <2> QED BY <1>1, <2>1, <2>2, <2>3
<1> HIDE DEF A, v
<1>10. s = size /\ r + 1 = size
  BY <1>1, <1>6, <1>7, <1>8, <1>9
<1>11. /\ from <= p /\ from <= q /\ from <= r /\ at <= size /\ p <= size /\ q <= size
       /\ r <= size /\ r <= r + 1 /\ r + 1 \in Nat
  BY <1>1, <1>6, <1>7, <1>8, <1>9, <1>10
<1>12. Span(from, p) = Span(from, at) \o Span(at, p)
  <2>1. at \in Nat /\ p \in Nat /\ at <= p /\ p <= size
    BY <1>1, <1>8, <1>9, <1>11
  <2> QED BY <2>1, SpanJoin
<1>13. Span(from, q) = Span(from, p) \o Span(p, q)
  <2>1. p \in Nat /\ q \in Nat /\ from <= p /\ p <= q /\ q <= size
    BY <1>7, <1>8, <1>11
  <2> QED BY <2>1, SpanJoin
<1>14. Span(from, r) = Span(from, q) \o Span(q, r)
  <2>1. q \in Nat /\ r \in Nat /\ from <= q /\ q <= r /\ r <= size
    BY <1>6, <1>7, <1>11
  <2> QED BY <2>1, SpanJoin
<1>15. Span(from, size) = Span(from, r) \o Span(r, size)
  <2>1. r \in Nat /\ size \in Nat /\ from <= r /\ r <= size /\ size <= size
    BY <1>1, <1>6, <1>11
  <2> QED BY <2>1, SpanJoin
<1>16. Span(r, size) = OPCODE_END
  BY <1>6, <1>10
<1>17. Span(from, p) = Span(from, at) \o WithLength(Slice(addr, A))
  BY <1>9, <1>12
<1>18. Span(from, q) = Span(from, at) \o WithLength(Slice(addr, A)) \o OPCODE_SYSCALL
  BY <1>8, <1>13, <1>17
<1>19. Span(from, r) = Span(from, at) \o WithLength(Slice(addr, A)) \o OPCODE_SYSCALL \o NATIVE_INVOKE
  BY <1>7, <1>14, <1>18
<1> QED BY <1>15, <1>16, <1>19 DEF A

LEMMA NeovmSpan ==
    ASSUME Buffered, NEW at, at = size - NEOVM_CONTRACT_CONSTANT_LENGTH, TailNeovm(at),
           NEW from \in Nat, from <= at
    PROVE  Span(from, size) = Span(from, at) \o OPCODE_APPCALL
                                  \o Slice(addr, ADDRESS_SCRIPT_HASH_LEN) \o OPCODE_END
<1> DEFINE A == ADDRESS_SCRIPT_HASH_LEN
           p == parse_check_constant(at, OPCODE_APPCALL)
           q == parse_address(p, FALSE)
           r == parse_check_constant(q, OPCODE_END)
<1>1. size \in Nat /\ A \in Nat /\ at \in Nat /\ addr = at + 1 /\ Found(r)
      /\ at = size - (1 + A + 1)
  BY BytesRead, ConstantPartLengths DEF TailNeovm, NeovmTail
<1>2. at \in Places
  BY <1>1 DEF Places
<1>3. p \in Places
  BY <1>2, ConstantLengths, ConstantReads
<1>4. q \in Places
  BY <1>3, AddressReads
<1> HIDE DEF p, q, r
<1>5. q \in Nat /\ Found(q) /\ q + 1 <= size /\ Span(q, q + 1) = OPCODE_END
  BY <1>1, <1>4, ConstantLengths, FoundBefore, ZenonT(30) DEF r
<1>6. p \in Nat /\ p <= q /\ q = p + A /\ Span(p, q) = Slice(p, A)
  <2>1. q = p + A
    <3>1. q = p + 0 + A
      BY <1>3, <1>5, AddressReads DEF q
    <3>2. p \in Nat
      BY <1>3, <1>1 DEF Places
    <3> QED BY <1>1, <3>1, <3>2
  <2>2. p \in Nat /\ p <= q /\ Span(p, q) = Slice(p, A)
    BY <1>3, <1>5, AddressSpan DEF q
  <2> QED BY <2>1, <2>2
<1>7. Found(p)
  BY <1>1, <1>5, <1>6 DEF Found
<1>8. p = at + 1 /\ Span(at, p) = OPCODE_APPCALL
  <2>0. Len(OPCODE_APPCALL) = 1 /\ 1 \in Nat
    BY ConstantLengths
  <2>1. at + 1 = p /\ Span(at, at + 1) = OPCODE_APPCALL
    BY <1>2, <1>7, <2>0, FoundBefore, ZenonT(30) DEF p
  <2> QED BY <2>1
<1> HIDE DEF A
<1>9. /\ q + 1 = size /\ from <= p /\ from <= q /\ at <= p /\ p <= size /\ q <= size
      /\ q <= q + 1 /\ q + 1 \in Nat
  BY <1>1, <1>5, <1>6, <1>8
<1>10. Span(from, p) = Span(from, at) \o Span(at, p)
  <2>1. at \in Nat /\ p \in Nat /\ at <= p /\ p <= size
    BY <1>1, <1>6, <1>9
  <2> QED BY <2>1, SpanJoin
<1>11. Span(from, q) = Span(from, p) \o Span(p, q)
  <2>1. /\ from \in Nat /\ p \in Nat /\ q \in Nat
        /\ from <= p /\ p <= q /\ q <= size
    BY <1>5, <1>6, <1>9
  <2> QED BY <2>1, SpanJoin
<1>12. Span(from, size) = Span(from, q) \o Span(q, size)
  <2>1. /\ from \in Nat /\ q \in Nat /\ size \in Nat
        /\ from <= q /\ q <= size /\ size <= size
    BY <1>1, <1>5, <1>9
  <2> QED BY <2>1, SpanJoin
<1>13. Span(q, size) = OPCODE_END /\ Span(p, q) = Slice(addr, A)
  BY <1>1, <1>5, <1>6, <1>8, <1>9
<1> QED BY <1>8, <1>10, <1>11, <1>12, <1>13 DEF A

LEMMA MethodSpan ==
    ASSUME Buffered, NEW at \in Places, name = Name(at), Found(parse_method_name(at))
    PROVE  /\ at \in Nat /\ name.len \in Nat /\ name.len = Byte(at)
           /\ parse_method_name(at) = at + 1 + name.len /\ parse_method_name(at) \in Nat
           /\ at + 1 + name.len <= size
           /\ at <= parse_method_name(at)
           /\ Span(at, parse_method_name(at)) = WithLength(Slice(name.at, name.len))
<1>1. parse_method_name(at) = Sized(at, 1 .. 255)
  BY DEF parse_method_name
<1>2. /\ at \in Nat /\ Byte(at) \in 1 .. 255 /\ Sized(at, 1 .. 255) = at + 1 + Byte(at)
      /\ Sized(at, 1 .. 255) <= size
      /\ Span(at, Sized(at, 1 .. 255)) = WithLength(Slice(at + 1, Byte(at)))
  BY <1>1, SizedSpan
<1>3. name.at = at + 1 /\ name.len = Byte(at)
  BY DEF Name
<1> DEFINE n == Byte(at)
<1>4. n \in Nat
  BY <1>2
<1> HIDE DEF n
<1>5. at + 1 + n \in Nat /\ at <= at + 1 + n
  BY <1>2, <1>4
<1> QED BY <1>1, <1>2, <1>3, <1>4, <1>5 DEF n

LEMMA KnownCall ==
    ASSUME KnownMethod # {}
    PROVE  /\ AddressOf[TheContract] = Slice(addr, ADDRESS_SCRIPT_HASH_LEN)
           /\ NameOf[TheMethod] = Slice(name.at, name.len)
<1>1. PICK m : m \in KnownMethod
  OBVIOUS
<1>2. PICK contract \in KnownContract : m \in Methods(contract)
  BY <1>1 DEF KnownMethod
<1>3. contract \in Contracts
  BY <1>2 DEF KnownContract
<1>4. TheContract \in KnownContract
  BY <1>2, <1>3 DEF TheContract
<1>5. m \in KnownNames
  BY <1>2, <1>3 DEF KnownNames
<1>6. TheMethod \in KnownMethod
  BY <1>1, <1>5 DEF TheMethod
<1> QED BY <1>4, <1>6 DEF KnownContract, KnownMethod

\* A call by its name, address and type.
Names(c) ==
    /\ c.type = type /\ c.address = Slice(addr, ADDRESS_SCRIPT_HASH_LEN)
    /\ c.method = Slice(name.at, name.len)

\* The code of a call that ends with its method and contract.
LEMMA CodeBehind ==
    ASSUME Buffered, type \in ContractTypes, ~Wasm, CallFound, NameFound,
           offset \in Nat, Start <= offset, offset + (name.len + 1 + ConstantLength) = size,
           NEW c, Names(c)
    PROVE  Span(Start, size) = CallCode(c, Span(Start, offset))
<1>0. Start \in Nat /\ size \in Nat
  BY StartNat, BytesRead
<1>1. PICK at \in Places :
          name = Name(at) /\ Found(parse_method_name(at)) /\ Byte(at) = sEnd - 1 - at
  BY DEF NameFound
<1> DEFINE n == name.len
           end == at + 1 + n
<1>2. /\ at \in Nat /\ n \in Nat /\ n = Byte(at) /\ end \in Nat /\ at <= end /\ end <= size
      /\ Span(at, end) = WithLength(Slice(name.at, n))
  BY <1>1, MethodSpan
<1>3. ConstantLength \in Nat /\ sEnd = size - ConstantLength
  BY ConstantPartLengths DEF ConstantLength, sEnd
<1> HIDE DEF n
<1>4. at = offset /\ end = sEnd
  BY <1>0, <1>1, <1>2, <1>3 DEF n
<1> HIDE DEF end
<1>5. Span(Start, end) = Span(Start, offset) \o WithLength(c.method) /\ Start <= end
  <2>1. Start \in Nat /\ end \in Nat /\ Start <= offset /\ offset <= end /\ end <= size
    BY <1>0, <1>2, <1>4
  <2>2. Span(Start, end) = Span(Start, offset) \o Span(offset, end)
    <3>1. /\ Start \in Nat /\ offset \in Nat /\ end \in Nat
          /\ Start <= offset /\ offset <= end /\ end <= size
      BY <2>1
    <3> QED BY <3>1, SpanJoin
  <2> QED BY <1>0, <1>2, <1>4, <2>1, <2>2 DEF Names, n
<1>6. CASE type = "NATIVE_CONTRACT"
  <2>1. /\ end = size - NATIVE_CONTRACT_CONSTANT_LENGTH /\ TailNative(end)
    BY <1>3, <1>4, <1>6 DEF CallFound, ConstantLength, Native
  <2>2. Span(Start, size) =
            Span(Start, end) \o WithLength(c.address)
                \o OPCODE_SYSCALL \o NATIVE_INVOKE \o OPCODE_END
    BY <1>0, <1>5, <2>1, NativeSpan DEF Names
  <2>3. c.type = "NATIVE_CONTRACT"
    BY <1>6 DEF Names
  <2> QED BY <1>5, <2>2, <2>3 DEF CallCode
<1>7. CASE type = "NEOVM_CONTRACT"
  <2>1. /\ end = size - NEOVM_CONTRACT_CONSTANT_LENGTH /\ TailNeovm(end)
    BY <1>3, <1>4, <1>7 DEF CallFound, ConstantLength, Native
  <2>2. Span(Start, size) = Span(Start, end) \o OPCODE_APPCALL \o c.address \o OPCODE_END
    BY <1>0, <1>5, <2>1, NeovmSpan DEF Names
  <2>3. c.type = "NEOVM_CONTRACT"
    BY <1>7 DEF Names
  <2> QED BY <1>5, <2>2, <2>3 DEF CallCode
<1> QED BY <1>6, <1>7 DEF ContractTypes, Wasm

\* The code of a call that starts with them.
LEMMA CodeBefore ==
    ASSUME Buffered, Wasm, CallFound, NameFound,
           NEW from, from = parse_method_name(Behind20 + 1),
           NEW end \in Nat, from <= end, end + 1 = size, Span(end, size) = OPCODE_END,
           NEW c, Names(c)
    PROVE  Span(Start, size) = CallCode(c, Span(from, end))
<1> DEFINE A == ADDRESS_SCRIPT_HASH_LEN
           at == Behind20
           n == name.len
<1>0. Start \in Nat /\ size \in Nat /\ A \in Nat /\ A # 0
  BY StartNat, BytesRead, SizeAssumption
<1>1. /\ addr = Start /\ Found(parse_address(Start, FALSE))
      /\ Byte(at) = size - (at + 1) - 1 /\ name = Name(at + 1)
      /\ Found(parse_method_name(at + 1))
  BY ConstantLengths DEF CallFound, NameFound, Wasm
<1>2. at = Start + A /\ at \in Nat /\ at + 1 \in Nat /\ Start <= at /\ Start \in Places
  BY <1>0 DEF Behind20, CallFound, Places
<1>3. parse_address(Start, FALSE) = at /\ Span(Start, at) = Slice(addr, A) /\ at <= size
  <2>1. parse_address(Start, FALSE) = Start + 0 + A
    BY <1>1, <1>2, AddressReads
  <2>2. parse_address(Start, FALSE) = at
    <3> HIDE DEF A, at
    <3>1. Start + 0 + A = Start + A
      BY <1>0
    <3> QED BY <1>2, <2>1, <3>1
  <2>3. Span(Start, parse_address(Start, FALSE)) = Slice(Start, A)
    BY <1>1, <1>2, AddressSpan
  <2> QED BY <1>1, <2>2, <2>3 DEF Found
<1>4. at + 1 \in Places
  BY <1>0, <1>2, <1>3 DEF Places
<1> DEFINE method == Slice(name.at, n)
<1>5. /\ n \in Nat /\ from \in Nat /\ from = at + 1 + 1 + n /\ at + 1 <= from
      /\ Span(at + 1, from) = WithLength(method) /\ from <= size
  BY <1>1, <1>4, MethodSpan
<1> HIDE DEF at, n, method
<1>6. Span(at, at + 1) = <<Byte(at)>> /\ at + 1 <= size
  BY <1>0, <1>2, <1>5, OneByte
<1>7. Span(at + 1, end) = WithLength(method) \o Span(from, end)
  <2> DEFINE b == at + 1
  <2>1. b \in Nat /\ from \in Nat /\ b <= from /\ from <= end /\ end <= size
    BY <1>0, <1>2, <1>5
  <2> HIDE DEF b
  <2>2. Span(b, end) = Span(b, from) \o Span(from, end)
    <3>1. /\ b \in Nat /\ from \in Nat /\ end \in Nat
          /\ b <= from /\ from <= end /\ end <= size
      BY <2>1
    <3> QED BY <3>1, SpanJoin
  <2> QED BY <1>5, <2>2 DEF b
<1> DEFINE rest == Span(at + 1, end)
<1>8. Span(at, end) = WithLength(rest) /\ at <= end
  <2>1. at <= at + 1 /\ at + 1 <= end /\ end <= size
    BY <1>0, <1>2, <1>5
  <2>2. Len(rest) = end - (at + 1)
    BY <1>2, <2>1, SpanFacts
  <2>3. Byte(at) = end - (at + 1)
    BY <1>0, <1>1, <1>2
  <2>4. Span(at, end) = Span(at, at + 1) \o rest
    BY <1>2, <2>1, SpanJoin
  <2>5. at <= end
    BY <1>2, <2>1
  <2> QED BY <1>6, <2>2, <2>3, <2>4, <2>5 DEF WithLength
<1> HIDE DEF rest
<1>9. Span(Start, size) = Span(Start, at) \o Span(at, end) \o Span(end, size)
  <2>1. end <= size /\ Start <= end /\ size <= size
    BY <1>0, <1>2, <1>8
  <2>2. Start \in Nat /\ at \in Nat /\ Start <= at /\ at <= end
    BY <1>0, <1>2, <1>8
  <2>3. Span(Start, end) = Span(Start, at) \o Span(at, end)
    <3>1. /\ Start \in Nat /\ at \in Nat /\ end \in Nat
          /\ Start <= at /\ at <= end /\ end <= size
      BY <2>1, <2>2
    <3> QED BY <3>1, SpanJoin
  <2>4. Span(Start, size) = Span(Start, end) \o Span(end, size)
    <3>1. /\ Start \in Nat /\ end \in Nat /\ size \in Nat
          /\ Start <= end /\ end <= size /\ size <= size
      BY <1>0, <2>1
    <3> QED BY <3>1, SpanJoin
  <2> QED BY <2>3, <2>4
<1>10. c.type = "WASMVM_CONTRACT" /\ c.address = Slice(addr, A) /\ c.method = method
  BY DEF Names, Wasm, method, n
<1>11. Span(Start, size) = c.address \o WithLength(WithLength(c.method) \o Span(from, end)) \o OPCODE_END
  BY <1>3, <1>7, <1>8, <1>9, <1>10 DEF rest
<1> HIDE DEF A
<1> QED BY <1>10, <1>11 DEF CallCode

-----------------------------------------------------------------------------
(* An accepted call.                                                       *)

LEMMA ReadAsIs ==
    ASSUME KnownMethod # {}, NEW count, NEW total, NEW c, c = ReadAs(count, total)
    PROVE  /\ Names(c) /\ c.type = type /\ c.signature = Sig /\ c.values = Values
           /\ c.n = Number /\ c.count = count /\ c.total = total /\ c.id = Identity
<1>1. /\ c.type = type /\ c.address = AddressOf[TheContract] /\ c.method = NameOf[TheMethod]
      /\ c.signature = Sig /\ c.values = Values
      /\ c.n = Number /\ c.count = count /\ c.total = total /\ c.id = Identity
  BY DEF ReadAs, Sig
<1> QED BY <1>1, KnownCall DEF Names

\* Where the parameters begin, and where the code behind them ends.
Begin ==
    CASE Native -> parse_check_constant(Start, OPCODE_ST_BEGIN)
      [] Wasm   -> parse_method_name(Behind20 + 1)
      [] OTHER  -> Start

BehindParams(at) ==
    CASE Native -> parse_check_constant(at, OPCODE_ST_END)
      [] Wasm   -> parse_check_constant(at, OPCODE_END)
      [] OTHER  -> parse_check_constant(parse_check_amount(at, Len(Sig)), OPCODE_PACK)

ParamsStand ==
    \E at : /\ Places0(at) /\ at[0] = Begin
            /\ offset = BehindParams(at[Len(Sig)]) /\ Found(offset)

\* All of the transaction has been read.
AllMeasured == offset + (IF Wasm THEN 0 ELSE name.len + 1 + ConstantLength) = size

LEMMA SmallNumbers ==
    ASSUME NEW n \in 1 .. 5
    PROVE  \E count : count \in AmountForms(n)
<1>1. n \in Nat /\ n < UINT64
  <2>1. /\ MAX_TRANSACTION_LEN \in Nat /\ PARAMETERS_MAX_NUM \in Nat /\ COMPRESSED_KEY_LEN \in Nat
        /\ 2 * PARAMETERS_MAX_NUM < UINT64
        /\ MAX_TRANSACTION_LEN < (PARAMETERS_MAX_NUM - 2) * (2 * COMPRESSED_KEY_LEN + 4)
    BY SizeAssumption, CapacityAssumption
  <2>2. UINT64 \in Nat
    BY WordAssumption
  <2> DEFINE p == PARAMETERS_MAX_NUM - 2
             q == 2 * COMPRESSED_KEY_LEN + 4
  <2>3. p \in Int /\ q \in Nat /\ 0 < p * q
    BY <2>1
  <2>4. p > 0
    <3> HIDE DEF p, q
    <3>1. ASSUME p <= 0 PROVE FALSE
      BY <2>3, <3>1
    <3> QED BY <2>3, <3>1
  <2> QED BY <2>1, <2>2, <2>4
<1> QED BY <1>1, FormExists

LEMMA NoList ==
    ASSUME IInv, KInv, Accepted, ~IsTransferList, NEW at, Places0(at), NEW c, c.signature = Sig
    PROVE  ~IsList(c)
<1>1. SUFFICES ASSUME Sig = <<"TRANSFER_STATE_LIST">> PROVE FALSE
  BY DEF IsList
<1>2. 1 \in 1 .. Len(Sig) /\ Sig[1] = "TRANSFER_STATE_LIST"
  BY <1>1
<1>3. ParamPiece(1, at[1 - 1], at[1])
  BY <1>2 DEF Places0
<1> QED BY <1>2, <1>3 DEF ParamPiece

\* The parameters' code, for each type of call.
LEMMA NativeBody ==
    ASSUME IInv, KInv, Accepted, ~IsTransferList, Native, NEW at, Places0(at), at[0] = Begin,
           offset = BehindParams(at[Len(Sig)]), Found(offset), Start <= size,
           NEW c, ReadFrom(c), CountStands(at, c.count)
    PROVE  Start <= offset /\ Span(Start, offset) = ParamsCode(c)
<1> DEFINE a == at[0]
           b == at[Len(Sig)]
<1>1. /\ size \in Nat /\ Buffered /\ Len(Sig) \in Nat
      /\ \A k \in 0 .. Len(Sig) : at[k] \in Nat /\ at[k] <= size
  BY PlacesFacts
<1>2. a \in Nat /\ a <= size /\ b \in Nat /\ b <= size
  BY <1>1
<1>3. a <= b /\ Span(a, b) = ClosedAll(PartsOf(c))
  BY PartsSpan
<1>4. a = parse_check_constant(Start, OPCODE_ST_BEGIN)
  BY DEF Begin, Native, Wasm
<1>5. offset = parse_check_constant(b, OPCODE_ST_END)
  BY DEF BehindParams, Native, Wasm
<1> HIDE DEF a, b
<1>6. Start \in Nat /\ Start \in Places /\ b \in Places
  BY <1>1, <1>2, StartNat DEF Places
<1>7. a = Start + 3 /\ Span(Start, a) = OPCODE_ST_BEGIN
  <2>1. Found(parse_check_constant(Start, OPCODE_ST_BEGIN))
    BY <1>2, <1>4 DEF Found
  <2>2. Len(OPCODE_ST_BEGIN) = 3 /\ 3 \in Nat
    BY ConstantLengths
  <2> QED BY <1>1, <1>4, <1>6, <2>1, <2>2, ConstantSpan
<1>8. offset = b + 1 /\ offset <= size /\ Span(b, offset) = OPCODE_ST_END
  <2>1. Len(OPCODE_ST_END) = 1 /\ 1 \in Nat
    BY ConstantLengths
  <2>2. Found(parse_check_constant(b, OPCODE_ST_END))
    BY <1>5
  <2>3. /\ parse_check_constant(b, OPCODE_ST_END) = b + 1
        /\ parse_check_constant(b, OPCODE_ST_END) <= size
        /\ Span(b, parse_check_constant(b, OPCODE_ST_END)) = OPCODE_ST_END
    BY <1>1, <1>6, <2>1, <2>2, ConstantSpan
  <2> QED BY <1>5, <2>3
<1>9. /\ Start <= a /\ Start <= b /\ b <= offset /\ offset \in Nat /\ Start <= offset
  BY <1>2, <1>3, <1>6, <1>7, <1>8
<1>10. Span(Start, b) = Span(Start, a) \o Span(a, b)
  <2>1. /\ Buffered /\ Start \in Nat /\ a \in Nat /\ b \in Nat
        /\ Start <= a /\ a <= b /\ b <= size
    BY <1>1, <1>2, <1>3, <1>6, <1>9
  <2> QED BY <2>1, SpanJoin
<1>11. Span(Start, offset) = Span(Start, b) \o Span(b, offset)
  <2>1. /\ Buffered /\ Start \in Nat /\ b \in Nat /\ offset \in Nat
        /\ Start <= b /\ b <= offset /\ offset <= size
    BY <1>1, <1>2, <1>6, <1>8, <1>9
  <2> QED BY <2>1, SpanJoin
<1>12. Span(Start, offset) = OPCODE_ST_BEGIN \o ClosedAll(PartsOf(c)) \o OPCODE_ST_END
  BY <1>3, <1>7, <1>8, <1>10, <1>11
<1>13. ~IsList(c) /\ c.type = "NATIVE_CONTRACT"
  BY NoList DEF ReadFrom, Native
<1> QED BY <1>9, <1>12, <1>13 DEF ParamsCode, PartsOf

LEMMA NeovmBody ==
    ASSUME IInv, KInv, Accepted, ~IsTransferList, type = "NEOVM_CONTRACT", NEW at, Places0(at),
           at[0] = Begin, offset = BehindParams(at[Len(Sig)]), Found(offset), Start <= size
    PROVE  /\ Start <= offset
           /\ \E total \in AmountForms(Len(Sig)) :
                  \A c : ReadFrom(c) /\ CountStands(at, c.count) /\ c.total = total =>
                      Span(Start, offset) = ParamsCode(c)
<1> DEFINE b == at[Len(Sig)]
           e == parse_amount(b)
           total == Span(b, e)
<1>1. /\ size \in Nat /\ Buffered /\ Len(Sig) \in Nat
      /\ \A k \in 0 .. Len(Sig) : at[k] \in Nat /\ at[k] <= size
  BY PlacesFacts
<1>2. b \in Nat /\ b <= size
  BY <1>1
<1>3. ~Native /\ ~Wasm /\ at[0] = Start
  BY DEF Begin, Native, Wasm
<1>4. offset = parse_check_constant(parse_check_amount(b, Len(Sig)), OPCODE_PACK)
  BY <1>3 DEF BehindParams
<1> HIDE DEF b
<1>5. Start \in Nat /\ b \in Places
  BY <1>1, <1>2, StartNat DEF Places
<1>6. /\ Found(parse_check_amount(b, Len(Sig))) /\ parse_check_amount(b, Len(Sig)) \in Nat
      /\ offset = parse_check_amount(b, Len(Sig)) + 1
      /\ Span(parse_check_amount(b, Len(Sig)), offset) = OPCODE_PACK
      /\ offset <= size
  <2>1. Len(OPCODE_PACK) = 1 /\ 1 \in Nat
    BY ConstantLengths
  <2>2. parse_check_amount(b, Len(Sig)) \in Places
    BY <1>1, <1>5, CheckAmountReads
  <2> DEFINE x == parse_check_amount(b, Len(Sig))
  <2> HIDE DEF x
  <2>3. x \in Places /\ offset = parse_check_constant(x, OPCODE_PACK)
        /\ Found(parse_check_constant(x, OPCODE_PACK))
    BY <1>4, <2>2 DEF x
  <2>4. /\ Found(x) /\ x \in Nat /\ parse_check_constant(x, OPCODE_PACK) = x + 1
        /\ x + 1 <= size /\ Span(x, x + 1) = OPCODE_PACK
    BY <1>1, <2>1, <2>3, FoundBefore
  <2> QED BY <2>3, <2>4 DEF x
<1>7. /\ parse_check_amount(b, Len(Sig)) = e /\ e \in Nat /\ b <= e /\ e <= size
      /\ total \in AmountForms(Len(Sig))
  BY <1>1, <1>5, <1>6, CheckedSpan
<1> HIDE DEF e, total
<1>8. offset = e + 1 /\ Span(e, offset) = OPCODE_PACK
  BY <1>6, <1>7
<1>9. ASSUME NEW c, ReadFrom(c), CountStands(at, c.count), c.total = total
      PROVE  Start <= b /\ Span(Start, offset) = ParamsCode(c)
  <2>1. Start <= b /\ Span(Start, b) = Concat(PartsOf(c))
    BY <1>3, <1>9, PartsSpan DEF b
  <2>2. /\ Start <= e /\ e <= offset /\ offset \in Nat
    BY <1>2, <1>5, <1>7, <1>8, <2>1
  <2>3. Span(Start, e) = Span(Start, b) \o Span(b, e)
    <3>1. /\ Buffered /\ Start \in Nat /\ b \in Nat /\ e \in Nat
          /\ Start <= b /\ b <= e /\ e <= size
      BY <1>1, <1>2, <1>5, <1>7, <2>1
    <3> QED BY <3>1, SpanJoin
  <2>4. Span(Start, offset) = Span(Start, e) \o Span(e, offset)
    <3>1. /\ Buffered /\ Start \in Nat /\ e \in Nat /\ offset \in Nat
          /\ Start <= e /\ e <= offset /\ offset <= size
      BY <1>1, <1>5, <1>6, <1>7, <2>2
    <3> QED BY <3>1, SpanJoin
  <2>5. Span(Start, offset) = Concat(PartsOf(c)) \o c.total \o OPCODE_PACK
    BY <1>8, <1>9, <2>1, <2>3, <2>4 DEF total
  <2>6. ~IsList(c) /\ c.type = "NEOVM_CONTRACT"
    BY <1>9, NoList DEF ReadFrom
  <2> QED BY <2>1, <2>5, <2>6 DEF ParamsCode, PartsOf
<1>10. Start <= offset
  <2>1. PICK count \in AmountForms(num) : CountStands(at, count)
    BY CountFound
  <2> DEFINE c == ReadAs(count, total)
  <2>2. ReadFrom(c) /\ c.count = count /\ c.total = total
    <3>1. KnownMethod # {}
      BY DEF KInv, AllRead
    <3>2. Number = num
      BY DEF Number
    <3> QED BY <3>1, <3>2, ReadAsIs DEF ReadFrom
  <2> HIDE DEF c
  <2>3. Start <= b
    BY <1>9, <2>1, <2>2
  <2> QED BY <1>2, <1>5, <1>7, <1>8, <2>3
<1> QED BY <1>7, <1>9, <1>10

LEMMA WasmBody ==
    ASSUME IInv, KInv, Accepted, ~IsTransferList, Wasm, NEW at, Places0(at), at[0] = Begin,
           offset = BehindParams(at[Len(Sig)]), Found(offset),
           NEW c, ReadFrom(c), CountStands(at, c.count)
    PROVE  /\ at[0] = parse_method_name(Behind20 + 1)
           /\ at[Len(Sig)] \in Nat /\ at[0] <= at[Len(Sig)] /\ offset = at[Len(Sig)] + 1
           /\ Span(at[Len(Sig)], offset) = OPCODE_END
           /\ Span(at[0], at[Len(Sig)]) = ParamsCode(c)
<1> DEFINE b == at[Len(Sig)]
<1>1. /\ size \in Nat /\ Buffered /\ Len(Sig) \in Nat
      /\ \A k \in 0 .. Len(Sig) : at[k] \in Nat /\ at[k] <= size
  BY PlacesFacts
<1>2. b \in Nat /\ b <= size /\ b \in Places
  BY <1>1 DEF Places
<1>3. ~Native /\ c.type = "WASMVM_CONTRACT"
  BY DEF Native, Wasm, ReadFrom
<1>4. at[0] = parse_method_name(Behind20 + 1)
  BY <1>3 DEF Begin
<1>5. offset = parse_check_constant(b, OPCODE_END)
  BY <1>3 DEF BehindParams
<1>6. at[0] <= b /\ Span(at[0], b) = Concat(PartsOf(c))
  BY <1>3, PartsSpan
<1> HIDE DEF b
<1>7. offset = b + 1 /\ Span(b, offset) = OPCODE_END
  <2>1. Len(OPCODE_END) = 1 /\ 1 \in Nat
    BY ConstantLengths
  <2> QED BY <1>1, <1>2, <1>5, <2>1, ConstantSpan
<1>8. ~IsList(c)
  BY NoList DEF ReadFrom
<1>9. ParamsCode(c) = Concat(PartsOf(c))
  BY <1>3, <1>8 DEF ParamsCode, PartsOf
<1> QED BY <1>2, <1>4, <1>6, <1>7, <1>9 DEF b

LEMMA WholeSpan ==
    ASSUME Buffered
    PROVE  SubSeq(buf, PayloadAt(HeaderLength) + 1, size) = Span(Start, size)
<1>1. size \in Nat /\ Start \in Nat
  BY BytesRead, StartNat
<1>2. Start + (size - Start) = size
  BY <1>1
<1> QED BY <1>2 DEF Span, Slice, Start

\* It is enough to find a count and a total.
LEMMA ToExplain ==
    ASSUME Buffered, NEW count \in AmountForms(Number), NEW total \in AmountForms(Len(Sig)),
           NEW c, c = ReadAs(count, total), Span(Start, size) = CallCode(c, ParamsCode(c))
    PROVE  Explained
BY WholeSpan DEF Explained, Sig

LEMMA ParamsExplained ==
    ASSUME IInv, KInv, Accepted, ~IsTransferList, CallFound, NameFound, AllMeasured, ParamsStand
    PROVE  Explained
<1>1. PICK at : /\ Places0(at) /\ at[0] = Begin
                /\ offset = BehindParams(at[Len(Sig)]) /\ Found(offset)
  BY DEF ParamsStand
<1>2. /\ type \in ContractTypes /\ KnownMethod # {} /\ Buffered /\ Start <= size
      /\ offset \in Nat /\ Number = num
  BY DEF KInv, CalledInv, AllRead, Accepted, Typed, CallFound, IInv, TypeInv, Positions, Number
<1>3. PICK count \in AmountForms(num) : CountStands(at, count)
  BY <1>1, CountFound
<1>4. \E total : total \in AmountForms(Len(Sig))
  <2>1. Shaped(Sig)
    BY <1>2, TheTable, SignatureShape DEF Sig
  <2> QED BY <2>1, SmallNumbers DEF Shaped
<1>5. ASSUME NEW total, NEW c, c = ReadAs(count, total)
      PROVE  ReadFrom(c) /\ Names(c) /\ c.count = count /\ c.total = total
             /\ CountStands(at, c.count)
  BY <1>2, <1>3, <1>5, ReadAsIs DEF ReadFrom
<1>6. CASE Native
  <2>1. PICK total : total \in AmountForms(Len(Sig))
    BY <1>4
  <2> DEFINE c == ReadAs(count, total)
  <2>2. ReadFrom(c) /\ Names(c) /\ CountStands(at, c.count)
    BY <1>5
  <2>3. c = ReadAs(count, total)
    OBVIOUS
  <2> HIDE DEF c
  <2>4. Start <= offset /\ Span(Start, offset) = ParamsCode(c)
    BY <1>1, <1>2, <1>6, <2>2, NativeBody
  <2>5. ~Wasm
    BY <1>6 DEF Native, Wasm
  <2>6. Span(Start, size) = CallCode(c, Span(Start, offset))
    BY <1>2, <2>2, <2>4, <2>5, CodeBehind DEF AllMeasured
  <2> QED BY <1>2, <1>3, <2>1, <2>3, <2>4, <2>6, ToExplain
<1>7. CASE type = "NEOVM_CONTRACT"
  <2>1. /\ Start <= offset
        /\ \E total \in AmountForms(Len(Sig)) :
               \A c : ReadFrom(c) /\ CountStands(at, c.count) /\ c.total = total =>
                   Span(Start, offset) = ParamsCode(c)
    BY <1>1, <1>2, <1>7, NeovmBody
  <2>2. PICK total \in AmountForms(Len(Sig)) :
            \A c : ReadFrom(c) /\ CountStands(at, c.count) /\ c.total = total =>
                Span(Start, offset) = ParamsCode(c)
    BY <2>1
  <2> DEFINE c == ReadAs(count, total)
  <2>3. ReadFrom(c) /\ Names(c) /\ CountStands(at, c.count) /\ c.total = total
    BY <1>5
  <2>4. c = ReadAs(count, total)
    OBVIOUS
  <2> HIDE DEF c
  <2>5. Span(Start, offset) = ParamsCode(c)
    BY <2>2, <2>3
  <2>6. ~Wasm
    BY <1>7 DEF Wasm
  <2>7. Span(Start, size) = CallCode(c, Span(Start, offset))
    BY <1>2, <2>1, <2>3, <2>6, CodeBehind DEF AllMeasured
  <2> QED BY <1>2, <1>3, <2>2, <2>4, <2>5, <2>7, ToExplain
<1>8. CASE Wasm
  <2>1. PICK total : total \in AmountForms(Len(Sig))
    BY <1>4
  <2> DEFINE c == ReadAs(count, total)
  <2>2. ReadFrom(c) /\ Names(c) /\ CountStands(at, c.count)
    BY <1>5
  <2>3. c = ReadAs(count, total)
    OBVIOUS
  <2> HIDE DEF c
  <2> DEFINE from == at[0]
             end == at[Len(Sig)]
  <2>4. /\ from = parse_method_name(Behind20 + 1) /\ end \in Nat /\ from <= end
        /\ offset = end + 1 /\ Span(end, offset) = OPCODE_END
        /\ Span(from, end) = ParamsCode(c)
    BY <1>1, <1>8, <2>2, WasmBody
  <2> HIDE DEF from, end
  <2>5. end + 1 = size /\ Span(end, size) = OPCODE_END
    <3>1. offset + 0 = size
      BY <1>8 DEF AllMeasured
    <3> QED BY <1>2, <2>4, <3>1
  <2>6. Span(Start, size) = CallCode(c, Span(from, end))
    BY <1>2, <1>8, <2>2, <2>4, <2>5, CodeBefore
  <2> QED BY <1>2, <1>3, <2>1, <2>3, <2>4, <2>6, ToExplain
<1> QED BY <1>2, <1>6, <1>7, <1>8 DEF ContractTypes, Native, Wasm
-----------------------------------------------------------------------------
(* A list of transfers.                                                    *)

StatePiece(k, a, b) ==
    /\ Found(b) /\ b = StateEnd(a)
    /\ \A j \in 1 .. 3 : params[3 * (k - 1) + j - 1] = StateEntries(a)[j]

States0(at) ==
    /\ at \in [0 .. i -> Nat] /\ at[0] = Start
    /\ \A k \in 1 .. i : StatePiece(k, at[k - 1], at[k])

TransfersStand ==
    \E at : /\ States0(at)
            /\ offset = parse_check_constant(parse_check_amount(at[i], i), OPCODE_PACK)
            /\ Found(offset)

\* The values of one transfer.
StateValues(k) == SubSeq(Values, 3 * k - 2, 3 * k)

LEMMA StateValuesAre ==
    ASSUME IInv, KInv, Accepted, IsTransferList, NEW k \in 1 .. i
    PROVE  \A j \in 1 .. 3 : StateValues(k)[j] = Pointed(params[3 * (k - 1) + j - 1])
<1>1. /\ i \in Nat /\ TheContract \in {"ONT", "ONG"} /\ TheMethod \in TransferMethods
      /\ cur \in Nat /\ Number = i
  BY TransferTable, SizeAssumption DEF IInv, TypeInv, Number
<1>2. DOMAIN params = 0 .. cur - 1 /\ cur = 3 * i
  BY <1>1, ListEntries DEF KInv, AllRead
<1>3. /\ Values \in Seq(Seq(Bytes)) /\ Len(Values) = cur
      /\ \A j \in 1 .. cur : Values[j] = Pointed(params[j - 1])
  BY <1>1, <1>2, ValuesFacts
<1> DEFINE m == 3 * (k - 1)
<1>4. m \in Nat /\ m + 3 <= cur /\ 3 * k - 2 = m + 1 /\ 3 * k = m + 3
  BY <1>1, <1>2
<1> HIDE DEF m
<1>5. \A j \in 1 .. 3 : SubSeq(Values, m + 1, m + 3)[j] = Values[m + j]
  BY <1>3, <1>4, Cut
<1>6. StateValues(k) = SubSeq(Values, m + 1, m + 3)
  BY <1>4 DEF StateValues
<1> SUFFICES ASSUME NEW j \in 1 .. 3 PROVE StateValues(k)[j] = Pointed(params[m + j - 1])
  BY DEF m
<1>7. m + j \in 1 .. cur /\ (m + j) - 1 = m + j - 1
  BY <1>1, <1>4
<1> QED BY <1>3, <1>5, <1>6, <1>7

LEMMA ListExplained ==
    ASSUME IInv, KInv, Accepted, IsTransferList, CallFound, NameFound, AllMeasured,
           TransfersStand
    PROVE  Explained
<1>1. PICK at : /\ States0(at) /\ Found(offset)
                /\ offset = parse_check_constant(parse_check_amount(at[i], i), OPCODE_PACK)
  BY DEF TransfersStand
<1>2. /\ type \in ContractTypes /\ KnownMethod # {} /\ Buffered /\ Start <= size
      /\ offset \in Nat /\ Number = i /\ i \in Nat /\ Native
  BY DEF KInv, CalledInv, AllRead, Accepted, Typed, CallFound, IInv, TypeInv, Positions, Number,
         IsTransferList
<1>3. Sig = <<"TRANSFER_STATE_LIST">>
  <2>1. TheContract \in {"ONT", "ONG"} /\ TheMethod \in TransferMethods
    BY TransferTable
  <2>2. TheMethod \in Methods(TheContract) /\ TheContract \in Contracts
    BY <1>2, TheTable
  <2> QED BY <2>1, <2>2, SignatureTable DEF Sig
<1>4. size \in Nat /\ Start \in Nat
  BY <1>2, BytesRead, StartNat
<1>5. at \in [0 .. i -> Nat] /\ at[0] = Start /\ \A k \in 0 .. i : at[k] \in Nat
  BY <1>1 DEF States0
<1>6. \A k \in 0 .. i : at[k] <= size
  <2>1. SUFFICES ASSUME NEW k \in 1 .. i PROVE at[k] <= size
    BY <1>2, <1>5
  <2> QED BY <1>1 DEF States0, StatePiece, Found
<1> DEFINE b == at[i]
           e == parse_amount(b)
           count == Span(b, e)
<1>7. b \in Nat /\ b <= size /\ b \in Places
  BY <1>2, <1>4, <1>5, <1>6 DEF Places
<1> HIDE DEF b
<1>8. /\ parse_check_amount(b, i) = e /\ e \in Nat /\ b <= e /\ e <= size
      /\ count \in AmountForms(i) /\ offset = e + 1 /\ offset <= size
      /\ Span(e, offset) = OPCODE_PACK
  <2> DEFINE x == parse_check_amount(b, i)
  <2>1. x \in Places
    BY <1>2, <1>7, CheckAmountReads
  <2>2. offset = parse_check_constant(x, OPCODE_PACK)
    BY <1>1 DEF b
  <2> HIDE DEF x
  <2>3. Len(OPCODE_PACK) = 1 /\ 1 \in Nat
    BY ConstantLengths
  <2>4. Found(x) /\ x \in Nat /\ offset = x + 1 /\ offset <= size /\ Span(x, x + 1) = OPCODE_PACK
    <3>1. Found(parse_check_constant(x, OPCODE_PACK))
      BY <1>1, <2>2
    <3>2. Buffered
      BY <1>2
    <3>3. /\ Found(x) /\ x \in Nat /\ parse_check_constant(x, OPCODE_PACK) = x + 1
          /\ x + 1 <= size /\ Span(x, x + 1) = OPCODE_PACK
      BY <2>1, <2>3, <3>1, <3>2, FoundBefore
    <3> QED BY <2>2, <3>3
  <2>5. x = e /\ e \in Nat /\ b <= e /\ e <= size /\ count \in AmountForms(i)
    BY <1>2, <1>7, <2>4, CheckedSpan DEF x
  <2> QED BY <2>4, <2>5 DEF x
<1> HIDE DEF e, count
<1>9. PICK total : total \in AmountForms(Len(Sig))
  <2>1. Len(Sig) = 1 /\ 1 \in 1 .. 5
    BY <1>3
  <2> QED BY <2>1, SmallNumbers
<1> DEFINE c == ReadAs(count, total)
<1>10. /\ c = ReadAs(count, total) /\ Names(c) /\ c.type = type /\ c.signature = Sig
       /\ c.values = Values /\ c.n = i /\ c.count = count
  BY <1>2, ReadAsIs
<1> HIDE DEF c
<1> DEFINE states == [k \in 1 .. i |-> Part(c, "TRANSFER_STATE", StateValues(k))]
<1>11. Len(states) = i
  BY <1>2
<1>12. ASSUME NEW k \in 1 .. i
       PROVE  /\ at[k - 1] <= at[k] /\ at[k] <= size /\ Span(at[k - 1], at[k]) = states[k]
              /\ states[k] \in Seq(Bytes)
  <2> DEFINE a == at[k - 1]
             z == at[k]
             values == StateValues(k)
  <2>1. k - 1 \in 0 .. i /\ k \in 0 .. i
    BY <1>2
  <2>2. a \in Nat /\ a <= size /\ a \in Places /\ z \in Nat /\ z <= size
    BY <1>4, <1>5, <1>6, <2>1 DEF Places
  <2>3. StatePiece(k, a, z)
    BY <1>1 DEF States0
  <2>4. \A j \in 1 .. 3 : values[j] = Pointed(params[3 * (k - 1) + j - 1])
    BY StateValuesAre
  <2>5. states[k] = Part(c, "TRANSFER_STATE", values)
    OBVIOUS
  <2> HIDE DEF a, z, values, states
  <2>6. z = StateEnd(a) /\ Found(StateEnd(a)) /\ \A j \in 1 .. 3 : values[j] = Pointed(StateEntries(a)[j])
    BY <2>3, <2>4 DEF StatePiece
  <2>7. a <= z /\ Span(a, z) = Part(c, "TRANSFER_STATE", values)
    BY <1>2, <2>2, <2>6, StateSpan
  <2>8. Span(a, z) \in Seq(Bytes)
    BY <1>2, <2>2, <2>7, SpanFacts
  <2> QED BY <2>2, <2>5, <2>7, <2>8 DEF a, z
<1>13. states \in Seq(Seq(Bytes))
  BY <1>2, <1>12
<1>14. Start <= b /\ Span(Start, b) = Concat(states)
  <2> HIDE DEF states
  <2>1. at[0] <= size
    BY <1>2, <1>5
  <2>2. at[0] <= at[i] /\ Span(at[0], at[i]) = Concat(states)
    BY <1>2, <1>5, <1>11, <1>12, <1>13, <2>1, JoinedSpans
  <2> QED BY <1>5, <2>2 DEF b
<1>15. Span(Start, offset) = Concat(states) \o c.count \o OPCODE_PACK /\ Start <= offset
  <2>1. /\ Start <= e /\ e <= offset /\ Start <= offset
    BY <1>2, <1>4, <1>7, <1>8, <1>14
  <2>2. Span(Start, e) = Span(Start, b) \o Span(b, e)
    <3>1. Buffered /\ Start \in Nat /\ b \in Nat
      BY <1>2, <1>4, <1>7
    <3>2. Start <= b /\ b <= e /\ e <= size /\ e \in Nat
      BY <1>8, <1>14
    <3> QED BY <3>1, <3>2, SpanJoin
  <2>3. Span(Start, offset) = Span(Start, e) \o Span(e, offset)
    <3>1. Buffered /\ Start \in Nat /\ offset \in Nat
      BY <1>2, <1>4
    <3>2. e \in Nat /\ offset <= size
      BY <1>8
    <3> QED BY <2>1, <3>1, <3>2, SpanJoin
  <2>4. c.count = Span(b, e)
    BY <1>10 DEF count
  <2> HIDE DEF states
  <2> QED BY <1>8, <1>14, <2>1, <2>2, <2>3, <2>4
<1>16. ParamsCode(c) = Concat(states) \o c.count \o OPCODE_PACK
  <2>1. IsList(c)
    BY <1>3, <1>10 DEF IsList
  <2>2. states = [k \in 1 .. c.n |-> Part(c, "TRANSFER_STATE", SubSeq(c.values, 3 * k - 2, 3 * k))]
    BY <1>10 DEF StateValues
  <2>3. c.type # "NEOVM_CONTRACT" /\ c.type # "WASMVM_CONTRACT"
    BY <1>2, <1>10 DEF Native
  <2> HIDE DEF states
  <2> QED BY <1>10, <2>1, <2>2, <2>3 DEF ParamsCode
<1>17. ~Wasm
  BY <1>2 DEF Native, Wasm
<1>18. Span(Start, size) = CallCode(c, Span(Start, offset))
  BY <1>2, <1>10, <1>15, <1>17, CodeBehind DEF AllMeasured
<1> QED BY <1>2, <1>8, <1>9, <1>10, <1>15, <1>16, <1>18, ToExplain

-----------------------------------------------------------------------------
(* What has been found stays found.                                        *)

\* Reading depends on the transaction alone.
LEMMA ReadsAgain ==
    ASSUME buf' = buf, NEW at
    PROVE  /\ Found(at)' <=> Found(at)
           /\ parse_amount(at)' = parse_amount(at)
           /\ parse_pk(at)' = parse_pk(at)
           /\ parse_ont_id(at)' = parse_ont_id(at)
           /\ parse_uint128(at)' = parse_uint128(at)
           /\ parse_method_name(at)' = parse_method_name(at)
           /\ EndParam(at)' = EndParam(at)
           /\ Name(at)' = Name(at) /\ Byte(at)' = Byte(at)
           /\ AmountEntry(at)' = AmountEntry(at)
           /\ StateFrom(at)' = StateFrom(at)
           /\ \A has_length : parse_address(at, has_length)' = parse_address(at, has_length)
           /\ \A str : parse_check_constant(at, str)' = parse_check_constant(at, str)
<1>1. size' = size /\ Past' = Past /\ Byte(at)' = Byte(at)
      /\ \A x : Byte(x)' = Byte(x)
  BY DEF size, Past, Byte
<1>2. \A x, n : buffer_seek_cur(x, n)' = buffer_seek_cur(x, n)
  BY <1>1 DEF buffer_seek_cur, buffer_can_read, Past, size
<1>3. parse_amount(at)' = parse_amount(at)
  BY <1>1 DEF parse_amount, buffer_seek_cur, buffer_can_read, Past, size, Byte
<1>4. \A s : Sized(at, s)' = Sized(at, s)
  BY <1>1 DEF Sized, buffer_seek_cur, buffer_can_read, Past, size, Byte
<1>5. \A str : parse_check_constant(at, str)' = parse_check_constant(at, str)
  BY DEF parse_check_constant, buffer_can_read, Past, size, Slice
<1>6. \A has_length : parse_address(at, has_length)' = parse_address(at, has_length)
  BY DEF parse_address, Sized, buffer_seek_cur, buffer_can_read, Past, size, Byte
<1>7. /\ parse_pk(at)' = parse_pk(at) /\ parse_ont_id(at)' = parse_ont_id(at)
      /\ parse_method_name(at)' = parse_method_name(at)
  BY DEF parse_pk, parse_ont_id, parse_method_name, Sized, buffer_seek_cur, buffer_can_read, Past,
         size, Byte
<1>8. parse_uint128(at)' = parse_uint128(at)
  BY DEF parse_uint128, buffer_seek_cur, buffer_can_read, Past, size
<1>9. EndParam(at)' = EndParam(at) /\ StateFrom(at)' = StateFrom(at)
  BY DEF EndParam, StateFrom, parse_check_constant, buffer_can_read, Past, size, Slice
<1>10. (Found(at)' <=> Found(at)) /\ Name(at)' = Name(at)
  BY DEF Found, Name, size, Byte
<1>11. AmountEntry(at)' = AmountEntry(at)
  BY <1>3 DEF AmountEntry
<1> QED BY <1>1, <1>3, <1>5, <1>6, <1>7, <1>8, <1>9, <1>10, <1>11

\* So does reading behind what is read.
LEMMA ReadsOnAgain ==
    ASSUME buf' = buf, NEW at
    PROVE  /\ EndParam(parse_amount(at))' = EndParam(parse_amount(at))
           /\ EndParam(parse_pk(at))' = EndParam(parse_pk(at))
           /\ \A n : (IsAmount(at, n)' <=> IsAmount(at, n))
                     /\ parse_check_amount(at, n)' = parse_check_amount(at, n)
           /\ \A n : EndParam(parse_check_amount(at, n))' = EndParam(parse_check_amount(at, n))
           /\ \A n : parse_check_constant(parse_check_amount(at, n), OPCODE_PACK)' =
                         parse_check_constant(parse_check_amount(at, n), OPCODE_PACK)
           /\ StateTo(at)' = StateTo(at) /\ StateAmount(at)' = StateAmount(at)
           /\ StateEnd(at)' = StateEnd(at) /\ StateEntries(at)' = StateEntries(at)
<1>1. /\ parse_amount(at)' = parse_amount(at) /\ parse_pk(at)' = parse_pk(at)
      /\ StateFrom(at)' = StateFrom(at)
  BY ReadsAgain
<1>2. EndParam(parse_amount(at))' = EndParam(parse_amount(at))
  BY <1>1 DEF EndParam, parse_check_constant, buffer_can_read, Past, size, Slice
<1>3. EndParam(parse_pk(at))' = EndParam(parse_pk(at))
  BY <1>1 DEF EndParam, parse_check_constant, buffer_can_read, Past, size, Slice
<1>4. ASSUME NEW n PROVE IsAmount(at, n)' <=> IsAmount(at, n)
  BY <1>1 DEF IsAmount, Found, size, Slice
<1>5. ASSUME NEW n PROVE parse_check_amount(at, n)' = parse_check_amount(at, n)
  BY <1>1, <1>4 DEF parse_check_amount, Past, size
<1>6. ASSUME NEW n PROVE EndParam(parse_check_amount(at, n))' = EndParam(parse_check_amount(at, n))
  BY <1>5 DEF EndParam, parse_check_constant, buffer_can_read, Past, size, Slice
<1>7. ASSUME NEW n
      PROVE  parse_check_constant(parse_check_amount(at, n), OPCODE_PACK)' =
                 parse_check_constant(parse_check_amount(at, n), OPCODE_PACK)
  BY <1>5 DEF parse_check_constant, buffer_can_read, Past, size, Slice
<1>8. StateTo(at)' = StateTo(at)
  <2>1. parse_address(StateFrom(at), TRUE)' = parse_address(StateFrom(at), TRUE)
    BY <1>1 DEF parse_address, Sized, buffer_seek_cur, buffer_can_read, Past, size, Byte
  <2> QED BY <2>1 DEF StateTo, EndParam, parse_check_constant, buffer_can_read, Past, size, Slice
<1>9. StateAmount(at)' = StateAmount(at)
  <2>1. parse_address(StateTo(at), TRUE)' = parse_address(StateTo(at), TRUE)
    BY <1>8 DEF parse_address, Sized, buffer_seek_cur, buffer_can_read, Past, size, Byte
  <2> QED BY <2>1 DEF StateAmount, EndParam, parse_check_constant, buffer_can_read, Past, size, Slice
<1>10. parse_amount(StateAmount(at))' = parse_amount(StateAmount(at))
  BY <1>9 DEF parse_amount, buffer_seek_cur, buffer_can_read, Past, size, Byte
<1>11. StateEnd(at)' = StateEnd(at)
  <2>1. EndParam(parse_amount(StateAmount(at)))' = EndParam(parse_amount(StateAmount(at)))
    BY <1>10 DEF EndParam, parse_check_constant, buffer_can_read, Past, size, Slice
  <2> QED BY <2>1 DEF StateEnd, parse_check_constant, buffer_can_read, Past, size, Slice
<1>12. StateEntries(at)' = StateEntries(at)
  BY <1>1, <1>8, <1>9, <1>10 DEF StateEntries, AddressEntry, AmountEntry
<1> QED BY <1>2, <1>3, <1>4, <1>5, <1>6, <1>7, <1>8, <1>9, <1>11, <1>12

LEMMA TailsAgain ==
    ASSUME buf' = buf, NEW at
    PROVE  (NativeTail(at)' <=> NativeTail(at)) /\ (NeovmTail(at)' <=> NeovmTail(at))
<1>1. NativeTail(at)' <=> NativeTail(at)
  <2> DEFINE p == parse_address(at, TRUE)
             q == parse_check_constant(p, OPCODE_SYSCALL)
             r == parse_check_constant(q, NATIVE_INVOKE)
             s == parse_check_constant(r, OPCODE_END)
  <2>1. p' = p
    BY ReadsAgain
  <2> HIDE DEF p
  <2>2. q' = q
    BY <2>1 DEF parse_check_constant, buffer_can_read, Past, size, Slice
  <2> HIDE DEF q
  <2>3. r' = r
    BY <2>2 DEF parse_check_constant, buffer_can_read, Past, size, Slice
  <2> HIDE DEF r
  <2>4. s' = s
    BY <2>3 DEF parse_check_constant, buffer_can_read, Past, size, Slice
  <2> HIDE DEF s
  <2>5. NativeTail(at) <=> Found(s)
    BY DEF NativeTail, p, q, r, s
  <2>6. NativeTail(at)' <=> Found(s)'
    BY DEF NativeTail, p, q, r, s
  <2> QED BY <2>4, <2>5, <2>6 DEF Found, size
<1>2. NeovmTail(at)' <=> NeovmTail(at)
  <2> DEFINE p == parse_check_constant(at, OPCODE_APPCALL)
             q == parse_address(p, FALSE)
             r == parse_check_constant(q, OPCODE_END)
  <2>1. p' = p
    BY ReadsAgain
  <2> HIDE DEF p
  <2>2. q' = q
    BY <2>1 DEF parse_address, buffer_seek_cur, buffer_can_read, Past, size
  <2> HIDE DEF q
  <2>3. r' = r
    BY <2>2 DEF parse_check_constant, buffer_can_read, Past, size, Slice
  <2> HIDE DEF r
  <2>4. NeovmTail(at) <=> Found(r)
    BY DEF NeovmTail, p, q, r
  <2>5. NeovmTail(at)' <=> Found(r)'
    BY DEF NeovmTail, p, q, r
  <2> QED BY <2>3, <2>4, <2>5 DEF Found, size
<1> QED BY <1>1, <1>2

LEMMA CallFoundAgain ==
    ASSUME buf' = buf, type' = type, addr' = addr
    PROVE  CallFound' <=> CallFound
<1>1. size' = size /\ Start' = Start
  BY SameBuffer
<1>2. parse_address(Start, FALSE)' = parse_address(Start, FALSE)
  BY <1>1 DEF parse_address, buffer_seek_cur, buffer_can_read, Past, size
<1>3. ASSUME NEW at PROVE (TailNative(at)' <=> TailNative(at)) /\ (TailNeovm(at)' <=> TailNeovm(at))
  BY TailsAgain DEF TailNative, TailNeovm
<1> DEFINE n == size - NATIVE_CONTRACT_CONSTANT_LENGTH
           v == size - NEOVM_CONTRACT_CONSTANT_LENGTH
<1>4. n' = n /\ v' = v
  BY <1>1 DEF NATIVE_CONTRACT_CONSTANT_LENGTH, NEOVM_CONTRACT_CONSTANT_LENGTH
<1>5. PICK x : x = n
  OBVIOUS
<1>6. PICK y : y = v
  OBVIOUS
<1>7. (TailNative(n)' <=> TailNative(n)) /\ (TailNeovm(v)' <=> TailNeovm(v))
  BY <1>3, <1>4, <1>5, <1>6
<1> QED BY <1>1, <1>2, <1>7 DEF CallFound, Found

LEMMA CallAgain ==
    ASSUME SameCall
    PROVE  /\ buf' = buf /\ type' = type /\ size' = size /\ Start' = Start /\ Begin' = Begin
           /\ Behind20' = Behind20
           /\ (Native' <=> Native) /\ (Wasm' <=> Wasm) /\ ConstantLength' = ConstantLength
           /\ (CallFound' <=> CallFound) /\ (NameFound' <=> NameFound)
           /\ TheContract' = TheContract /\ TheMethod' = TheMethod /\ Sig' = Sig
           /\ (IsTransferList' <=> IsTransferList)
<1>1. buf' = buf /\ type' = type /\ addr' = addr /\ name' = name
  BY DEF SameCall
<1>2. size' = size /\ Start' = Start /\ Behind20' = Behind20
  BY <1>1, SameBuffer DEF Behind20
<1>3. (Native' <=> Native) /\ (Wasm' <=> Wasm) /\ ConstantLength' = ConstantLength
  BY <1>1 DEF Native, Wasm, ConstantLength, NATIVE_CONTRACT_CONSTANT_LENGTH,
              NEOVM_CONTRACT_CONSTANT_LENGTH
<1>4. Begin' = Begin
  <2>1. parse_check_constant(Start, OPCODE_ST_BEGIN)' = parse_check_constant(Start, OPCODE_ST_BEGIN)
    BY <1>1, <1>2 DEF parse_check_constant, buffer_can_read, Past, size, Slice
  <2>2. parse_method_name(Behind20 + 1)' = parse_method_name(Behind20 + 1)
    BY <1>1, <1>2 DEF parse_method_name, Sized, buffer_seek_cur, buffer_can_read, Past, size, Byte
  <2> QED BY <1>2, <1>3, <2>1, <2>2 DEF Begin
<1>5. CallFound' <=> CallFound
  BY <1>1, CallFoundAgain
<1>6. NameFound' <=> NameFound
  <2>1. ASSUME NEW at
        PROVE  /\ Name(at)' = Name(at) /\ Byte(at)' = Byte(at)
               /\ Found(parse_method_name(at))' <=> Found(parse_method_name(at))
    BY <1>1, <1>2, ReadsAgain DEF Found
  <2>2. Places' = Places /\ sEnd' = sEnd
    BY <1>2, <1>3 DEF Places, sEnd
  <2> DEFINE x == Behind20 + 1
  <2>3. /\ Name(x)' = Name(x) /\ Byte(Behind20)' = Byte(Behind20)
        /\ Found(parse_method_name(x))' <=> Found(parse_method_name(x))
    BY <1>1, <1>2 DEF Name, Byte, Found, parse_method_name, Sized, buffer_seek_cur, buffer_can_read,
                      Past, size
  <2> QED BY <1>1, <1>2, <1>3, <2>1, <2>2, <2>3 DEF NameFound
<1> QED BY <1>1, <1>2, <1>3, <1>4, <1>5, <1>6, SameTable

LEMMA ParamsAgain ==
    ASSUME SameCall, NEW at
    PROVE  /\ Closed(at)' = Closed(at)
           /\ \A kind \in SimpleKinds :
                  /\ SimpleEntry(kind, at)' = SimpleEntry(kind, at)
                  /\ Closed(SimpleEnd(kind, at))' = Closed(SimpleEnd(kind, at))
           /\ Closed(parse_ont_id(at))' = Closed(parse_ont_id(at))
           /\ Closed(StateEnd(at))' = Closed(StateEnd(at))
           /\ BehindParams(at)' = BehindParams(at)
<1>1. buf' = buf /\ size' = size /\ (Native' <=> Native) /\ (Wasm' <=> Wasm) /\ Sig' = Sig
  BY CallAgain
<1>2. /\ StateEnd(at)' = StateEnd(at) /\ parse_ont_id(at)' = parse_ont_id(at)
      /\ EndParam(at)' = EndParam(at)
  BY <1>1, ReadsAgain, ReadsOnAgain
<1>3. Closed(at)' = Closed(at)
  BY <1>1, <1>2 DEF Closed
<1>4. Closed(StateEnd(at))' = Closed(StateEnd(at))
  BY <1>1, <1>2 DEF Closed, EndParam, parse_check_constant, buffer_can_read, Past, size, Slice
<1>5. Closed(parse_ont_id(at))' = Closed(parse_ont_id(at))
  BY <1>1, <1>2 DEF Closed, EndParam, parse_check_constant, buffer_can_read, Past, size, Slice
<1>6. ASSUME NEW kind \in SimpleKinds
      PROVE  /\ SimpleEntry(kind, at)' = SimpleEntry(kind, at)
             /\ Closed(SimpleEnd(kind, at))' = Closed(SimpleEnd(kind, at))
  <2>1. /\ parse_amount(at)' = parse_amount(at) /\ parse_pk(at)' = parse_pk(at)
        /\ parse_uint128(at)' = parse_uint128(at) /\ AmountEntry(at)' = AmountEntry(at)
        /\ \A h : parse_address(at, h)' = parse_address(at, h)
    BY <1>1, ReadsAgain
  <2>2. parse_address(at, ~Wasm)' = parse_address(at, ~Wasm)
    BY <1>1 DEF parse_address, Sized, buffer_seek_cur, buffer_can_read, Past, size, Byte
  <2>3. SimpleEnd(kind, at)' = SimpleEnd(kind, at)
    BY <2>1, <2>2 DEF SimpleEnd, SimpleKinds
  <2>4. Closed(SimpleEnd(kind, at))' = Closed(SimpleEnd(kind, at))
    BY <1>1, <2>3 DEF Closed, EndParam, parse_check_constant, buffer_can_read, Past, size, Slice
  <2>5. SimpleEntry(kind, at)' = SimpleEntry(kind, at)
    BY <1>1, <2>1 DEF SimpleEntry, SimpleKinds, AddressEntry, KeyEntry
  <2> QED BY <2>4, <2>5
<1>7. BehindParams(at)' = BehindParams(at)
  <2>1. /\ \A str : parse_check_constant(at, str)' = parse_check_constant(at, str)
        /\ \A n : parse_check_constant(parse_check_amount(at, n), OPCODE_PACK)' =
                      parse_check_constant(parse_check_amount(at, n), OPCODE_PACK)
    BY <1>1, ReadsAgain, ReadsOnAgain
  <2> DEFINE n == Len(Sig)
  <2>2. n' = n
    BY <1>1
  <2>3. parse_check_constant(parse_check_amount(at, n), OPCODE_PACK)' =
            parse_check_constant(parse_check_amount(at, n), OPCODE_PACK)
    <3>1. PICK x : x = n
      OBVIOUS
    <3> QED BY <2>1, <2>2, <3>1
  <2> QED BY <1>1, <2>1, <2>3 DEF BehindParams
<1> QED BY <1>3, <1>4, <1>5, <1>6, <1>7

\* Entries of later parameters come later.
LEMMA FirstGrows ==
    ASSUME KnownMethod # {}, num \in Nat, NEW n \in 0 .. Len(Sig), NEW k \in 0 .. n
    PROVE  First(k) <= First(n)
<1> DEFINE parts == Parts(TheContract, TheMethod, num)
<1>1. /\ parts \in Seq(Seq(PARAM_KINDS)) /\ Len(parts) = Len(Sig) /\ Len(Sig) \in Nat
  BY TheTable, PartsFacts DEF Sig
<1> HIDE DEF parts
<1>2. Len(Joins(parts)[k]) <= Len(Joins(parts)[n])
  <2>1. k \in 0 .. Len(parts) /\ n \in k .. Len(parts)
    BY <1>1
  <2> QED BY <1>1, <2>1, JoinsPrefix
<1> QED BY <1>2 DEF First, parts

LEMMA PieceStays ==
    ASSUME SameCall, KnownMethod # {}, num \in Nat, num' = num,
           NEW k \in 1 .. Len(Sig), NEW a, NEW b, ParamPiece(k, a, b),
           Sig[k] # "PK_AMOUNT_PAIRS",
           \A j \in 0 .. First(k) - 1 : params'[j] = params[j]
    PROVE  ParamPiece(k, a, b)'
<1>1. /\ buf' = buf /\ Sig' = Sig /\ TheContract' = TheContract /\ TheMethod' = TheMethod
  BY CallAgain
<1>2. First(k - 1)' = First(k - 1)
  BY <1>1 DEF First
<1>3. /\ Sig[k] \in ParameterTypes /\ First(k - 1) \in Nat
      /\ First(k) = First(k - 1) + Len(Entries(Sig[k], num))
  <2>1. Len(Sig) \in Nat /\ \A x \in 0 .. Len(Sig) : First(x) \in Nat
    BY TheTable, FirstFacts
  <2>2. k - 1 \in 0 .. Len(Sig)
    BY <2>1
  <2> QED BY <2>1, <2>2, TheTable, FirstFacts
<1> DEFINE f == First(k - 1)
<1>4. Found(b)' <=> Found(b)
  BY <1>1 DEF Found, size
<1>5. ASSUME Sig[k] \in SimpleKinds
      PROVE  params'[f] = SimpleEntry(Sig[k], a)' /\ b = Closed(SimpleEnd(Sig[k], a))'
  <2>1. params[f] = SimpleEntry(Sig[k], a) /\ b = Closed(SimpleEnd(Sig[k], a))
    BY <1>5 DEF ParamPiece
  <2>2. PICK kind \in SimpleKinds : kind = Sig[k]
    BY <1>5
  <2>3. /\ SimpleEntry(kind, a)' = SimpleEntry(kind, a)
        /\ Closed(SimpleEnd(kind, a))' = Closed(SimpleEnd(kind, a))
    BY ParamsAgain
  <2>4. Sig[k]' = kind
    BY <1>1, <2>2
  <2>5. SimpleEntry(Sig[k], a)' = SimpleEntry(kind, a)'
        /\ Closed(SimpleEnd(Sig[k], a))' = Closed(SimpleEnd(kind, a))'
    BY <2>2, <2>4
  <2>6. Len(Entries(Sig[k], num)) = 1
    <3>1. Sig[k] \in PARAM_KINDS
      BY <1>5 DEF SimpleKinds, PARAM_KINDS
    <3>2. Entries(Sig[k], num) = <<Sig[k]>>
      BY <1>3, <3>1, EntriesFacts, Zenon
    <3> QED BY <3>2, SMTT(30)
  <2> HIDE DEF f
  <2>7. f \in 0 .. First(k) - 1
    BY <1>3, <2>6 DEF f
  <2> QED BY <2>1, <2>2, <2>3, <2>5, <2>7
<1>6. ASSUME Sig[k] = "ONTID" PROVE b = Closed(parse_ont_id(a))'
  BY <1>6, ParamsAgain DEF ParamPiece
<1>7. ASSUME Sig[k] = "TRANSFER_STATE"
      PROVE  /\ \A j \in 1 .. 3 : params'[f + j - 1] = StateEntries(a)'[j]
             /\ b = Closed(StateEnd(a))'
  <2>1. /\ \A j \in 1 .. 3 : params[f + j - 1] = StateEntries(a)[j]
        /\ b = Closed(StateEnd(a))
    BY <1>7 DEF ParamPiece
  <2>2. StateEntries(a)' = StateEntries(a) /\ Closed(StateEnd(a))' = Closed(StateEnd(a))
    BY <1>1, ParamsAgain, ReadsOnAgain
  <2>3. Len(Entries(Sig[k], num)) = 3
    BY <1>7, <1>3, EntriesFacts, TripleFacts
  <2> HIDE DEF f
  <2>4. \A j \in 1 .. 3 : f + j - 1 \in 0 .. First(k) - 1
    BY <1>3, <2>3 DEF f
  <2> QED BY <2>1, <2>2, <2>4
<1> QED BY <1>1, <1>2, <1>4, <1>5, <1>6, <1>7 DEF ParamPiece

LEMMA PairStays ==
    ASSUME SameCall, num \in Nat, num # 0, num' = num,
           NEW q \in Nat, NEW a, NEW b, PairPiece(q, a, b),
           q <= num + 1 => params'[q] = params[q],
           q >= num + 3 => params'[q - 1] = params[q - 1]
    PROVE  PairPiece(q, a, b)'
<1>1. buf' = buf /\ (Found(b)' <=> Found(b))
  BY CallAgain, ReadsAgain
<1>2. /\ parse_amount(a)' = parse_amount(a) /\ AmountEntry(a)' = AmountEntry(a)
      /\ EndParam(parse_amount(a))' = EndParam(parse_amount(a))
      /\ EndParam(parse_pk(a))' = EndParam(parse_pk(a))
  BY <1>1, ReadsAgain, ReadsOnAgain
<1>3. PICK n \in Nat : n = num
  OBVIOUS
<1>4. /\ IsAmount(a, n)' <=> IsAmount(a, n)
      /\ EndParam(parse_check_amount(a, n))' = EndParam(parse_check_amount(a, n))
  BY <1>1, ReadsOnAgain
<1>5. n' = num'
  BY <1>3
<1>6. /\ IsAmount(a, num)' <=> IsAmount(a, num)
      /\ EndParam(parse_check_amount(a, num))' = EndParam(parse_check_amount(a, num))
  BY <1>3, <1>4, <1>5
<1>7. ASSUME q = 1
      PROVE  IsAmount(a, num)' /\ params'[1] = AmountEntry(a)' /\ b = EndParam(parse_amount(a))'
  BY <1>2, <1>6, <1>7 DEF PairPiece
<1>8. ASSUME q \in 2 .. num + 1
      PROVE  params'[q] = KeyEntry(a) /\ b = EndParam(parse_pk(a))'
  BY <1>2, <1>8 DEF PairPiece
<1>9. ASSUME q = num + 2 PROVE b = EndParam(parse_check_amount(a, num))'
  BY <1>6, <1>9 DEF PairPiece
<1>10. ASSUME q \in num + 3 .. 2 * num + 1
       PROVE  params'[q - 1] = AmountEntry(a)' /\ b = EndParam(parse_amount(a))'
  BY <1>2, <1>10 DEF PairPiece
<1>11. ASSUME q = 2 * num + 2
       PROVE  params'[q - 1] = AmountEntry(a)' /\ b = parse_amount(a)'
  <2>1. q >= num + 3
    BY <1>11
  <2> QED BY <1>2, <1>11, <2>1 DEF PairPiece
<1> QED BY <1>1, <1>7, <1>8, <1>9, <1>10, <1>11 DEF PairPiece, KeyEntry

\* A list of pairs grows by a piece, behind the entries that stay.
LEMMA PairsGrow ==
    ASSUME SameCall, num \in Nat, num # 0, num' = num,
           NEW m \in Nat, NEW n \in Nat, m < n \/ (m <= n /\ num + 2 <= m),
           \A j \in 0 .. n - 1 : params'[j] = params[j],
           NEW a, NEW b, NEW d \in Nat, PairsFound(m, a, b), PairPiece(m + 1, b, d)'
    PROVE  PairsFound(m + 1, a, d)'
<1>1. PICK at \in [0 .. m -> Nat] :
          /\ at[0] = a /\ at[m] = b
          /\ \A q \in 1 .. m : PairPiece(q, at[q - 1], at[q])
  BY DEF PairsFound
<1> DEFINE longer == [q \in 0 .. m + 1 |-> IF q = m + 1 THEN d ELSE at[q]]
<1>2. \A q \in 0 .. m : longer[q] = at[q]
  OBVIOUS
<1>3. longer[m + 1] = d /\ longer \in [0 .. m + 1 -> Nat]
  OBVIOUS
<1> HIDE DEF longer
<1>4. ASSUME NEW q \in 1 .. m PROVE PairPiece(q, longer[q - 1], longer[q])'
  <2> DEFINE x == at[q - 1]
             y == at[q]
  <2>1. q \in Nat /\ longer[q - 1] = x /\ longer[q] = y
    BY <1>2
  <2>2. PairPiece(q, x, y)
    BY <1>1
  <2> HIDE DEF x, y
  <2>3. (q <= num + 1 => q \in 0 .. n - 1) /\ (q >= num + 3 => q - 1 \in 0 .. n - 1)
    OBVIOUS
  <2>4. PICK u, v : u = x /\ v = y
    OBVIOUS
  <2>5. PairPiece(q, u, v)'
    BY <2>1, <2>2, <2>3, <2>4, PairStays
  <2> QED BY <2>1, <2>4, <2>5 DEF x, y
<1>5. ASSUME NEW q \in 1 .. m + 1 PROVE PairPiece(q, longer[q - 1], longer[q])'
  <2>1. CASE q \in 1 .. m
    BY <1>4, <2>1
  <2>2. CASE q = m + 1
    <3>1. longer[q - 1] = b /\ longer[q] = d
      BY <1>1, <1>2, <1>3, <2>2
    <3> QED BY <2>2, <3>1
  <2> QED BY <2>1, <2>2
<1>6. longer[0] = a
  BY <1>1, <1>2
<1> QED BY <1>3, <1>5, <1>6 DEF PairsFound

\* The first parameters have been read, up to the cursor.
ReadTo(n) ==
    \E at \in [0 .. n -> Nat] :
        /\ at[0] = Begin /\ at[0] <= size /\ at[n] = offset
        /\ \A k \in 1 .. n : ParamPiece(k, at[k - 1], at[k])

LEMMA ReadOn ==
    ASSUME SameCall, KnownMethod # {}, num \in Nat, num' = num,
           NEW n \in Nat, n <= Len(Sig), ReadTo(n),
           \A k \in 1 .. n : Sig[k] # "PK_AMOUNT_PAIRS",
           \A j \in 0 .. First(n) - 1 : params'[j] = params[j],
           NEW a, a = offset, NEW b \in Nat, b = offset', ParamPiece(n + 1, a, b)'
    PROVE  ReadTo(n + 1)'
<1>1. PICK at \in [0 .. n -> Nat] :
          /\ at[0] = Begin /\ at[0] <= size /\ at[n] = offset
          /\ \A k \in 1 .. n : ParamPiece(k, at[k - 1], at[k])
  BY DEF ReadTo
<1> DEFINE longer == [k \in 0 .. n + 1 |-> IF k = n + 1 THEN b ELSE at[k]]
<1>2. \A k \in 0 .. n : longer[k] = at[k]
  OBVIOUS
<1>3. longer[n + 1] = b /\ longer \in [0 .. n + 1 -> Nat]
  OBVIOUS
<1> HIDE DEF longer
<1>4. Begin' = Begin /\ size' = size
  BY CallAgain
<1>5. ASSUME NEW k \in 1 .. n
      PROVE  First(k) \in Nat /\ First(n) \in Nat /\ First(k) <= First(n)
  <2>1. Len(Sig) \in Nat /\ \A j \in 0 .. Len(Sig) : First(j) \in Nat
    BY TheTable, FirstFacts
  <2>2. k \in 0 .. Len(Sig) /\ n \in 0 .. Len(Sig)
    BY <2>1
  <2> QED BY <2>1, <2>2, FirstGrows
<1>6. ASSUME NEW k \in 1 .. n PROVE ParamPiece(k, longer[k - 1], longer[k])'
  <2> DEFINE x == at[k - 1]
             y == at[k]
  <2>1. k \in 1 .. Len(Sig) /\ longer[k - 1] = x /\ longer[k] = y
    <3>1. Len(Sig) \in Nat
      BY TheTable, FirstFacts
    <3> QED BY <1>2, <3>1
  <2>2. ParamPiece(k, x, y) /\ Sig[k] # "PK_AMOUNT_PAIRS"
    BY <1>1
  <2>3. \A j \in 0 .. First(k) - 1 : params'[j] = params[j]
    <3> SUFFICES ASSUME NEW j \in 0 .. First(k) - 1 PROVE params'[j] = params[j]
      OBVIOUS
    <3> QED BY <1>5
  <2> HIDE DEF x, y
  <2>4. PICK u, v : u = x /\ v = y
    OBVIOUS
  <2>5. ParamPiece(k, u, v)'
    BY <2>1, <2>2, <2>3, <2>4, PieceStays
  <2> QED BY <2>1, <2>4, <2>5 DEF x, y
<1>7. ASSUME NEW k \in 1 .. n + 1 PROVE ParamPiece(k, longer[k - 1], longer[k])'
  <2>1. CASE k \in 1 .. n
    BY <1>6, <2>1
  <2>2. CASE k = n + 1
    <3>1. longer[k - 1] = a /\ longer[k] = b
      BY <1>1, <1>2, <1>3, <2>2
    <3> QED BY <2>2, <3>1
  <2> QED BY <2>1, <2>2
<1>8. longer[0] = Begin' /\ longer[0] <= size' /\ longer[n + 1] = offset'
  BY <1>1, <1>2, <1>3, <1>4
<1> QED BY <1>3, <1>7, <1>8 DEF ReadTo

-----------------------------------------------------------------------------
(* A text that stands in the transaction is found.                         *)

\* The transaction has this text at a position.
Stands(at, text) ==
    at + Len(text) <= size /\ \A j \in 1 .. Len(text) : buf[at + j] = text[j]

LEMMA StandsTwo ==
    ASSUME Buffered, NEW at \in Nat, NEW s \in Seq(Nat), NEW t \in Seq(Nat), Stands(at, s \o t)
    PROVE  /\ Len(s) \in Nat /\ Len(t) \in Nat /\ at + Len(s) \in Nat
           /\ Stands(at, s) /\ Stands(at + Len(s), t)
<1>1. /\ Len(s) \in Nat /\ Len(t) \in Nat /\ Len(s \o t) = Len(s) + Len(t)
      /\ \A j \in 1 .. Len(s) : (s \o t)[j] = s[j]
      /\ \A j \in 1 .. Len(t) : (s \o t)[Len(s) + j] = t[j]
    BY JoinedTwo
<1>2. size \in Nat
    BY BytesRead
<1>3. Stands(at, s)
    BY <1>1, <1>2, SMTT(30) DEF Stands
<1>4. ASSUME NEW j \in 1 .. Len(t)
      PROVE  buf[at + Len(s) + j] = t[j]
    <2>1. Len(s) + j \in 1 .. Len(s \o t) /\ at + (Len(s) + j) = at + Len(s) + j
        BY <1>1
    <2>2. buf[at + (Len(s) + j)] = (s \o t)[Len(s) + j]
        BY <2>1 DEF Stands
    <2> QED
        BY <1>1, <2>1, <2>2
<1>5. at + Len(s) + Len(t) <= size
    BY <1>1, <1>2 DEF Stands
<1> QED
    BY <1>1, <1>3, <1>4, <1>5 DEF Stands

LEMMA StandsOne ==
    ASSUME Buffered, NEW at \in Nat, NEW x, Stands(at, <<x>>)
    PROVE  at < size /\ at + 1 <= size /\ Byte(at) = x /\ x \in Bytes
<1>1. Len(<<x>>) = 1 /\ <<x>>[1] = x
    OBVIOUS
<1>2. size \in Nat
    BY BytesRead
<1>3. at < size /\ at + 1 <= size /\ buf[at + 1] = x
    BY <1>1, <1>2 DEF Stands
<1>4. Byte(at) \in Bytes
    BY <1>3, BytesRead
<1> QED
    BY <1>3, <1>4 DEF Byte

LEMMA StandsSlice ==
    ASSUME Buffered, NEW at \in Nat, NEW text \in Seq(Nat), Stands(at, text)
    PROVE  /\ Len(text) \in Nat /\ at + Len(text) \in Nat /\ at + Len(text) <= size /\ at <= size
           /\ Slice(at, Len(text)) = text /\ text \in Seq(Bytes)
           /\ Span(at, at + Len(text)) = text
<1>1. Len(text) \in Nat /\ size \in Nat
    BY BytesRead
<1>2. at + Len(text) <= size /\ at + Len(text) - at = Len(text)
    BY <1>1 DEF Stands
<1>3. /\ Span(at, at + Len(text)) \in Seq(Bytes) /\ Len(Span(at, at + Len(text))) = Len(text)
      /\ \A j \in 1 .. Len(text) : Span(at, at + Len(text))[j] = buf[at + j]
    <2>1. \A b \in Nat : at <= b /\ b <= size =>
              /\ Span(at, b) \in Seq(Bytes) /\ Len(Span(at, b)) = b - at
              /\ \A j \in 1 .. b - at : Span(at, b)[j] = buf[at + j]
        BY SpanFacts
    <2>2. at + Len(text) \in Nat /\ at <= at + Len(text)
        BY <1>1
    <2> QED
        BY <1>2, <2>1, <2>2
<1>4. Span(at, at + Len(text)) \in Seq(Nat)
    BY <1>3, BytesAreNumbers
<1>5. Span(at, at + Len(text)) = text
    BY <1>3, <1>4, SameElements DEF Stands
<1> QED
    BY <1>1, <1>2, <1>3, <1>5 DEF Span

\* A constant is found.
LEMMA ConstantStands ==
    ASSUME Buffered, NEW at \in Nat, NEW str \in Seq(Nat), Stands(at, str)
    PROVE  /\ parse_check_constant(at, str) = at + Len(str)
           /\ Found(at + Len(str)) /\ at + Len(str) \in Nat
BY StandsSlice DEF parse_check_constant, buffer_can_read, Found

\* Bytes are found behind the one that counts them.
LEMMA SizedStands ==
    ASSUME Buffered, NEW at \in Nat, NEW v \in Seq(Nat), Stands(at, WithLength(v))
    PROVE  /\ at < size /\ Byte(at) = Len(v) /\ Len(v) \in Bytes
           /\ at + 1 \in Nat /\ Stands(at + 1, v) /\ Slice(at + 1, Len(v)) = v
           /\ at + 1 + Len(v) \in Nat /\ at + 1 + Len(v) <= size
           /\ at + Len(WithLength(v)) = at + 1 + Len(v)
           /\ \A sizes : Len(v) \in sizes => Sized(at, sizes) = at + 1 + Len(v)
<1>1. Len(v) \in Nat /\ <<Len(v)>> \in Seq(Nat) /\ Len(<<Len(v)>>) = 1 /\ size \in Nat
    BY BytesRead
<1>2. Stands(at, <<Len(v)>>) /\ Stands(at + 1, v)
    BY <1>1, StandsTwo DEF WithLength
<1>3. at < size /\ at + 1 <= size /\ Byte(at) = Len(v) /\ Len(v) \in Bytes
    BY <1>2, StandsOne
<1>4. at + 1 + Len(v) <= size /\ Slice(at + 1, Len(v)) = v /\ at + 1 + Len(v) \in Nat
    BY <1>2, StandsSlice
<1>5. ASSUME NEW sizes, Len(v) \in sizes
      PROVE  Sized(at, sizes) = at + 1 + Len(v)
    BY <1>3, <1>4, <1>5 DEF Sized, buffer_can_read, buffer_seek_cur
<1>6. at + Len(WithLength(v)) = at + 1 + Len(v)
    <2>1. Len(WithLength(v)) = 1 + Len(v)
        BY LengthFirst
    <2> QED
        BY <1>1, <2>1
<1> QED
    BY <1>1, <1>2, <1>3, <1>4, <1>5, <1>6

-----------------------------------------------------------------------------
(* The readers find what stands.                                           *)

LEMMA ConstantTexts ==
    /\ OPCODE_SYSCALL \in Seq(Nat) /\ OPCODE_APPCALL \in Seq(Nat) /\ OPCODE_PACK \in Seq(Nat)
    /\ OPCODE_END \in Seq(Nat) /\ OPCODE_ST_BEGIN \in Seq(Nat) /\ OPCODE_ST_END \in Seq(Nat)
    /\ OPCODE_PARAM_END \in Seq(Nat) /\ NATIVE_INVOKE \in Seq(Nat)
<1>1. NATIVE_INVOKE \in Seq(Nat)
  BY SizeAssumption, BytesAreNumbers
<1> QED
  BY <1>1 DEF OPCODE_SYSCALL, OPCODE_APPCALL, OPCODE_PACK, OPCODE_END, OPCODE_ST_BEGIN,
              OPCODE_ST_END, OPCODE_PARAM_END

LEMMA AddressStands ==
    ASSUME Buffered, NEW at \in Nat, NEW v \in Seq(Nat), Len(v) = ADDRESS_SCRIPT_HASH_LEN
    PROVE  /\ Stands(at, WithLength(v)) =>
                  /\ parse_address(at, TRUE) = at + Len(WithLength(v))
                  /\ Slice(at + 1, ADDRESS_SCRIPT_HASH_LEN) = v
           /\ Stands(at, v) =>
                  /\ parse_address(at, FALSE) = at + Len(v)
                  /\ Slice(at, ADDRESS_SCRIPT_HASH_LEN) = v
<1>1. ASSUME Stands(at, WithLength(v))
      PROVE  /\ parse_address(at, TRUE) = at + Len(WithLength(v))
             /\ Slice(at + 1, ADDRESS_SCRIPT_HASH_LEN) = v
  <2>1. /\ at + Len(WithLength(v)) = at + 1 + Len(v) /\ Slice(at + 1, Len(v)) = v
        /\ \A sizes : Len(v) \in sizes => Sized(at, sizes) = at + 1 + Len(v)
    BY <1>1, SizedStands
  <2>2. Sized(at, {ADDRESS_SCRIPT_HASH_LEN}) = at + 1 + Len(v)
    BY <2>1
  <2> QED BY <2>1, <2>2 DEF parse_address
<1>2. ASSUME Stands(at, v)
      PROVE  /\ parse_address(at, FALSE) = at + Len(v)
             /\ Slice(at, ADDRESS_SCRIPT_HASH_LEN) = v
  <2>1. at + Len(v) <= size /\ Slice(at, Len(v)) = v
    BY <1>2, StandsSlice
  <2> QED BY <2>1 DEF parse_address, buffer_seek_cur, buffer_can_read
<1> QED BY <1>1, <1>2

LEMMA KeyStands ==
    ASSUME Buffered, NEW at \in Nat, NEW v \in Seq(Nat), Len(v) = 2 * COMPRESSED_KEY_LEN,
           Stands(at, WithLength(v))
    PROVE  /\ parse_pk(at) = at + Len(WithLength(v))
           /\ Pointed(KeyEntry(at)) = v
<1>1. /\ at + Len(WithLength(v)) = at + 1 + Len(v) /\ Slice(at + 1, Len(v)) = v
      /\ \A sizes : Len(v) \in sizes => Sized(at, sizes) = at + 1 + Len(v)
  BY SizedStands
<1>2. Sized(at, {2 * COMPRESSED_KEY_LEN}) = at + 1 + Len(v)
  BY <1>1
<1> QED BY <1>1, <1>2 DEF parse_pk, Pointed, KeyEntry, Entry

LEMMA IdentityStands ==
    ASSUME Buffered, NEW at \in Nat, NEW v \in Seq(Nat), Len(v) \in 1 .. 255,
           Stands(at, WithLength(v))
    PROVE  parse_ont_id(at) = at + Len(WithLength(v))
<1>1. /\ at + Len(WithLength(v)) = at + 1 + Len(v)
      /\ \A sizes : Len(v) \in sizes => Sized(at, sizes) = at + 1 + Len(v)
  BY SizedStands
<1> QED BY <1>1 DEF parse_ont_id

LEMMA AmountStands ==
    ASSUME Buffered, NEW at \in Nat, NEW v, IsAmountText(v), Stands(at, v)
    PROVE  /\ parse_amount(at) = at + Len(v) /\ Found(parse_amount(at))
           /\ Slice(at, parse_amount(at) - at) = v /\ Pointed(AmountEntry(at)) = v
           /\ v \in Seq(Nat) /\ Len(v) \in Nat /\ Len(v) # 0
<1>1. v \in Seq(Bytes) /\ v # <<>> /\ AmountStarts(v[1]) /\ Len(v) = AmountLength(v[1])
  BY DEF IsAmountText
<1>2. v \in Seq(Nat)
  BY <1>1, BytesAreNumbers
<1>3. Len(v) \in Nat /\ Len(v) # 0 /\ at + Len(v) <= size /\ Slice(at, Len(v)) = v /\ size \in Nat
  BY <1>1, <1>2, StandsSlice, BytesRead
<1>4. buf[at + 1] = v[1]
  BY <1>3 DEF Stands
<1>5. parse_amount(at) = at + Len(v)
  BY <1>1, <1>3, <1>4 DEF parse_amount, buffer_can_read, buffer_seek_cur, Byte
<1>6. parse_amount(at) - at = Len(v)
  BY <1>3, <1>5
<1> QED
  BY <1>2, <1>3, <1>5, <1>6 DEF Found, Pointed, AmountEntry, Entry

LEMMA FormStands ==
    ASSUME Buffered, NEW at \in Nat, NEW n \in Nat, NEW v \in AmountForms(n), Stands(at, v)
    PROVE  /\ IsAmount(at, n) /\ PairsCount(at) = n
           /\ convert_param_to_uint64_le(Slice(at, parse_amount(at) - at))
           /\ parse_amount(at) = at + Len(v) /\ parse_check_amount(at, n) = at + Len(v)
           /\ Pointed(AmountEntry(at)) = v /\ v \in Seq(Nat) /\ Len(v) \in Nat
<1>1. IsAmountText(v) /\ convert_param_to_uint64_le(v) /\ AsUint64(v) = n
  BY FormReads
<1>2. /\ parse_amount(at) = at + Len(v) /\ Found(parse_amount(at))
      /\ Slice(at, parse_amount(at) - at) = v
      /\ Pointed(AmountEntry(at)) = v /\ v \in Seq(Nat) /\ Len(v) \in Nat
  BY <1>1, AmountStands
<1>3. IsAmount(at, n)
  BY <1>1, <1>2 DEF IsAmount
<1> QED BY <1>1, <1>2, <1>3 DEF parse_check_amount, PairsCount

LEMMA WideStands ==
    ASSUME Buffered, NEW at \in Nat, NEW v \in Seq(Nat), Len(v) = 2 * U64, Stands(at, v)
    PROVE  parse_uint128(at) = at + Len(v) /\ Slice(at, 2 * U64) = v
<1>1. at + Len(v) <= size /\ Slice(at, Len(v)) = v
  BY StandsSlice
<1> QED BY <1>1 DEF parse_uint128, buffer_seek_cur, buffer_can_read

LEMMA EndStands ==
    ASSUME Buffered, NEW at \in Nat, Stands(at, OPCODE_PARAM_END)
    PROVE  EndParam(at) = at + 3 /\ Found(at + 3)
BY ConstantStands, ConstantTexts, ConstantLengths DEF EndParam

\* A parameter of one entry.
LEMMA SimpleStands ==
    ASSUME Buffered, NEW at \in Nat, NEW kind \in SimpleKinds, NEW c, c.type = type,
           NEW values, IsValue(kind, values[1]), Stands(at, Part(c, kind, values))
    PROVE  /\ Part(c, kind, values) \in Seq(Nat)
           /\ SimpleEnd(kind, at) = at + Len(Part(c, kind, values))
           /\ Pointed(SimpleEntry(kind, at)) = values[1]
<1> DEFINE v == values[1]
<1>1. v \in Seq(Nat) /\ v \in Seq(Bytes)
  BY BytesAreNumbers DEF IsValue
<1>2. WithLength(v) \in Seq(Nat)
  BY <1>1, LengthFirst
<1>3. CASE kind = "ADDR" /\ Wasm
  <2>1. Part(c, kind, values) = v /\ Len(v) = ADDRESS_SCRIPT_HASH_LEN
    BY <1>3, PartIs DEF IsValue, Wasm
  <2>2. parse_address(at, FALSE) = at + Len(v) /\ Slice(at, ADDRESS_SCRIPT_HASH_LEN) = v
    BY <1>1, <2>1, AddressStands
  <2> QED
    BY <1>1, <1>3, <2>1, <2>2 DEF SimpleEnd, SimpleEntry, AddressEntry, Entry, Pointed
<1>4. CASE kind = "ADDR" /\ ~Wasm
  <2>1. Part(c, kind, values) = WithLength(v) /\ Len(v) = ADDRESS_SCRIPT_HASH_LEN
    BY <1>4, PartIs DEF IsValue, Wasm
  <2>2. /\ parse_address(at, TRUE) = at + Len(WithLength(v))
        /\ Slice(at + 1, ADDRESS_SCRIPT_HASH_LEN) = v
    BY <1>1, <2>1, AddressStands
  <2> QED
    BY <1>2, <1>4, <2>1, <2>2 DEF SimpleEnd, SimpleEntry, AddressEntry, Entry, Pointed
<1>5. CASE kind = "PUBKEY"
  <2>1. Part(c, kind, values) = WithLength(v) /\ Len(v) = 2 * COMPRESSED_KEY_LEN
    BY <1>5, PartIs DEF IsValue
  <2>2. parse_pk(at) = at + Len(WithLength(v)) /\ Pointed(KeyEntry(at)) = v
    BY <1>1, <2>1, KeyStands
  <2> QED BY <1>2, <1>5, <2>1, <2>2 DEF SimpleEnd, SimpleEntry
<1>6. CASE kind = "AMOUNT"
  <2>1. Part(c, kind, values) = v /\ IsAmountText(v)
    BY <1>6, PartIs DEF IsValue, IsAmountText
  <2>2. parse_amount(at) = at + Len(v) /\ Pointed(AmountEntry(at)) = v
    BY <2>1, AmountStands
  <2> QED BY <1>1, <1>6, <2>1, <2>2 DEF SimpleEnd, SimpleEntry
<1>7. CASE kind = "UINT128"
  <2>1. Part(c, kind, values) = v /\ Len(v) = 2 * U64
    BY <1>7, PartIs DEF IsValue
  <2>2. parse_uint128(at) = at + Len(v) /\ Slice(at, 2 * U64) = v
    BY <1>1, <2>1, WideStands
  <2> QED BY <1>1, <1>7, <2>1, <2>2 DEF SimpleEnd, SimpleEntry, Entry, Pointed
<1> QED BY <1>3, <1>4, <1>5, <1>6, <1>7 DEF SimpleKinds
-----------------------------------------------------------------------------
(* Texts one behind the other.                                             *)

\* The position behind the first k parts.
LEMMA JoinsStand ==
    ASSUME Buffered, NEW at \in Nat, NEW parts \in Seq(Seq(Nat)), Stands(at, Concat(parts))
    PROVE  /\ Len(Joins(parts)[0]) = 0
           /\ \A k \in 0 .. Len(parts) : Len(Joins(parts)[k]) \in Nat
           /\ \A k \in 1 .. Len(parts) :
                  /\ Stands(at + Len(Joins(parts)[k - 1]), parts[k])
                  /\ parts[k] \in Seq(Nat) /\ Len(parts[k]) \in Nat
                  /\ Len(Joins(parts)[k]) = Len(Joins(parts)[k - 1]) + Len(parts[k])
           /\ \A k \in 0 .. Len(parts) : at + Len(Joins(parts)[k]) <= size
<1> DEFINE upTo == Joins(parts)
           whole == Concat(parts)
           n == Len(parts)
<1>1. n \in Nat /\ size \in Nat
  BY BytesRead
<1>2. (\A k \in 0 .. n : upTo[k] \in Seq(Nat)) /\ upTo[0] = <<>>
  BY JoinsFacts
<1>3. \A k \in 1 .. n :
          /\ whole \in Seq(Nat) /\ upTo[k - 1] \in Seq(Nat) /\ parts[k] \in Seq(Nat)
          /\ Len(upTo[k]) = Len(upTo[k - 1]) + Len(parts[k])
          /\ Len(upTo[k]) <= Len(whole)
          /\ \A j \in 1 .. Len(parts[k]) : whole[Len(upTo[k - 1]) + j] = parts[k][j]
  BY PartInWhole, ZenonT(30)
<1>4. whole = upTo[n]
  BY DEF Concat
<1>5. at + Len(whole) <= size /\ \A j \in 1 .. Len(whole) : buf[at + j] = whole[j]
  BY DEF Stands
<1> HIDE DEF upTo, whole, n
<1>6. \A k \in 0 .. n : Len(upTo[k]) \in Nat
  BY <1>2
<1>7. Len(whole) \in Nat /\ Len(upTo[0]) = 0
  BY <1>1, <1>2, <1>4
<1>8. ASSUME NEW k \in 1 .. n
      PROVE  Stands(at + Len(upTo[k - 1]), parts[k]) /\ at + Len(upTo[k]) <= size
  <2> DEFINE m == Len(upTo[k - 1])
             l == Len(parts[k])
  <2>0. upTo[k - 1] \in Seq(Nat) /\ parts[k] \in Seq(Nat)
    BY <1>3
  <2>1. m \in Nat /\ l \in Nat /\ Len(upTo[k]) = m + l /\ m + l <= Len(whole)
    <3>1. m \in Nat /\ l \in Nat
      BY <2>0
    <3> QED BY <1>3, <3>1
  <2>2. \A j \in 1 .. l : whole[m + j] = parts[k][j]
    BY <1>3
  <2> HIDE DEF m, l
  <2>3. \A j \in 1 .. l : m + j \in 1 .. Len(whole) /\ at + (m + j) = at + m + j
    BY <1>7, <2>1
  <2>4. \A j \in 1 .. l : buf[at + m + j] = parts[k][j]
    BY <1>5, <2>2, <2>3
  <2>5. at + m + l <= size /\ at + (m + l) <= size
    BY <1>1, <1>5, <1>7, <2>1
  <2>6. Stands(at + m, parts[k])
    BY <2>4, <2>5 DEF Stands, l
  <2> QED BY <2>1, <2>5, <2>6 DEF m
<1>9. at + Len(upTo[0]) <= size
  BY <1>1, <1>5, <1>7
<1>10. \A k \in 0 .. n : k = 0 \/ k \in 1 .. n
  BY <1>1
<1>11. \A k \in 0 .. n : at + Len(upTo[k]) <= size
  BY <1>8, <1>9, <1>10
<1>12. ASSUME NEW k \in 1 .. n PROVE parts[k] \in Seq(Nat) /\ Len(parts[k]) \in Nat
  <2>1. parts[k] \in Seq(Nat)
    BY <1>3
  <2> QED BY <2>1
<1> QED BY <1>3, <1>6, <1>7, <1>8, <1>11, <1>12 DEF upTo, n

-----------------------------------------------------------------------------

\* Parts with their ends; ClosedAll joins them.
Ends(parts) == [k \in 1 .. Len(parts) |-> parts[k] \o OPCODE_PARAM_END]

LEMMA EndsFacts ==
    ASSUME NEW parts \in Seq(Seq(Nat))
    PROVE  /\ Ends(parts) \in Seq(Seq(Nat)) /\ Len(Ends(parts)) = Len(parts) /\ Len(parts) \in Nat
           /\ \A k \in 1 .. Len(parts) :
                  /\ Ends(parts)[k] = parts[k] \o OPCODE_PARAM_END
                  /\ Len(Ends(parts)[k]) = Len(parts[k]) + 3
           /\ ClosedAll(parts) = Concat(Ends(parts))
<1>1. OPCODE_PARAM_END \in Seq(Nat) /\ Len(OPCODE_PARAM_END) = 3
  BY ConstantTexts, ConstantLengths
<1>2. Len(parts) \in Nat /\ \A k \in 1 .. Len(parts) : parts[k] \in Seq(Nat)
  OBVIOUS
<1>3. ASSUME NEW k \in 1 .. Len(parts)
      PROVE  /\ parts[k] \o OPCODE_PARAM_END \in Seq(Nat)
             /\ Len(parts[k] \o OPCODE_PARAM_END) = Len(parts[k]) + 3
  <2> DEFINE part == parts[k]
  <2>1. part \in Seq(Nat)
    BY <1>2
  <2> HIDE DEF part
  <2>2. /\ part \o OPCODE_PARAM_END \in Seq(Nat)
        /\ Len(part \o OPCODE_PARAM_END) = Len(part) + Len(OPCODE_PARAM_END)
    BY <1>1, <2>1, JoinedTwo
  <2> QED BY <1>1, <2>2 DEF part
<1>4. [k \in 1 .. Len(parts) |-> parts[k] \o OPCODE_PARAM_END] \in Seq(Seq(Nat))
  BY <1>2, <1>3
<1>5. Ends(parts) \in Seq(Seq(Nat)) /\ Len(Ends(parts)) = Len(parts)
  BY <1>2, <1>4 DEF Ends
<1>6. \A k \in 1 .. Len(parts) : Ends(parts)[k] = parts[k] \o OPCODE_PARAM_END
  BY DEF Ends
<1>7. ClosedAll(parts) = Concat(Ends(parts))
  BY DEF ClosedAll, Ends
<1> QED BY <1>2, <1>3, <1>5, <1>6, <1>7

\* Each part is found and its end behind it.
LEMMA ClosedStand ==
    ASSUME Buffered, NEW at \in Nat, NEW parts \in Seq(Seq(Nat)), Stands(at, ClosedAll(parts))
    PROVE  LET upTo == Joins(Ends(parts))
           IN  /\ Len(upTo[0]) = 0
               /\ \A k \in 0 .. Len(parts) : Len(upTo[k]) \in Nat /\ at + Len(upTo[k]) <= size
               /\ \A k \in 1 .. Len(parts) :
                      /\ Stands(at + Len(upTo[k - 1]), parts[k])
                      /\ Len(parts[k]) \in Nat
                      /\ EndParam(at + Len(upTo[k - 1]) + Len(parts[k])) = at + Len(upTo[k])
                      /\ Len(upTo[k]) = Len(upTo[k - 1]) + Len(parts[k]) + 3
<1> DEFINE upTo == Joins(Ends(parts))
           n == Len(parts)
<1>1. /\ Ends(parts) \in Seq(Seq(Nat)) /\ Len(Ends(parts)) = n /\ n \in Nat
      /\ \A k \in 1 .. n : /\ Ends(parts)[k] = parts[k] \o OPCODE_PARAM_END
                           /\ Len(Ends(parts)[k]) = Len(parts[k]) + 3
      /\ Stands(at, Concat(Ends(parts)))
  BY EndsFacts
<1>2. /\ Len(upTo[0]) = 0
      /\ \A k \in 0 .. n : Len(upTo[k]) \in Nat
      /\ \A k \in 1 .. n :
             /\ Stands(at + Len(upTo[k - 1]), Ends(parts)[k])
             /\ Len(upTo[k]) = Len(upTo[k - 1]) + Len(Ends(parts)[k])
      /\ \A k \in 0 .. n : at + Len(upTo[k]) <= size
  BY <1>1, JoinsStand
<1> HIDE DEF upTo
<1>3. ASSUME NEW k \in 1 .. n
      PROVE  /\ Stands(at + Len(upTo[k - 1]), parts[k])
             /\ Len(parts[k]) \in Nat
             /\ EndParam(at + Len(upTo[k - 1]) + Len(parts[k])) = at + Len(upTo[k])
             /\ Len(upTo[k]) = Len(upTo[k - 1]) + Len(parts[k]) + 3
  <2> DEFINE m == Len(upTo[k - 1])
             l == Len(parts[k])
  <2>1. k - 1 \in 0 .. n /\ parts[k] \in Seq(Nat)
    BY <1>1
  <2>2. m \in Nat /\ l \in Nat /\ at + m \in Nat
    BY <1>2, <2>1
  <2>3. Stands(at + m, parts[k] \o OPCODE_PARAM_END)
    BY <1>1, <1>2
  <2>4. Len(upTo[k]) = m + (l + 3)
    BY <1>1, <1>2
  <2> HIDE DEF m
  <2>5. Stands(at + m, parts[k]) /\ Stands(at + m + l, OPCODE_PARAM_END)
    BY <2>1, <2>2, <2>3, ConstantTexts, StandsTwo
  <2> HIDE DEF l
  <2>6. at + m + l \in Nat
    BY <2>2
  <2>7. EndParam(at + m + l) = at + m + l + 3
    BY <2>5, <2>6, EndStands
  <2>8. at + m + l + 3 = at + (m + (l + 3)) /\ m + (l + 3) = m + l + 3
    BY <2>2
  <2> QED BY <2>2, <2>4, <2>5, <2>7, <2>8 DEF m, l
<1> QED BY <1>2, <1>3 DEF upTo

\* The three values of a transfer.
IsState(values) ==
    IsValue("ADDR", values[1]) /\ IsValue("ADDR", values[2]) /\ IsValue("AMOUNT", values[3])

StateParts(values) == <<WithLength(values[1]), WithLength(values[2]), values[3]>>

LEMMA StateText ==
    ASSUME NEW c, NEW values, IsState(values)
    PROVE  /\ values[1] \in Seq(Nat) /\ values[2] \in Seq(Nat) /\ values[3] \in Seq(Nat)
           /\ WithLength(values[1]) \in Seq(Nat) /\ WithLength(values[2]) \in Seq(Nat)
           /\ IsAmountText(values[3])
           /\ Len(values[1]) = ADDRESS_SCRIPT_HASH_LEN /\ Len(values[2]) = ADDRESS_SCRIPT_HASH_LEN
           /\ StateParts(values) \in Seq(Seq(Nat)) /\ Len(StateParts(values)) = 3
           /\ ClosedAll(StateParts(values)) \in Seq(Nat)
           /\ Part(c, "TRANSFER_STATE", values) =
                  OPCODE_ST_BEGIN \o ClosedAll(StateParts(values)) \o OPCODE_ST_END
           /\ Part(c, "TRANSFER_STATE", values) \in Seq(Nat)
<1>1. values[1] \in Seq(Nat) /\ values[2] \in Seq(Nat) /\ values[3] \in Seq(Nat)
  BY BytesAreNumbers DEF IsState, IsValue
<1>2. WithLength(values[1]) \in Seq(Nat) /\ WithLength(values[2]) \in Seq(Nat)
  BY <1>1, LengthFirst
<1>3. /\ IsAmountText(values[3])
      /\ Len(values[1]) = ADDRESS_SCRIPT_HASH_LEN /\ Len(values[2]) = ADDRESS_SCRIPT_HASH_LEN
  BY DEF IsState, IsValue, IsAmountText
<1>4. StateParts(values) \in Seq(Seq(Nat)) /\ Len(StateParts(values)) = 3
  BY <1>1, <1>2, ThreeTexts DEF StateParts
<1>5. ClosedAll(StateParts(values)) \in Seq(Nat)
  <2>1. Ends(StateParts(values)) \in Seq(Seq(Nat)) /\ Len(Ends(StateParts(values))) = 3
        /\ ClosedAll(StateParts(values)) = Concat(Ends(StateParts(values)))
    BY <1>4, EndsFacts
  <2> QED BY <2>1, ConcatText
<1>6. Part(c, "TRANSFER_STATE", values) =
          OPCODE_ST_BEGIN \o ClosedAll(StateParts(values)) \o OPCODE_ST_END
  BY PartIs DEF StateParts
<1>7. OPCODE_ST_BEGIN \o ClosedAll(StateParts(values)) \o OPCODE_ST_END \in Seq(Nat)
  BY <1>5, ConstantTexts, JoinedTwo
<1> QED BY <1>1, <1>2, <1>3, <1>4, <1>5, <1>6, <1>7

-----------------------------------------------------------------------------

LEMMA StateStands ==
    ASSUME Buffered, NEW at \in Nat, NEW c, NEW values, IsState(values),
           Stands(at, Part(c, "TRANSFER_STATE", values))
    PROVE  /\ StateEnd(at) = at + Len(Part(c, "TRANSFER_STATE", values))
           /\ \A j \in 1 .. 3 : Pointed(StateEntries(at)[j]) = values[j]
           /\ Byte(at) = OPCODE_ST_BEGIN[1]
<1> DEFINE parts == StateParts(values)
           inner == ClosedAll(parts)
           upTo == Joins(Ends(parts))
           p == at + 3
           from == values[1]
           to == values[2]
<1>1. /\ from \in Seq(Nat) /\ to \in Seq(Nat)
      /\ IsAmountText(values[3])
      /\ Len(from) = ADDRESS_SCRIPT_HASH_LEN /\ Len(to) = ADDRESS_SCRIPT_HASH_LEN
      /\ parts \in Seq(Seq(Nat)) /\ Len(parts) = 3 /\ inner \in Seq(Nat)
      /\ Part(c, "TRANSFER_STATE", values) = OPCODE_ST_BEGIN \o inner \o OPCODE_ST_END
  BY StateText
<1>2. parts[1] = WithLength(from) /\ parts[2] = WithLength(to) /\ parts[3] = values[3]
  BY DEF StateParts
<1>3. OPCODE_ST_BEGIN \in Seq(Nat) /\ OPCODE_ST_END \in Seq(Nat) /\ Len(OPCODE_ST_BEGIN) = 3 /\ Len(OPCODE_ST_END) = 1
  BY ConstantTexts, ConstantLengths
<1> HIDE DEF parts, inner, from, to
<1>4. OPCODE_ST_BEGIN \o inner \in Seq(Nat) /\ Len(OPCODE_ST_BEGIN \o inner) = 3 + Len(inner)
  <2>1. /\ OPCODE_ST_BEGIN \o inner \in Seq(Nat)
        /\ Len(OPCODE_ST_BEGIN \o inner) = Len(OPCODE_ST_BEGIN) + Len(inner)
    BY <1>1, <1>3, JoinedTwo, Zenon
  <2> QED BY <1>3, <2>1, Zenon
<1>5. /\ Stands(at, OPCODE_ST_BEGIN \o inner)
      /\ Stands(at + Len(OPCODE_ST_BEGIN \o inner), OPCODE_ST_END)
  BY <1>1, <1>3, <1>4, StandsTwo
<1>6. Stands(at, OPCODE_ST_BEGIN) /\ Stands(p, inner) /\ p \in Nat
  BY <1>1, <1>3, <1>5, StandsTwo
<1>7. StateFrom(at) = p
  BY <1>3, <1>6, ConstantStands DEF StateFrom
<1>8. /\ Len(upTo[0]) = 0
      /\ \A k \in 0 .. 3 : Len(upTo[k]) \in Nat /\ p + Len(upTo[k]) <= size
      /\ \A k \in 1 .. 3 :
             /\ Stands(p + Len(upTo[k - 1]), parts[k])
             /\ Len(parts[k]) \in Nat
             /\ EndParam(p + Len(upTo[k - 1]) + Len(parts[k])) = p + Len(upTo[k])
             /\ Len(upTo[k]) = Len(upTo[k - 1]) + Len(parts[k]) + 3
  BY <1>1, <1>6, ClosedStand DEF inner
<1>9. inner = upTo[3]
  <2>1. Len(Ends(parts)) = 3 /\ inner = Concat(Ends(parts))
    BY <1>1, EndsFacts DEF inner
  <2> QED BY <2>1 DEF Concat
<1> DEFINE a == Len(upTo[1])
           b == Len(upTo[2])
           e == Len(upTo[3])
<1> HIDE DEF upTo, p
<1>10. /\ Stands(p, WithLength(from)) /\ EndParam(p + Len(WithLength(from))) = p + a
       /\ p + 0 = p
  <2>1. 1 \in 1 .. 3 /\ 1 - 1 = 0 /\ p + 0 = p
    BY <1>6
  <2> QED BY <1>2, <1>8, <2>1
<1>11. Stands(p + a, WithLength(to)) /\ EndParam(p + a + Len(WithLength(to))) = p + b
  <2>1. 2 \in 1 .. 3 /\ 2 - 1 = 1
    OBVIOUS
  <2> QED BY <1>2, <1>8, <2>1
<1>12. Stands(p + b, values[3]) /\ EndParam(p + b + Len(values[3])) = p + e
  <2>1. 3 \in 1 .. 3 /\ 3 - 1 = 2
    OBVIOUS
  <2> QED BY <1>2, <1>8, <2>1
<1>13. p + a \in Nat /\ p + b \in Nat /\ a \in Nat /\ b \in Nat /\ e \in Nat
  <2>1. a \in Nat /\ b \in Nat /\ e \in Nat
    <3>1. 1 \in 0 .. 3 /\ 2 \in 0 .. 3 /\ 3 \in 0 .. 3
      OBVIOUS
    <3> QED BY <1>8, <3>1, Zenon
  <2> HIDE DEF a, b, e
  <2> QED BY <1>6, <2>1
<1>m. Len(inner) = e
  BY <1>9, Zenon
<1> HIDE DEF a, b, e
<1>14. /\ parse_address(p, TRUE) = p + Len(WithLength(from))
       /\ Slice(p + 1, ADDRESS_SCRIPT_HASH_LEN) = from
  BY <1>1, <1>6, <1>10, AddressStands
<1>15. StateTo(at) = p + a
  BY <1>7, <1>10, <1>14 DEF StateTo
<1>16. /\ parse_address(p + a, TRUE) = p + a + Len(WithLength(to))
       /\ Slice(p + a + 1, ADDRESS_SCRIPT_HASH_LEN) = to
  BY <1>1, <1>11, <1>13, AddressStands
<1>17. StateAmount(at) = p + b
  BY <1>11, <1>15, <1>16 DEF StateAmount
<1>18. parse_amount(p + b) = p + b + Len(values[3]) /\ Pointed(AmountEntry(p + b)) = values[3]
  BY <1>1, <1>12, <1>13, AmountStands
<1>19. EndParam(parse_amount(StateAmount(at))) = p + e
  BY <1>12, <1>17, <1>18
<1>20. at + Len(OPCODE_ST_BEGIN \o inner) = p + e
  <2>1. p = at + 3
    BY DEF p
  <2>2. Len(OPCODE_ST_BEGIN \o inner) = 3 + e
    BY <1>4, <1>m, Zenon
  <2> QED BY <1>13, <2>1, <2>2
<1>21. StateEnd(at) = p + e + 1
  <2>1. parse_check_constant(p + e, OPCODE_ST_END) = p + e + 1
    <3>1. Stands(p + e, OPCODE_ST_END)
      BY <1>5, <1>20, Zenon
    <3>2. p + e \in Nat
      BY <1>6, <1>13
    <3>3. parse_check_constant(p + e, OPCODE_ST_END) = p + e + Len(OPCODE_ST_END)
      BY <1>3, <3>1, <3>2, ConstantStands
    <3> QED BY <1>3, <3>3, Zenon
  <2> QED BY <1>19, <2>1 DEF StateEnd
<1>22. at + Len(Part(c, "TRANSFER_STATE", values)) = p + e + 1
  <2>1. Len(OPCODE_ST_BEGIN \o inner \o OPCODE_ST_END) = 3 + Len(inner) + 1
    <3>1. Len(OPCODE_ST_BEGIN \o inner \o OPCODE_ST_END)
              = Len(OPCODE_ST_BEGIN \o inner) + Len(OPCODE_ST_END)
      BY <1>3, <1>4, JoinedTwo, ZenonT(30)
    <3> QED BY <1>3, <1>4, <3>1, Zenon
  <2>2. Len(Part(c, "TRANSFER_STATE", values)) = 3 + e + 1
    BY <1>1, <1>m, <2>1, Zenon
  <2>3. p = at + 3
    BY DEF p
  <2> QED BY <1>13, <2>2, <2>3
<1>23. /\ StateEntries(at)[1] = AddressEntry(p + 1)
       /\ StateEntries(at)[2] = AddressEntry(p + a + 1)
       /\ StateEntries(at)[3] = AmountEntry(p + b)
  BY <1>7, <1>15, <1>17 DEF StateEntries
<1>24. \A j \in 1 .. 3 : Pointed(StateEntries(at)[j]) = values[j]
  <2>1. Pointed(AddressEntry(p + 1)) = from /\ Pointed(AddressEntry(p + a + 1)) = to
    BY <1>14, <1>16 DEF Pointed, AddressEntry, Entry
  <2> QED BY <1>18, <1>23, <2>1 DEF from, to
<1>25. Byte(at) = OPCODE_ST_BEGIN[1]
  <2>1. buf[at + 1] = OPCODE_ST_BEGIN[1]
    BY <1>3, <1>6 DEF Stands
  <2> QED BY <2>1 DEF Byte
<1> QED BY <1>21, <1>22, <1>24, <1>25

-----------------------------------------------------------------------------
(* The values of a call, parameter by parameter.                           *)

\* The index of the first entry behind those of the first k parameters.
PiecesOf(c) == [k \in 1 .. Len(c.signature) |-> Entries(c.signature[k], c.n)]

FirstOf(c, k) == Len(Joins(PiecesOf(c))[k])

LEMMA MadeSizes ==
    ASSUME NEW contract \in Contracts, NEW method \in Methods(contract), NEW c,
           MadeFor(c, contract, method)
    PROVE  /\ c.type \in ContractTypes /\ c.n \in Nat
           /\ c.signature = Signature(contract, method) /\ Shaped(c.signature)
           /\ c.signature \in Seq(ParameterTypes) /\ Len(c.signature) \in Nat
           /\ c.values \in Seq(Seq(Bytes)) /\ Len(c.values) \in Nat
           /\ Len(c.values) <= PARAMETERS_MAX_NUM
           /\ Len(c.values) = Len(AllEntries(contract, method, c.n))
           /\ FirstOf(c, 0) = 0 /\ FirstOf(c, Len(c.signature)) = Len(c.values)
           /\ \A k \in 0 .. Len(c.signature) : FirstOf(c, k) \in Nat /\ FirstOf(c, k) <= Len(c.values)
           /\ \A k \in 1 .. Len(c.signature) :
                  /\ c.signature[k] \in ParameterTypes
                  /\ Len(Entries(c.signature[k], c.n)) \in Nat
                  /\ FirstOf(c, k) = FirstOf(c, k - 1) + Len(Entries(c.signature[k], c.n))
<1> DEFINE L == Len(c.signature)
           pieces == PiecesOf(c)
           kinds == AllEntries(contract, method, c.n)
<1>1. /\ c.type \in ContractTypes /\ c.n \in Nat
      /\ c.signature = Signature(contract, method)
      /\ c.values \in Seq(Seq(Bytes)) /\ Len(c.values) = Len(kinds)
      /\ Len(kinds) <= PARAMETERS_MAX_NUM
  BY DEF MadeFor
<1>2. pieces = Parts(contract, method, c.n)
  BY <1>1 DEF PiecesOf, Parts
<1>3. /\ L \in Nat /\ pieces \in Seq(Seq(PARAM_KINDS)) /\ Len(pieces) = L
      /\ \A k \in 1 .. L : c.signature[k] \in ParameterTypes
                           /\ pieces[k] = Entries(c.signature[k], c.n)
      /\ kinds = Joins(pieces)[L]
  BY <1>1, <1>2, PartsFacts
<1>4. Shaped(c.signature) /\ c.signature \in Seq(ParameterTypes)
  BY <1>1, SignatureShape, SignatureTable
<1>5. Len(c.values) \in Nat
  BY <1>1
<1> HIDE DEF L, pieces, kinds
<1>6. /\ \A k \in 0 .. L : Joins(pieces)[k] \in Seq(PARAM_KINDS)
      /\ Joins(pieces)[0] = <<>>
  BY <1>3, JoinsFacts
<1>7. \A k \in 0 .. L : FirstOf(c, k) \in Nat
  BY <1>6 DEF FirstOf, pieces
<1>8. FirstOf(c, 0) = 0
  BY <1>6 DEF FirstOf, pieces
<1>9. FirstOf(c, L) = Len(c.values)
  BY <1>1, <1>3 DEF FirstOf, pieces
<1>10. ASSUME NEW k \in 1 .. L
       PROVE  /\ Len(Entries(c.signature[k], c.n)) \in Nat
              /\ FirstOf(c, k) = FirstOf(c, k - 1) + Len(Entries(c.signature[k], c.n))
  <2>1. /\ pieces[k] \in Seq(PARAM_KINDS) /\ pieces[k] = Entries(c.signature[k], c.n)
        /\ Len(Joins(pieces)[k]) = Len(Joins(pieces)[k - 1]) + Len(pieces[k])
    BY <1>3, PartInWhole
  <2>2. Len(pieces[k]) \in Nat
    BY <2>1
  <2> QED BY <2>1, <2>2 DEF FirstOf, pieces
<1>11. ASSUME NEW k \in 0 .. L PROVE FirstOf(c, k) <= Len(c.values)
  <2>1. Len(Joins(pieces)[k]) <= Len(Joins(pieces)[L])
    <3>1. L \in k .. Len(pieces) /\ k \in 0 .. Len(pieces)
      BY <1>3
    <3> QED BY <1>3, <3>1, JoinsPrefix
  <2>2. FirstOf(c, k) <= FirstOf(c, L)
    BY <2>1 DEF FirstOf, pieces
  <2> QED BY <1>9, <2>2
<1> QED BY <1>1, <1>3, <1>4, <1>5, <1>7, <1>8, <1>9, <1>10, <1>11 DEF L, kinds

\* The values of the k-th parameter, each of the kind that the entry has.
\* The values of a parameter are the call's, from the first that belongs to it,
\* and they are of the kinds its entries have.
OwnValues(c, k) ==
    \A j \in 1 .. Len(Entries(c.signature[k], c.n)) :
        ValuesOf(c, k)[j] = c.values[FirstOf(c, k - 1) + j]

ValuesFit(c, k) ==
    LET n == Len(Entries(c.signature[k], c.n))
    IN  /\ ValuesOf(c, k) \in Seq(Seq(Bytes)) /\ Len(ValuesOf(c, k)) = n
        /\ OwnValues(c, k)
        /\ \A j \in 1 .. n :
               /\ FirstOf(c, k - 1) + j \in 1 .. Len(c.values)
               /\ IsValue(Entries(c.signature[k], c.n)[j], ValuesOf(c, k)[j])

LEMMA MadeValues ==
    ASSUME NEW contract \in Contracts, NEW method \in Methods(contract), NEW c,
           MadeFor(c, contract, method), NEW k \in 1 .. Len(c.signature)
    PROVE  ValuesFit(c, k)
<1> DEFINE L == Len(c.signature)
           part == Entries(c.signature[k], c.n)
           n == Len(part)
           m == FirstOf(c, k - 1)
           pieces == PiecesOf(c)
           lengths == [j \in 1 .. L |-> Len(Entries(c.signature[j], c.n))]
           kinds == AllEntries(contract, method, c.n)
<1>1. /\ L \in Nat /\ n \in Nat /\ m \in Nat /\ FirstOf(c, k) = m + n /\ m + n <= Len(c.values)
      /\ c.values \in Seq(Seq(Bytes)) /\ Len(c.values) \in Nat /\ Len(c.values) = Len(kinds)
      /\ c.n \in Nat /\ c.signature = Signature(contract, method)
      /\ \A j \in 1 .. L : Len(Entries(c.signature[j], c.n)) \in Nat
  <2>1. k \in 0 .. L /\ k - 1 \in 0 .. L
    OBVIOUS
  <2> QED BY <2>1, MadeSizes
<1>2. pieces = Parts(contract, method, c.n)
  BY <1>1 DEF PiecesOf, Parts
<1>3. /\ pieces \in Seq(Seq(PARAM_KINDS)) /\ Len(pieces) = L
      /\ \A j \in 1 .. L : pieces[j] = Entries(c.signature[j], c.n)
      /\ kinds = Joins(pieces)[L] /\ kinds = Concat(pieces)
  <2>1. /\ pieces \in Seq(Seq(PARAM_KINDS)) /\ Len(pieces) = L
        /\ \A j \in 1 .. L : pieces[j] = Entries(c.signature[j], c.n)
        /\ kinds = Joins(pieces)[L]
    BY <1>1, <1>2, PartsFacts, SMTT(30)
  <2> QED BY <2>1, Zenon DEF Concat
<1>4. lengths \in Seq(Nat) /\ Len(lengths) = L
      /\ \A j \in 1 .. L : lengths[j] = Len(Entries(c.signature[j], c.n))
  BY <1>1
<1>5. ValuesOf(c, k) = SubSeq(c.values, Sums(lengths)[k - 1] + 1, Sums(lengths)[k])
  BY DEF ValuesOf
<1> HIDE DEF lengths, pieces, L
<1>6. \A j \in 0 .. L : Sums(lengths)[j] = FirstOf(c, j)
  <2>1. \A j \in 1 .. Len(pieces) : lengths[j] = Len(pieces[j])
    BY <1>3, <1>4
  <2>2. \A j \in 0 .. Len(pieces) : Sums(lengths)[j] = Len(Joins(pieces)[j])
    BY <1>3, <1>4, <2>1, LengthsAdd
  <2> QED BY <1>3, <2>2 DEF FirstOf, pieces
<1>7. k \in 1 .. L /\ k \in 0 .. L /\ k - 1 \in 0 .. L
  BY <1>1 DEF L
<1>8. Sums(lengths)[k - 1] = m /\ Sums(lengths)[k] = m + n
  BY <1>1, <1>6, <1>7
<1>9. part = pieces[k] /\ pieces[k] \in Seq(PARAM_KINDS)
      /\ \A j \in 1 .. Len(pieces[k]) : kinds[Len(Joins(pieces)[k - 1]) + j] = pieces[k][j]
  <2>1. part = pieces[k] /\ pieces[k] \in Seq(PARAM_KINDS)
    BY <1>3, <1>7
  <2>2. k \in 1 .. Len(pieces)
    BY <1>3, <1>7
  <2> HIDE DEF part, kinds
  <2>3. \A j \in 1 .. Len(pieces[k]) : Concat(pieces)[Len(Joins(pieces)[k - 1]) + j] = pieces[k][j]
    BY <1>3, <2>2, PartInWhole, ZenonT(30)
  <2> QED BY <1>3, <2>1, <2>3, Zenon
<1>10. \A j \in 1 .. n : kinds[m + j] = part[j]
  BY <1>9 DEF FirstOf, pieces
<1>11. \A j \in 1 .. Len(kinds) : IsValue(kinds[j], c.values[j])
  BY DEF MadeFor
<1> HIDE DEF n, m, part, kinds
<1>12. /\ ValuesOf(c, k) \in Seq(Seq(Bytes)) /\ Len(ValuesOf(c, k)) = n
       /\ \A j \in 1 .. n : ValuesOf(c, k)[j] = c.values[m + j]
  <2>1. ValuesOf(c, k) = SubSeq(c.values, m + 1, m + n)
    BY <1>5, <1>8
  <2> QED BY <1>1, <2>1, Cut
<1>13. ASSUME NEW j \in 1 .. n
       PROVE  /\ ValuesOf(c, k)[j] = c.values[m + j] /\ m + j \in 1 .. Len(c.values)
              /\ IsValue(part[j], ValuesOf(c, k)[j])
  <2>1. m + j \in 1 .. Len(c.values)
    BY <1>1
  <2>2. IsValue(kinds[m + j], c.values[m + j])
    <3> DEFINE q == m + j
    <3>1. q \in 1 .. Len(kinds)
      BY <1>1, <2>1
    <3> HIDE DEF q
    <3>2. IsValue(kinds[q], c.values[q])
      BY <1>11, <3>1
    <3> QED BY <3>2 DEF q
  <2>3. kinds[m + j] = part[j] /\ ValuesOf(c, k)[j] = c.values[m + j]
    BY <1>10, <1>12
  <2>4. IsValue(part[j], ValuesOf(c, k)[j])
    BY <2>2, <2>3, Zenon
  <2> QED BY <2>1, <2>3, <2>4
<1> QED BY <1>12, <1>13 DEF n, m, part, ValuesFit, OwnValues

-----------------------------------------------------------------------------
(* The texts of the parameters.                                            *)

LEMMA ValueText ==
    ASSUME NEW kind \in PARAM_KINDS, NEW v, IsValue(kind, v)
    PROVE  /\ v \in Seq(Nat) /\ v \in Seq(Bytes) /\ WithLength(v) \in Seq(Nat)
           /\ kind = "AMOUNT" => IsAmountText(v)
<1>1. v \in Seq(Bytes)
  BY DEF IsValue
<1>2. v \in Seq(Nat)
  BY <1>1, BytesAreNumbers
<1>3. kind = "AMOUNT" => IsAmountText(v)
  BY DEF IsValue, IsAmountText
<1> QED BY <1>1, <1>2, <1>3, LengthFirst

LEMMA FormText ==
    ASSUME NEW n \in Nat, NEW v \in AmountForms(n)
    PROVE  v \in Seq(Bytes) /\ v \in Seq(Nat)
<1>1. v \in Seq(Bytes)
  BY FormReads DEF IsAmountText
<1> QED BY <1>1, BytesAreNumbers

LEMMA SimplePartText ==
    ASSUME NEW c, NEW kind \in SimpleKinds, NEW values, IsValue(kind, values[1])
    PROVE  Part(c, kind, values) \in Seq(Nat)
<1>1. kind \in PARAM_KINDS
  BY DEF SimpleKinds, PARAM_KINDS
<1>2. values[1] \in Seq(Nat) /\ WithLength(values[1]) \in Seq(Nat)
  BY <1>1, ValueText
<1>3. Part(c, kind, values) = values[1] \/ Part(c, kind, values) = WithLength(values[1])
  <2>1. /\ Part(c, "ADDR", values) =
                  IF c.type = "WASMVM_CONTRACT" THEN values[1] ELSE WithLength(values[1])
        /\ Part(c, "PUBKEY", values) = WithLength(values[1])
        /\ Part(c, "AMOUNT", values) = values[1]
        /\ Part(c, "UINT128", values) = values[1]
    BY PartIs
  <2> QED BY <2>1 DEF SimpleKinds
<1> QED BY <1>2, <1>3

\* A transfer's values.
LEMMA TripleIs == Triple[1] = "ADDR" /\ Triple[2] = "ADDR" /\ Triple[3] = "AMOUNT" /\ Len(Triple) = 3
  BY DEF Triple

-----------------------------------------------------------------------------
(* The text of a list of pairs.                                            *)

\* The values of a list of pairs: the number, keys and amounts.
ArePairs(c, v) ==
    /\ c.n \in Nat /\ c.n # 0 /\ v \in Seq(Seq(Bytes)) /\ Len(v) = 2 * c.n + 1
    /\ v[1] \in AmountForms(c.n) /\ c.count \in AmountForms(c.n)
    /\ \A k \in 1 .. c.n : IsValue("PUBKEY", v[1 + k]) /\ IsValue("AMOUNT", v[1 + c.n + k])

LEMMA PairsMade ==
    ASSUME NEW contract \in Contracts, NEW method \in Methods(contract), NEW c,
           MadeFor(c, contract, method), NEW k \in 1 .. Len(c.signature),
           c.signature[k] = "PK_AMOUNT_PAIRS"
    PROVE  /\ method \in PeerMethods /\ contract = "GOV" /\ k = 2 /\ Len(c.signature) = 2
           /\ c.signature = <<"ADDR", "PK_AMOUNT_PAIRS">>
           /\ FirstOf(c, 1) = 1 /\ Len(c.values) = 2 * c.n + 2
           /\ ArePairs(c, ValuesOf(c, 2))
<1>1. /\ c.n \in Nat /\ c.signature = Signature(contract, method)
      /\ FirstOf(c, 0) = 0 /\ FirstOf(c, Len(c.signature)) = Len(c.values)
      /\ \A j \in 1 .. Len(c.signature) :
             FirstOf(c, j) = FirstOf(c, j - 1) + Len(Entries(c.signature[j], c.n))
  BY MadeSizes
<1>2. method \in PeerMethods /\ c.signature = <<"ADDR", "PK_AMOUNT_PAIRS">> /\ contract = "GOV"
  BY <1>1, SignatureTable
<1>3. k = 2 /\ Len(c.signature) = 2 /\ c.signature[1] = "ADDR" /\ c.signature[2] = "PK_AMOUNT_PAIRS"
  BY <1>2
<1>4. Entries("ADDR", c.n) = <<"ADDR">> /\ Entries("PK_AMOUNT_PAIRS", c.n) = PairsKinds(c.n)
  BY <1>1, EntriesFacts DEF ParameterTypes, PARAM_KINDS
<1>5. /\ Len(PairsKinds(c.n)) = 2 * c.n + 1 /\ PairsKinds(c.n)[1] = "AMOUNT"
      /\ \A j \in 1 .. c.n : /\ PairsKinds(c.n)[1 + j] = "PUBKEY"
                             /\ PairsKinds(c.n)[1 + c.n + j] = "AMOUNT"
  BY <1>1, PairsFacts
<1>6. FirstOf(c, 1) = 1
  <2>1. 1 \in 1 .. Len(c.signature) /\ 1 - 1 = 0 /\ Len(<<"ADDR">>) = 1
    BY <1>3
  <2>2. FirstOf(c, 1) = FirstOf(c, 0) + 1
    BY <1>1, <1>3, <1>4, <2>1
  <2> QED BY <1>1, <2>2
<1>7. Len(c.values) = 2 * c.n + 2
  <2>1. 2 \in 1 .. Len(c.signature) /\ 2 - 1 = 1
    BY <1>3
  <2>2. FirstOf(c, 2) = FirstOf(c, 1) + (2 * c.n + 1)
    BY <1>1, <1>3, <1>4, <1>5, <2>1
  <2> QED BY <1>1, <1>3, <1>6, <2>2
<1> DEFINE v == ValuesOf(c, 2)
<1>8. /\ v \in Seq(Seq(Bytes)) /\ Len(v) = 2 * c.n + 1
      /\ \A j \in 1 .. 2 * c.n + 1 :
             /\ v[j] = c.values[FirstOf(c, 2 - 1) + j]
             /\ IsValue(PairsKinds(c.n)[j], v[j])
  <2>1. 2 \in 1 .. Len(c.signature)
    BY <1>3, SMTT(30)
  <2>2. ValuesFit(c, 2)
    BY <2>1, MadeValues, Zenon
  <2> QED BY <1>3, <1>4, <1>5, <2>2 DEF ValuesFit, OwnValues
<1>9. c.n # 0 /\ c.values[2] \in AmountForms(c.n) /\ c.count \in AmountForms(c.n)
  BY <1>2 DEF MadeFor
<1>10. v[1] = c.values[2]
  <2>1. 1 \in 1 .. 2 * c.n + 1 /\ 2 - 1 = 1
    BY <1>1
  <2>2. v[1] = c.values[1 + 1]
    BY <1>6, <1>8, <2>1
  <2> QED BY <2>2
<1> HIDE DEF v
<1>11. ASSUME NEW j \in 1 .. c.n
       PROVE  IsValue("PUBKEY", v[1 + j]) /\ IsValue("AMOUNT", v[1 + c.n + j])
  <2> DEFINE p == 1 + j
             q == 1 + c.n + j
  <2>1. p \in 1 .. 2 * c.n + 1 /\ q \in 1 .. 2 * c.n + 1
    BY <1>1, SMTT(30)
  <2>2. PairsKinds(c.n)[p] = "PUBKEY" /\ PairsKinds(c.n)[q] = "AMOUNT"
    BY <1>5
  <2> HIDE DEF p, q
  <2>3. IsValue("PUBKEY", v[p]) /\ IsValue("AMOUNT", v[q])
    BY <1>8, <2>1, <2>2
  <2> QED BY <2>3 DEF p, q
<1>12. ArePairs(c, v)
  BY <1>1, <1>8, <1>9, <1>10, <1>11 DEF ArePairs
<1> QED BY <1>2, <1>3, <1>6, <1>7, <1>12 DEF v

LEMMA PairsText2 ==
    ASSUME NEW c, NEW v, ArePairs(c, v)
    PROVE  LET parts == ClosedParts(c.n, c.count, v)
           IN  /\ parts \in Seq(Seq(Nat)) /\ AreClosed(parts, c.n, c.count, v)
               /\ v[2 * c.n + 1] \in Seq(Nat) /\ ClosedAll(parts) \in Seq(Nat)
               /\ Part(c, "PK_AMOUNT_PAIRS", v) = ClosedAll(parts) \o v[2 * c.n + 1]
               /\ Part(c, "PK_AMOUNT_PAIRS", v) \in Seq(Nat)
<1> DEFINE n == c.n
           parts == ClosedParts(c.n, c.count, v)
<1>1. /\ n \in Nat /\ n # 0 /\ v \in Seq(Seq(Bytes)) /\ Len(v) = 2 * n + 1
      /\ v[1] \in AmountForms(n) /\ c.count \in AmountForms(n)
      /\ \A k \in 1 .. n : IsValue("PUBKEY", v[1 + k]) /\ IsValue("AMOUNT", v[1 + n + k])
  BY DEF ArePairs
<1> HIDE DEF n
<1>2. \A k \in 1 .. n : v[1 + k] \in Seq(Bytes) /\ Len(v[1 + k]) = 2 * COMPRESSED_KEY_LEN
  BY <1>1 DEF IsValue
<1>3. \A j \in 1 .. 2 * n + 1 : v[j] \in Seq(Bytes) /\ v[j] \in Seq(Nat)
  BY <1>1, BytesAreNumbers
<1>4. c.count \in Seq(Bytes) /\ c.count \in Seq(Nat)
  BY <1>1, FormText
<1>5. \A k \in 1 .. n : WithLength(v[1 + k]) \in Seq(Nat)
  BY <1>2, BytesAreNumbers, LengthFirst
<1>6. /\ <<v[1]>> \in Seq(Seq(Nat)) /\ Len(<<v[1]>>) = 1
      /\ <<c.count>> \in Seq(Seq(Nat)) /\ Len(<<c.count>>) = 1
  BY <1>1, <1>3, <1>4
<1> DEFINE keys == [k \in 1 .. n |-> WithLength(v[1 + k])]
           rest == SubSeq(v, 2 + n, Len(v) - 1)
<1>7. keys \in Seq(Seq(Nat)) /\ Len(keys) = n /\ \A k \in 1 .. n : keys[k] = WithLength(v[1 + k])
  <2> DEFINE key(k) == WithLength(v[1 + k])
  <2>1. \A k \in 1 .. n : key(k) \in Seq(Nat)
    BY <1>5
  <2> HIDE DEF key
  <2>2. /\ [k \in 1 .. n |-> key(k)] \in Seq(Seq(Nat)) /\ Len([k \in 1 .. n |-> key(k)]) = n
        /\ \A k \in 1 .. n : [j \in 1 .. n |-> key(j)][k] = key(k)
    BY <1>1, <2>1
  <2> QED BY <2>2 DEF key
<1>8. /\ rest \in Seq(Seq(Bytes)) /\ Len(rest) = n - 1
      /\ \A k \in 1 .. n - 1 : rest[k] = v[n + 1 + k]
  <2> DEFINE m == n + 1
             l == n - 1
  <2>1. m \in Nat /\ l \in Nat /\ m + l <= 2 * n + 1 /\ m + 1 = 2 + n /\ m + l = 2 * n + 1 - 1
    BY <1>1
  <2>2. rest = SubSeq(v, m + 1, m + l)
    BY <1>1, <2>1
  <2> HIDE DEF m, l
  <2>a. m + l <= Len(v)
    BY <1>1, <2>1
  <2>3. /\ SubSeq(v, m + 1, m + l) \in Seq(Seq(Bytes)) /\ Len(SubSeq(v, m + 1, m + l)) = l
        /\ \A j \in 1 .. l : SubSeq(v, m + 1, m + l)[j] = v[m + j]
    BY <1>1, <2>1, <2>a, Cut
  <2> QED BY <2>2, <2>3 DEF m, l
<1>9. rest \in Seq(Seq(Nat))
  <2>0. rest \in Seq(Seq(Bytes))
    BY <1>8
  <2>1. \A k \in 1 .. Len(rest) : rest[k] \in Seq(Nat)
    <3> HIDE DEF rest
    <3>1. \A k \in 1 .. Len(rest) : rest[k] \in Seq(Bytes)
      BY <2>0
    <3> QED BY <3>1, BytesAreNumbers
  <2>2. rest = [k \in 1 .. Len(rest) |-> rest[k]]
    BY <1>8
  <2>3. Len(rest) \in Nat
    BY <1>8
  <2> HIDE DEF rest
  <2>4. [k \in 1 .. Len(rest) |-> rest[k]] \in Seq(Seq(Nat))
    BY <2>1, <2>3
  <2> QED BY <2>2, <2>4
<1>10. parts = <<v[1]>> \o keys \o <<c.count>> \o rest
  BY DEF ClosedParts, n
<1> HIDE DEF keys, rest
<1>11. InRow(<<v[1]>> \o keys \o <<c.count>> \o rest, n, v[1], keys, c.count, rest)
  <2>1. v[1] \in Seq(Nat)
    <3>1. 1 \in 1 .. 2 * n + 1
      BY <1>1
    <3> QED BY <1>3, <3>1
  <2> QED BY <1>1, <1>4, <1>7, <1>8, <1>9, <2>1, FourJoined
<1>12. AreClosed(parts, n, c.count, v)
  <2>1. /\ Len(parts) = 2 * n + 1 /\ parts[1] = v[1]
        /\ \A k \in 1 .. n : parts[1 + k] = keys[k]
        /\ parts[n + 2] = c.count
        /\ \A k \in 1 .. n - 1 : parts[n + 2 + k] = rest[k]
    BY <1>10, <1>11, Zenon DEF InRow
  <2> QED BY <1>7, <1>8, <2>1 DEF AreClosed
<1>13. parts \in Seq(Seq(Nat))
  <2>1. <<v[1]>> \o keys \in Seq(Seq(Nat))
    BY <1>6, <1>7, JoinedTwo, Zenon
  <2>2. <<v[1]>> \o keys \o <<c.count>> \in Seq(Seq(Nat))
    BY <1>6, <2>1, JoinedTwo, Zenon
  <2>3. <<v[1]>> \o keys \o <<c.count>> \o rest \in Seq(Seq(Nat))
    BY <1>9, <2>2, JoinedTwo, Zenon
  <2> QED BY <1>10, <2>3, Zenon
<1>14. ClosedAll(parts) \in Seq(Nat)
  <2>1. ClosedAll(parts) = Concat(Ends(parts)) /\ Ends(parts) \in Seq(Seq(Nat))
    BY <1>13, EndsFacts
  <2> QED BY <2>1, ConcatText
<1>15. v[2 * n + 1] \in Seq(Nat)
  BY <1>1, <1>3
<1>16. Part(c, "PK_AMOUNT_PAIRS", v) = ClosedAll(parts) \o v[2 * n + 1]
  <2>1. Part(c, "PK_AMOUNT_PAIRS", v) = ClosedAll(parts) \o v[Len(v)]
    BY PartIs DEF ClosedParts
  <2> QED BY <1>1, <2>1, Zenon
<1> HIDE DEF parts
<1>17. Part(c, "PK_AMOUNT_PAIRS", v) \in Seq(Nat)
  BY <1>14, <1>15, <1>16, TextsJoined, Zenon
<1> QED BY <1>12, <1>13, <1>14, <1>15, <1>16, <1>17 DEF parts, n

-----------------------------------------------------------------------------

LEMMA ParamValues ==
    ASSUME NEW contract \in Contracts, NEW method \in Methods(contract), NEW c,
           MadeFor(c, contract, method), NEW k \in 1 .. Len(c.signature),
           c.signature[k] # "TRANSFER_STATE_LIST"
    PROVE  LET kind   == c.signature[k]
               values == ValuesOf(c, k)
               n      == Len(Entries(kind, c.n))
           IN  /\ kind \in SimpleKinds => n = 1 /\ IsValue(kind, values[1])
               /\ kind = "ONTID" => n = 0 /\ c.id \in Seq(Bytes) /\ Len(c.id) \in 1 .. 255
               /\ kind = "TRANSFER_STATE" => n = 3 /\ IsState(values)
               /\ kind = "PK_AMOUNT_PAIRS" => n = 2 * c.n + 1 /\ ArePairs(c, values)
               /\ kind \in SimpleKinds \cup {"ONTID", "TRANSFER_STATE", "PK_AMOUNT_PAIRS"}
               /\ Part(c, kind, values) \in Seq(Nat)
<1> DEFINE kind == c.signature[k]
           values == ValuesOf(c, k)
           n == Len(Entries(kind, c.n))
<1>1. c.n \in Nat /\ kind \in ParameterTypes
  BY MadeSizes
<1>2. \A j \in 1 .. n : IsValue(Entries(kind, c.n)[j], values[j])
  <2>1. ValuesFit(c, k)
    BY MadeValues, Zenon
  <2> QED BY <2>1, Zenon DEF ValuesFit
<1>3. kind \in SimpleKinds \cup {"ONTID", "TRANSFER_STATE", "PK_AMOUNT_PAIRS"}
  BY <1>1 DEF ParameterTypes, SimpleKinds
<1>k. k = 2 => ValuesOf(c, 2) = values
  OBVIOUS
<1> HIDE DEF kind, values
<1>4. /\ kind \in SimpleKinds => Entries(kind, c.n) = <<kind>>
      /\ kind = "ONTID" => Entries(kind, c.n) = <<>>
      /\ kind = "TRANSFER_STATE" => Entries(kind, c.n) = Triple
      /\ kind = "PK_AMOUNT_PAIRS" => Entries(kind, c.n) = PairsKinds(c.n)
  <2>1. kind \in SimpleKinds => kind \in PARAM_KINDS
    BY DEF SimpleKinds, PARAM_KINDS
  <2> QED BY <1>1, <2>1, EntriesFacts
<1>5. CASE kind \in SimpleKinds
  <2>1. n = 1 /\ IsValue(kind, values[1])
    BY <1>2, <1>4, <1>5
  <2>2. Part(c, kind, values) \in Seq(Nat)
    BY <1>5, <2>1, SimplePartText, SMTT(30)
  <2> QED BY <1>5, <2>1, <2>2 DEF kind, values, SimpleKinds
<1>6. CASE kind = "ONTID"
  <2>1. n = 0
    BY <1>4, <1>6
  <2>2. c.id \in Seq(Bytes) /\ Len(c.id) \in 1 .. 255
    BY DEF MadeFor
  <2>3. WithLength(c.id) \in Seq(Nat)
    BY <2>2, BytesAreNumbers, LengthFirst
  <2>4. Part(c, kind, values) = WithLength(c.id)
    BY <1>6, PartIs
  <2>5. kind \notin SimpleKinds
    BY <1>6 DEF SimpleKinds
  <2> QED BY <1>6, <2>1, <2>2, <2>3, <2>4, <2>5, SMTT(30) DEF kind, values
<1>7. CASE kind = "TRANSFER_STATE"
  <2>1. n = 3 /\ Entries(kind, c.n) = Triple
    BY <1>4, <1>7, TripleIs
  <2>2. IsState(values)
    BY <1>2, <2>1, TripleIs DEF IsState
  <2>3. Part(c, kind, values) \in Seq(Nat)
    BY <1>7, <2>2, StateText
  <2>5. kind \notin SimpleKinds
    BY <1>7 DEF SimpleKinds
  <2> QED BY <1>7, <2>1, <2>2, <2>3, <2>5 DEF kind, values
<1>8. CASE kind = "PK_AMOUNT_PAIRS"
  <2>1. n = 2 * c.n + 1
    BY <1>1, <1>4, <1>8, PairsFacts
  <2>2. k = 2 /\ ArePairs(c, ValuesOf(c, 2))
    BY <1>8, PairsMade DEF kind
  <2>3. ArePairs(c, values)
    BY <1>k, <2>2
  <2>4. Part(c, kind, values) \in Seq(Nat)
    BY <1>8, <2>3, PairsText2
  <2>5. kind \notin SimpleKinds
    BY <1>8 DEF SimpleKinds
  <2> QED BY <1>8, <2>1, <2>3, <2>4, <2>5 DEF kind, values
<1> QED BY <1>3, <1>5, <1>6, <1>7, <1>8, ZenonT(30)

\* The parameters of a call, each with its end in a native call.
ParamTexts(c) ==
    [k \in 1 .. Len(c.signature) |->
        IF c.type = "NATIVE_CONTRACT" THEN PartsOf(c)[k] \o OPCODE_PARAM_END ELSE PartsOf(c)[k]]

Texts(c) ==
    /\ c.type \in ContractTypes /\ Len(c.signature) \in Nat /\ ~IsList(c)
    /\ \A k \in 1 .. Len(c.signature) : Part(c, c.signature[k], ValuesOf(c, k)) \in Seq(Nat)
    /\ c.type = "NEOVM_CONTRACT" => c.total \in Seq(Nat)

LEMMA ParamTextsFacts ==
    ASSUME NEW c, Texts(c)
    PROVE  /\ ParamTexts(c) \in Seq(Seq(Nat)) /\ Len(ParamTexts(c)) = Len(c.signature)
           /\ Concat(ParamTexts(c)) \in Seq(Nat)
           /\ \A k \in 1 .. Len(c.signature) :
                  LET part == Part(c, c.signature[k], ValuesOf(c, k))
                  IN  ParamTexts(c)[k] = IF c.type = "NATIVE_CONTRACT"
                                         THEN part \o OPCODE_PARAM_END ELSE part
           /\ ParamsCode(c) \in Seq(Nat)
           /\ c.type = "NATIVE_CONTRACT" =>
                  ParamsCode(c) = OPCODE_ST_BEGIN \o Concat(ParamTexts(c)) \o OPCODE_ST_END
           /\ c.type = "NEOVM_CONTRACT" =>
                  ParamsCode(c) = Concat(ParamTexts(c)) \o c.total \o OPCODE_PACK
           /\ c.type = "WASMVM_CONTRACT" => ParamsCode(c) = Concat(ParamTexts(c))
<1> DEFINE L == Len(c.signature)
           part(k) == Part(c, c.signature[k], ValuesOf(c, k))
           text(k) == IF c.type = "NATIVE_CONTRACT" THEN part(k) \o OPCODE_PARAM_END ELSE part(k)
<1>1. /\ c.type \in ContractTypes /\ L \in Nat /\ ~IsList(c)
      /\ \A k \in 1 .. L : part(k) \in Seq(Nat)
      /\ c.type = "NEOVM_CONTRACT" => c.total \in Seq(Nat)
  BY DEF Texts
<1>2. PartsOf(c) = [k \in 1 .. L |-> part(k)]
  BY DEF PartsOf
<1>3. ParamTexts(c) = [k \in 1 .. L |-> text(k)]
  BY <1>2 DEF ParamTexts
<1>p. /\ c.type = "NATIVE_CONTRACT" => ParamsCode(c) = OPCODE_ST_BEGIN \o ClosedAll(PartsOf(c)) \o OPCODE_ST_END
      /\ c.type = "NEOVM_CONTRACT" => ParamsCode(c) = Concat(PartsOf(c)) \o c.total \o OPCODE_PACK
      /\ c.type = "WASMVM_CONTRACT" => ParamsCode(c) = Concat(PartsOf(c))
  BY <1>1 DEF ParamsCode, PartsOf
<1>4. c.type = "NATIVE_CONTRACT" => \A k : text(k) = part(k) \o OPCODE_PARAM_END
  OBVIOUS
<1>5. c.type # "NATIVE_CONTRACT" => \A k : text(k) = part(k)
  OBVIOUS
<1>t. \A k \in 1 .. L : text(k) = IF c.type = "NATIVE_CONTRACT" THEN Part(c, c.signature[k], ValuesOf(c, k)) \o OPCODE_PARAM_END ELSE Part(c, c.signature[k], ValuesOf(c, k))
  OBVIOUS
<1> HIDE DEF part, text, L
<1>6. \A k \in 1 .. L : text(k) \in Seq(Nat)
  <2> SUFFICES ASSUME NEW k \in 1 .. L PROVE text(k) \in Seq(Nat)
    OBVIOUS
  <2>1. part(k) \in Seq(Nat) /\ OPCODE_PARAM_END \in Seq(Nat)
    BY <1>1, ConstantTexts
  <2>2. part(k) \o OPCODE_PARAM_END \in Seq(Nat)
    BY <2>1, TextsJoined
  <2>3. text(k) = part(k) \o OPCODE_PARAM_END \/ text(k) = part(k)
    BY <1>4, <1>5
  <2> QED BY <2>1, <2>2, <2>3
<1>7. ParamTexts(c) \in Seq(Seq(Nat)) /\ Len(ParamTexts(c)) = L
      /\ \A k \in 1 .. L : ParamTexts(c)[k] = text(k)
  BY <1>1, <1>3, <1>6
<1>8. PartsOf(c) \in Seq(Seq(Nat)) /\ Len(PartsOf(c)) = L
      /\ \A k \in 1 .. L : PartsOf(c)[k] = part(k)
  BY <1>1, <1>2
<1>9. Concat(ParamTexts(c)) \in Seq(Nat)
  BY <1>7, ConcatText
<1>10. c.type = "NATIVE_CONTRACT" => ClosedAll(PartsOf(c)) = Concat(ParamTexts(c))
  <2> SUFFICES ASSUME c.type = "NATIVE_CONTRACT"
               PROVE  ClosedAll(PartsOf(c)) = Concat(ParamTexts(c))
    OBVIOUS
  <2>1. ClosedAll(PartsOf(c)) = Concat([k \in 1 .. L |-> PartsOf(c)[k] \o OPCODE_PARAM_END])
    BY <1>8 DEF ClosedAll
  <2>2. \A k \in 1 .. L : PartsOf(c)[k] \o OPCODE_PARAM_END = text(k)
    BY <1>4, <1>8
  <2>3. [k \in 1 .. L |-> PartsOf(c)[k] \o OPCODE_PARAM_END] = [k \in 1 .. L |-> text(k)]
    BY <2>2
  <2> QED BY <1>3, <2>1, <2>3
<1>11. c.type # "NATIVE_CONTRACT" => PartsOf(c) = ParamTexts(c)
  <2> SUFFICES ASSUME c.type # "NATIVE_CONTRACT" PROVE PartsOf(c) = ParamTexts(c)
    OBVIOUS
  <2>1. \A k \in 1 .. L : part(k) = text(k)
    BY <1>5
  <2> QED BY <1>2, <1>3, <2>1
<1>12. CASE c.type = "NATIVE_CONTRACT"
  <2>1. ParamsCode(c) = OPCODE_ST_BEGIN \o Concat(ParamTexts(c)) \o OPCODE_ST_END
    BY <1>p, <1>10, <1>12, Zenon
  <2>2. OPCODE_ST_BEGIN \o Concat(ParamTexts(c)) \in Seq(Nat)
    BY <1>9, ConstantTexts, TextsJoined, Zenon
  <2>3. OPCODE_ST_BEGIN \o Concat(ParamTexts(c)) \o OPCODE_ST_END \in Seq(Nat)
    BY <2>2, ConstantTexts, TextsJoined, Zenon
  <2>4. ParamsCode(c) \in Seq(Nat)
    BY <2>1, <2>3, Zenon
  <2> QED BY <1>12, <1>7, <1>9, <1>t, <2>1, <2>4 DEF L
<1>13. CASE c.type = "NEOVM_CONTRACT"
  <2>0. Concat(PartsOf(c)) = Concat(ParamTexts(c))
    BY <1>11, <1>13
  <2>1. ParamsCode(c) = Concat(ParamTexts(c)) \o c.total \o OPCODE_PACK
    BY <1>p, <2>0, <1>13, Zenon
  <2>2. Concat(ParamTexts(c)) \o c.total \in Seq(Nat)
    BY <1>1, <1>9, <1>13, TextsJoined, Zenon
  <2>3. Concat(ParamTexts(c)) \o c.total \o OPCODE_PACK \in Seq(Nat)
    BY <2>2, ConstantTexts, TextsJoined, Zenon
  <2>4. ParamsCode(c) \in Seq(Nat)
    BY <2>1, <2>3, Zenon
  <2> QED BY <1>13, <1>7, <1>9, <1>t, <2>1, <2>4 DEF L
<1>14. CASE c.type = "WASMVM_CONTRACT"
  <2>0. Concat(PartsOf(c)) = Concat(ParamTexts(c))
    BY <1>11, <1>14
  <2>1. ParamsCode(c) = Concat(ParamTexts(c))
    BY <1>p, <2>0, <1>14, Zenon
  <2> QED BY <1>14, <1>7, <1>9, <1>t, <2>1 DEF L
<1> QED BY <1>1, <1>12, <1>13, <1>14 DEF ContractTypes

-----------------------------------------------------------------------------
StateValuesOf(c, k) == SubSeq(c.values, 3 * k - 2, 3 * k)

StateTexts(c) == [k \in 1 .. c.n |-> Part(c, "TRANSFER_STATE", StateValuesOf(c, k))]

\* A list of transfers.
\* The k-th transfer of a list: its three values, and its text among the texts.
TransferFits(c, k) ==
    /\ IsState(StateValuesOf(c, k))
    /\ \A j \in 1 .. 3 : StateValuesOf(c, k)[j] = c.values[3 * (k - 1) + j]
    /\ StateTexts(c)[k] = Part(c, "TRANSFER_STATE", StateValuesOf(c, k))

LEMMA ListMade ==
    ASSUME NEW contract \in Contracts, NEW method \in Methods(contract), NEW c,
           MadeFor(c, contract, method), IsList(c)
    PROVE  /\ c.type = "NATIVE_CONTRACT" /\ c.n \in Nat
           /\ contract \in {"ONT", "ONG"} /\ method \in TransferMethods
           /\ c.count \in AmountForms(c.n) /\ c.count # << 0 >>
           /\ Len(c.values) = 3 * c.n
           /\ \A k \in 1 .. c.n : TransferFits(c, k)
           /\ StateTexts(c) \in Seq(Seq(Nat)) /\ Len(StateTexts(c)) = c.n
           /\ ParamsCode(c) = Concat(StateTexts(c)) \o c.count \o OPCODE_PACK
<1> DEFINE n == c.n
           kinds == AllEntries(contract, method, n)
<1>1. c.signature = <<"TRANSFER_STATE_LIST">> /\ c.signature = Signature(contract, method)
  BY DEF IsList, MadeFor
<1>2. contract \in {"ONT", "ONG"} /\ method \in TransferMethods
  <2>1. 1 \in 1 .. Len(c.signature) /\ c.signature[1] = "TRANSFER_STATE_LIST"
    BY <1>1
  <2> QED BY <1>1, <2>1, ListSignature
<1>3. /\ c.type = "NATIVE_CONTRACT" /\ n \in Nat
      /\ c.count \in AmountForms(n) /\ c.count # << 0 >>
      /\ c.values \in Seq(Seq(Bytes)) /\ Len(c.values) = Len(kinds)
      /\ \A k \in 1 .. Len(kinds) : IsValue(kinds[k], c.values[k])
  BY DEF MadeFor
<1>4. Len(kinds) = 3 * n /\ \A k \in 0 .. 3 * n - 1 : kinds[k + 1] = KindInList(k)
  BY <1>2, <1>3, ListEntries
<1>5. ParamsCode(c) = Concat(StateTexts(c)) \o c.count \o OPCODE_PACK
  BY <1>3, Zenon DEF ParamsCode, StateTexts, StateValuesOf
<1>6. StateTexts(c) = [k \in 1 .. n |-> Part(c, "TRANSFER_STATE", StateValuesOf(c, k))]
  BY DEF StateTexts
<1> HIDE DEF n, kinds
<1>7. ASSUME NEW k \in 1 .. n
      PROVE  /\ IsState(StateValuesOf(c, k))
             /\ \A j \in 1 .. 3 : StateValuesOf(c, k)[j] = c.values[3 * (k - 1) + j]
  <2> DEFINE m == 3 * (k - 1)
             v == StateValuesOf(c, k)
  <2>1. m \in Nat /\ m + 3 <= 3 * n /\ 3 * k - 2 = m + 1 /\ 3 * k = m + 3 /\ k - 1 \in Nat
    BY <1>3
  <2>2. v = SubSeq(c.values, m + 1, m + 3)
    BY <2>1 DEF StateValuesOf
  <2>k. /\ KindInList(3 * (k - 1)) = "ADDR" /\ KindInList(3 * (k - 1) + 1) = "ADDR"
        /\ KindInList(3 * (k - 1) + 2) = "AMOUNT"
    BY <2>1, KindsOfTransfer
  <2>s. KindInList(m) = "ADDR" /\ KindInList(m + 1) = "ADDR" /\ KindInList(m + 2) = "AMOUNT"
    BY <2>k
  <2> HIDE DEF m, v
  <2>3. /\ Len(SubSeq(c.values, m + 1, m + 3)) = 3
        /\ \A j \in 1 .. 3 : SubSeq(c.values, m + 1, m + 3)[j] = c.values[m + j]
    BY <1>3, <1>4, <2>1, Cut
  <2>4. v[1] = c.values[m + 1] /\ v[2] = c.values[m + 2] /\ v[3] = c.values[m + 3]
    <3>1. 1 \in 1 .. 3 /\ 2 \in 1 .. 3 /\ 3 \in 1 .. 3
      OBVIOUS
    <3> QED BY <2>2, <2>3, <3>1, Zenon
  <2>5. kinds[m + 1] = "ADDR" /\ kinds[m + 2] = "ADDR" /\ kinds[m + 3] = "AMOUNT"
    <3>1. /\ m \in 0 .. 3 * n - 1 /\ m + 1 \in 0 .. 3 * n - 1 /\ m + 2 \in 0 .. 3 * n - 1
          /\ m + 1 + 1 = m + 2 /\ m + 2 + 1 = m + 3
      BY <1>3, <2>1
    <3>2. kinds[m + 1] = KindInList(m)
      BY <1>4, <3>1
    <3>3. kinds[m + 1 + 1] = KindInList(m + 1)
      BY <1>4, <3>1
    <3>4. kinds[m + 2 + 1] = KindInList(m + 2)
      BY <1>4, <3>1
    <3> QED BY <2>s, <3>1, <3>2, <3>3, <3>4
  <2>6. m + 1 \in 1 .. Len(kinds) /\ m + 2 \in 1 .. Len(kinds) /\ m + 3 \in 1 .. Len(kinds)
    BY <1>3, <1>4, <2>1
  <2>7. IsValue("ADDR", v[1]) /\ IsValue("ADDR", v[2]) /\ IsValue("AMOUNT", v[3])
    <3>1. /\ IsValue(kinds[m + 1], c.values[m + 1]) /\ IsValue(kinds[m + 2], c.values[m + 2])
          /\ IsValue(kinds[m + 3], c.values[m + 3])
      BY <1>3, <2>6
    <3> QED BY <2>4, <2>5, <3>1
  <2>8. \A j \in 1 .. 3 : v[j] = c.values[m + j]
    BY <2>2, <2>3
  <2> QED BY <2>7, <2>8 DEF IsState, m, v
<1>8. \A k \in 1 .. n : Part(c, "TRANSFER_STATE", StateValuesOf(c, k)) \in Seq(Nat)
  BY <1>7, StateText
<1>9. /\ StateTexts(c) \in Seq(Seq(Nat)) /\ Len(StateTexts(c)) = n
      /\ \A k \in 1 .. n : StateTexts(c)[k] = Part(c, "TRANSFER_STATE", StateValuesOf(c, k))
  <2> DEFINE text(k) == Part(c, "TRANSFER_STATE", StateValuesOf(c, k))
  <2>1. \A k \in 1 .. n : text(k) \in Seq(Nat)
    BY <1>8
  <2>2. StateTexts(c) = [k \in 1 .. n |-> text(k)]
    BY <1>6
  <2> HIDE DEF text
  <2>3. StateTexts(c) \in Seq(Seq(Nat)) /\ Len(StateTexts(c)) = n
        /\ \A k \in 1 .. n : StateTexts(c)[k] = text(k)
    BY <1>3, <2>1, <2>2
  <2> QED BY <2>3 DEF text
<1>10. \A k \in 1 .. n : TransferFits(c, k)
  BY <1>7, <1>9, Zenon DEF TransferFits
<1> QED BY <1>2, <1>3, <1>4, <1>5, <1>9, <1>10, Zenon DEF n
-----------------------------------------------------------------------------
(* A call, in the words that the search for its method goes by.            *)

LEMMA ListIs ==
    ASSUME NEW contract \in Contracts, NEW method \in Methods(contract), NEW c,
           MadeFor(c, contract, method), IsList(c)
    PROVE  /\ c.type = "NATIVE_CONTRACT" /\ contract \in {"ONT", "ONG"} /\ method \in TransferMethods
           /\ c.n \in Nat /\ Len(c.values) = 3 * c.n
  BY ListMade, Zenon

LEMMA TransferIs ==
    ASSUME NEW contract \in Contracts, NEW method \in Methods(contract), NEW c,
           MadeFor(c, contract, method), IsList(c), NEW k \in 1 .. c.n
    PROVE  TransferFits(c, k)
  BY ListMade, Zenon

\* The last bytes of a text.
NativeLast(body) ==
    LET end == Len(body)
    IN  /\ end >= 4 /\ body[end - 3] = 106 /\ body[end - 2] = 124
        /\ body[end - 1] = 200 /\ body[end] = 108

PackLast(body) == Len(body) >= 1 /\ body[Len(body)] = 193

\* The parameters of a call end as they should.
MarkEnds(c) ==
    /\ c.type = "NATIVE_CONTRACT" /\ ~IsList(c) => NativeLast(ParamsCode(c))
    /\ c.type = "NATIVE_CONTRACT" /\ IsList(c) => PackLast(ParamsCode(c))
    /\ c.type = "NEOVM_CONTRACT" => PackLast(ParamsCode(c))

Worded(c) ==
    /\ c.type \in ContractTypes /\ IsAddress(c.address) /\ IsName(c.method)
    /\ c.type # "WASMVM_CONTRACT" => Unmarked(c.address)
    /\ ParamsCode(c) \in Seq(Nat)
    /\ MarkEnds(c)

LEMMA LastBehind ==
    ASSUME NEW u, NEW t, NEW body, Len(u) \in Nat, Len(t) = 1, Behind(body, u, t)
    PROVE  Len(body) = Len(u) + 1 /\ body[Len(u) + 1] = t[1]
<1>1. 1 \in 1 .. 1
  OBVIOUS
<1> QED BY <1>1 DEF Behind

LEMMA PackBehind ==
    ASSUME NEW u \in Seq(Nat), NEW body, Behind(body, u, OPCODE_PACK)
    PROVE  PackLast(body)
<1>1. OPCODE_PACK \in Seq(Nat) /\ Len(OPCODE_PACK) = 1 /\ OPCODE_PACK[1] = 193
  BY ConstantTexts, ConstantLengths DEF OPCODE_PACK
<1>2. Len(u) \in Nat
  OBVIOUS
<1>3. Len(body) = Len(u) + 1 /\ body[Len(u) + 1] = 193
  BY <1>1, <1>2, LastBehind
<1> QED BY <1>2, <1>3 DEF PackLast

LEMMA PackEnds ==
    ASSUME NEW s \in Seq(Nat), NEW t \in Seq(Nat)
    PROVE  s \o t \o OPCODE_PACK \in Seq(Nat) /\ PackLast(s \o t \o OPCODE_PACK)
<1>1. s \o t \in Seq(Nat)
  BY TextsJoined
<1>2. OPCODE_PACK \in Seq(Nat)
  BY ConstantTexts
<1>3. (s \o t) \o OPCODE_PACK \in Seq(Nat)
  BY <1>1, <1>2, TextsJoined, Zenon
<1>4. Behind((s \o t) \o OPCODE_PACK, s \o t, OPCODE_PACK)
  BY <1>1, <1>2, JoinedBehind, Zenon
<1>5. PackLast((s \o t) \o OPCODE_PACK)
  BY <1>1, <1>4, PackBehind, Zenon
<1> QED BY <1>3, <1>5, Zenon

LEMMA NativeBehind ==
    ASSUME NEW s \in Seq(Seq(Nat)), Len(s) # 0, NEW p \in Seq(Nat),
           Behind(s[Len(s)], p, OPCODE_PARAM_END),
           NEW u \in Seq(Nat), Behind(u, OPCODE_ST_BEGIN, Concat(s)),
           NEW body, Behind(body, u, OPCODE_ST_END)
    PROVE  NativeLast(body)
<1>1. /\ Len(OPCODE_ST_BEGIN) = 3 /\ Len(OPCODE_ST_END) = 1 /\ Len(OPCODE_PARAM_END) = 3
      /\ OPCODE_ST_END[1] = 108
      /\ OPCODE_PARAM_END[1] = 106 /\ OPCODE_PARAM_END[2] = 124 /\ OPCODE_PARAM_END[3] = 200
  <2>1. OPCODE_ST_END[1] = 108
      /\ OPCODE_PARAM_END[1] = 106 /\ OPCODE_PARAM_END[2] = 124 /\ OPCODE_PARAM_END[3] = 200
    BY DEF OPCODE_ST_END, OPCODE_PARAM_END
  <2> QED BY <2>1, ConstantLengths
<1> DEFINE w == Concat(s)
           front == Joins(s)[Len(s) - 1]
           last  == s[Len(s)]
<1>2. /\ front \in Seq(Nat) /\ Len(w) = Len(front) + Len(last)
      /\ \A j \in 1 .. Len(last) : w[Len(front) + j] = last[j]
  BY LastOfAll, Zenon
<1>3. Behind(last, p, OPCODE_PARAM_END) /\ Behind(u, OPCODE_ST_BEGIN, w)
  OBVIOUS
<1> HIDE DEF w, front, last
<1>4. Len(p) \in Nat /\ Len(front) \in Nat
  BY <1>2
<1> DEFINE a == Len(front)
           b == Len(p)
           d == a + b
<1>5. /\ a \in Nat /\ b \in Nat /\ d \in Nat
      /\ Len(w) = a + Len(last) /\ \A j \in 1 .. Len(last) : w[a + j] = last[j]
  BY <1>2, <1>4
<1> HIDE DEF a
<1>6. /\ Len(last) = b + 3
      /\ last[b + 1] = 106 /\ last[b + 2] = 124 /\ last[b + 3] = 200
  <2>1. 1 \in 1 .. 3 /\ 2 \in 1 .. 3 /\ 3 \in 1 .. 3
    OBVIOUS
  <2> QED BY <1>1, <1>3, <2>1 DEF Behind
<1> HIDE DEF b
<1>7. /\ Len(w) = d + 3
      /\ w[d + 1] = 106 /\ w[d + 2] = 124 /\ w[d + 3] = 200
  <2>1. b + 1 \in 1 .. Len(last) /\ b + 2 \in 1 .. Len(last) /\ b + 3 \in 1 .. Len(last)
    BY <1>5, <1>6
  <2>2. /\ w[a + (b + 1)] = last[b + 1] /\ w[a + (b + 2)] = last[b + 2]
        /\ w[a + (b + 3)] = last[b + 3]
    BY <1>5, <2>1
  <2>3. a + (b + 1) = d + 1 /\ a + (b + 2) = d + 2 /\ a + (b + 3) = d + 3
    BY <1>5
  <2> QED BY <1>5, <1>6, <2>2, <2>3
<1> HIDE DEF d
<1>8. /\ Len(u) = d + 6
      /\ u[d + 4] = 106 /\ u[d + 5] = 124 /\ u[d + 6] = 200
  <2>1. d + 1 \in 1 .. Len(w) /\ d + 2 \in 1 .. Len(w) /\ d + 3 \in 1 .. Len(w)
    BY <1>5, <1>7
  <2>2. Len(u) = 3 + Len(w) /\ \A j \in 1 .. Len(w) : u[3 + j] = w[j]
    <3> DEFINE l == Len(OPCODE_ST_BEGIN)
    <3>1. Len(u) = l + Len(w) /\ \A j \in 1 .. Len(w) : u[l + j] = w[j]
      BY <1>3, Zenon DEF Behind
    <3>2. l = 3
      BY <1>1
    <3> HIDE DEF l
    <3> QED BY <3>1, <3>2
  <2>3. u[3 + (d + 1)] = w[d + 1] /\ u[3 + (d + 2)] = w[d + 2] /\ u[3 + (d + 3)] = w[d + 3]
    BY <2>1, <2>2
  <2>4. 3 + (d + 1) = d + 4 /\ 3 + (d + 2) = d + 5 /\ 3 + (d + 3) = d + 6
    BY <1>5
  <2> QED BY <1>5, <1>7, <2>2, <2>3, <2>4
<1>9. Len(body) = d + 7 /\ body[d + 7] = 108
  <2>1. Len(u) \in Nat
    BY <1>5, <1>8
  <2>2. Len(body) = Len(u) + 1 /\ body[Len(u) + 1] = OPCODE_ST_END[1]
    BY <1>1, <2>1, LastBehind
  <2> QED BY <1>1, <1>5, <1>8, <2>2
<1>10. body[d + 4] = 106 /\ body[d + 5] = 124 /\ body[d + 6] = 200
  <2>1. d + 4 \in 1 .. Len(u) /\ d + 5 \in 1 .. Len(u) /\ d + 6 \in 1 .. Len(u)
    BY <1>5, <1>8
  <2>2. \A j \in 1 .. Len(u) : body[j] = u[j]
    BY DEF Behind
  <2> QED BY <1>8, <2>1, <2>2, SMTT(30)
<1>11. /\ Len(body) >= 4 /\ Len(body) - 3 = d + 4 /\ Len(body) - 2 = d + 5
       /\ Len(body) - 1 = d + 6
  BY <1>5, <1>9
<1> DEFINE e == Len(body)
<1>12. e >= 4 /\ e - 3 = d + 4 /\ e - 2 = d + 5 /\ e - 1 = d + 6 /\ e = d + 7
  BY <1>9, <1>11
<1>13. body[e] = 108
  BY <1>9, <1>12, Zenon
<1>14. body[e - 3] = 106
  <2>1. e - 3 = d + 4 /\ body[d + 4] = 106
    BY <1>10, <1>12, Zenon
  <2> QED BY <2>1, Zenon
<1>15. body[e - 2] = 124
  <2>1. e - 2 = d + 5 /\ body[d + 5] = 124
    BY <1>10, <1>12, Zenon
  <2> QED BY <2>1, Zenon
<1>16. body[e - 1] = 200
  <2>1. e - 1 = d + 6 /\ body[d + 6] = 200
    BY <1>10, <1>12, Zenon
  <2> QED BY <2>1, Zenon
<1> QED BY <1>12, <1>13, <1>14, <1>15, <1>16, Zenon DEF NativeLast

LEMMA NativeEnds ==
    ASSUME NEW s \in Seq(Seq(Nat)), Len(s) # 0, NEW p \in Seq(Nat),
           s[Len(s)] = p \o OPCODE_PARAM_END
    PROVE  LET body == OPCODE_ST_BEGIN \o Concat(s) \o OPCODE_ST_END
           IN  body \in Seq(Nat) /\ NativeLast(body)
<1>1. /\ OPCODE_ST_BEGIN \in Seq(Nat) /\ OPCODE_ST_END \in Seq(Nat) /\ OPCODE_PARAM_END \in Seq(Nat)
      /\ Concat(s) \in Seq(Nat)
  BY ConstantTexts, ConcatText, Zenon
<1>2. Behind(p \o OPCODE_PARAM_END, p, OPCODE_PARAM_END)
  BY <1>1, JoinedBehind, Zenon
<1>3. Behind(s[Len(s)], p, OPCODE_PARAM_END)
  BY <1>2, Zenon
<1>4. OPCODE_ST_BEGIN \o Concat(s) \in Seq(Nat)
  BY <1>1, TextsJoined, Zenon
<1>5. Behind(OPCODE_ST_BEGIN \o Concat(s), OPCODE_ST_BEGIN, Concat(s))
  BY <1>1, JoinedBehind, Zenon
<1>6. (OPCODE_ST_BEGIN \o Concat(s)) \o OPCODE_ST_END \in Seq(Nat)
  BY <1>1, <1>4, TextsJoined, Zenon
<1>7. Behind((OPCODE_ST_BEGIN \o Concat(s)) \o OPCODE_ST_END, OPCODE_ST_BEGIN \o Concat(s), OPCODE_ST_END)
  BY <1>1, <1>4, JoinedBehind, Zenon
<1>8. NativeLast((OPCODE_ST_BEGIN \o Concat(s)) \o OPCODE_ST_END)
  BY <1>3, <1>4, <1>5, <1>7, NativeBehind, Zenon
<1> QED BY <1>6, <1>8, Zenon

LEMMA TextsWorded ==
    ASSUME NEW c, Texts(c), Len(c.signature) # 0, IsAddress(c.address), IsName(c.method),
           c.type # "WASMVM_CONTRACT" => Unmarked(c.address)
    PROVE  Worded(c)
<1> DEFINE L == Len(c.signature)
<1>1. /\ c.type \in ContractTypes /\ L \in Nat /\ ~IsList(c)
      /\ \A k \in 1 .. L : Part(c, c.signature[k], ValuesOf(c, k)) \in Seq(Nat)
      /\ c.type = "NEOVM_CONTRACT" => c.total \in Seq(Nat)
  BY DEF Texts
<1>2. /\ ParamTexts(c) \in Seq(Seq(Nat)) /\ Len(ParamTexts(c)) = L
      /\ Concat(ParamTexts(c)) \in Seq(Nat)
      /\ \A k \in 1 .. L :
             c.type = "NATIVE_CONTRACT" =>
                 ParamTexts(c)[k] = Part(c, c.signature[k], ValuesOf(c, k)) \o OPCODE_PARAM_END
      /\ ParamsCode(c) \in Seq(Nat)
      /\ c.type = "NATIVE_CONTRACT" =>
             ParamsCode(c) = OPCODE_ST_BEGIN \o Concat(ParamTexts(c)) \o OPCODE_ST_END
      /\ c.type = "NEOVM_CONTRACT" =>
             ParamsCode(c) = Concat(ParamTexts(c)) \o c.total \o OPCODE_PACK
  BY ParamTextsFacts
<1>3. L \in 1 .. L
  BY <1>1
<1> HIDE DEF L
<1>4. CASE c.type = "NATIVE_CONTRACT"
  <2> DEFINE part == Part(c, c.signature[L], ValuesOf(c, L))
  <2>1. part \in Seq(Nat) /\ ParamTexts(c)[L] = part \o OPCODE_PARAM_END
    BY <1>1, <1>2, <1>3, <1>4
  <2> HIDE DEF part
  <2>2. L # 0 /\ L = Len(ParamTexts(c))
    BY <1>2 DEF L
  <2>3. ParamTexts(c)[Len(ParamTexts(c))] = part \o OPCODE_PARAM_END
    BY <2>1, <2>2, Zenon
  <2>4. NativeLast(OPCODE_ST_BEGIN \o Concat(ParamTexts(c)) \o OPCODE_ST_END)
    BY <1>2, <2>1, <2>2, <2>3, NativeEnds, Zenon
  <2>5. NativeLast(ParamsCode(c))
    BY <1>2, <1>4, <2>4, Zenon
  <2>6. ParamsCode(c) \in Seq(Nat)
    BY <1>2, Zenon
  <2> QED BY <1>1, <1>4, <2>5, <2>6, Zenon DEF Worded, MarkEnds
<1>5. CASE c.type = "NEOVM_CONTRACT"
  <2>1. PackLast(Concat(ParamTexts(c)) \o c.total \o OPCODE_PACK)
    BY <1>1, <1>2, <1>5, PackEnds, Zenon
  <2>2. PackLast(ParamsCode(c))
    BY <1>2, <1>5, <2>1, Zenon
  <2>3. ParamsCode(c) \in Seq(Nat)
    BY <1>2, Zenon
  <2> QED BY <1>1, <1>5, <2>2, <2>3, Zenon DEF Worded, MarkEnds
<1>6. CASE c.type = "WASMVM_CONTRACT"
  BY <1>1, <1>2, <1>6, Zenon DEF Worded, MarkEnds
<1>7. c.type \in {"NATIVE_CONTRACT", "NEOVM_CONTRACT", "WASMVM_CONTRACT"}
  BY <1>1 DEF ContractTypes
<1> QED BY <1>4, <1>5, <1>6, <1>7

LEMMA MadeTexts ==
    ASSUME NEW contract \in Contracts, NEW method \in Methods(contract), NEW c,
           MadeFor(c, contract, method), ~IsList(c)
    PROVE  Texts(c) /\ \A k \in 1 .. Len(c.signature) : c.signature[k] # "TRANSFER_STATE_LIST"
<1>1. /\ c.type \in ContractTypes /\ c.n \in Nat
      /\ c.signature = Signature(contract, method) /\ Len(c.signature) \in Nat
  BY MadeSizes
<1>2. \A k \in 1 .. Len(c.signature) : c.signature[k] # "TRANSFER_STATE_LIST"
  BY <1>1, ListSignature, SMTT(30) DEF IsList
<1>3. \A k \in 1 .. Len(c.signature) : Part(c, c.signature[k], ValuesOf(c, k)) \in Seq(Nat)
  BY <1>2, ParamValues
<1>4. c.type = "NEOVM_CONTRACT" => c.total \in Seq(Nat)
  <2>1. c.type = "NEOVM_CONTRACT" => c.total \in AmountForms(Len(c.signature))
    BY DEF MadeFor
  <2> QED BY <1>1, <2>1, FormText
<1> QED BY <1>1, <1>2, <1>3, <1>4 DEF Texts

LEMMA MadeWorded ==
    ASSUME NEW contract \in Contracts, NEW method \in Methods(contract), NEW c,
           MadeFor(c, contract, method)
    PROVE  Worded(c)
<1>1. c.address = AddressOf[contract] /\ c.method = NameOf[method]
  BY DEF MadeFor
<1>2. method \in KnownNames
  BY DEF KnownNames
<1>3. IsAddress(c.address) /\ Unmarked(c.address) /\ IsName(c.method)
  BY <1>1, <1>2, NameAssumption
<1>4. CASE ~IsList(c)
  <2>1. Len(c.signature) # 0
    <3>1. Shaped(c.signature)
      BY MadeSizes
    <3> QED BY <3>1 DEF Shaped
  <2>2. Texts(c)
    BY <1>4, MadeTexts
  <2> QED BY <1>3, <2>1, <2>2, TextsWorded
<1>5. CASE IsList(c)
  <2>1. /\ c.type = "NATIVE_CONTRACT" /\ c.n \in Nat /\ c.count \in AmountForms(c.n)
        /\ StateTexts(c) \in Seq(Seq(Nat))
        /\ ParamsCode(c) = Concat(StateTexts(c)) \o c.count \o OPCODE_PACK
    BY <1>5, ListMade
  <2>2. Concat(StateTexts(c)) \in Seq(Nat) /\ c.count \in Seq(Nat)
    BY <2>1, ConcatText, FormText
  <2>3. /\ Concat(StateTexts(c)) \o c.count \o OPCODE_PACK \in Seq(Nat)
        /\ PackLast(Concat(StateTexts(c)) \o c.count \o OPCODE_PACK)
    BY <2>2, PackEnds, Zenon
  <2>4. ParamsCode(c) \in Seq(Nat) /\ PackLast(ParamsCode(c))
    BY <2>1, <2>3, Zenon
  <2>5. c.type \in ContractTypes /\ c.type # "NEOVM_CONTRACT"
    BY <2>1 DEF ContractTypes
  <2> QED BY <1>3, <1>5, <2>1, <2>4, <2>5, Zenon DEF Worded, MarkEnds
<1> QED BY <1>4, <1>5

LEMMA BlindWorded ==
    ASSUME NEW c, Blind(c)
    PROVE  Worded(c)
<1>1. /\ c.type \in ContractTypes /\ IsAddress(c.address) /\ IsName(c.method)
      /\ c.type # "WASMVM_CONTRACT" => Unmarked(c.address)
      /\ Len(c.signature) \in Nat /\ Len(c.signature) # 0 /\ ~IsList(c)
      /\ \A k \in 1 .. Len(c.signature) : Part(c, c.signature[k], ValuesOf(c, k)) \in Seq(Bytes)
      /\ c.type = "NEOVM_CONTRACT" => c.total \in Seq(Bytes)
  BY DEF Blind
<1>2. Texts(c)
  <2>1. \A k \in 1 .. Len(c.signature) : Part(c, c.signature[k], ValuesOf(c, k)) \in Seq(Nat)
    BY <1>1, BytesAreNumbers
  <2>2. c.type = "NEOVM_CONTRACT" => c.total \in Seq(Nat)
    BY <1>1, BytesAreNumbers
  <2> QED BY <1>1, <2>1, <2>2 DEF Texts
<1> QED BY <1>1, <1>2, TextsWorded

=============================================================================
