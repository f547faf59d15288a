---------------------- MODULE TxParserCallProofs ---------------------------
(***************************************************************************)
(* The parser and the format agree, for every transaction and every call.  *)
(*                                                                         *)
(* The parser compares bytes and moves a cursor; CallFormat writes a call  *)
(* from its values.  What the format writes for one entry (ParamPiece,     *)
(* PairPiece, StatePiece) is in TxParserProofs.                            *)
(*                                                                         *)
(* From the transaction to the call: every call that the parser accepts is *)
(* one it has understood (Explained of TxParser).  A third inductive       *)
(* invariant, HInv, rests on the two of TxParserProofs and keeps, for      *)
(* every piece that has been read, the position it was found at and the    *)
(* entry that was written for it.  When a call is accepted the pieces lie  *)
(* side by side from the payload to the last byte, so that the payload is  *)
(* what the format writes for all of them.  ToExplain leaves two things to *)
(* be found: the number at the end of a list and the number of parameters, *)
(* each in one of the ways to write it.                                    *)
(*                                                                         *)
(* From the call to the transaction: every call that is made as it should  *)
(* be (TxCalls) is accepted with its values, or left to be signed blindly. *)
(* A fourth invariant, RInv, follows a call that the transaction carries:  *)
(* the place of every piece is the sum of the lengths in front of it, the  *)
(* piece's text stands there, the readers find it, and the cursor goes on  *)
(* to the next.  The search for the method's name goes backwards and has   *)
(* to be shown to find the name and nothing else; the name and the address *)
(* are then shown to be those of this call alone.                          *)
(***************************************************************************)
EXTENDS TxParserProofs

-----------------------------------------------------------------------------
(* What has been found so far.                                             *)

CallStages == {"method", "lookup", "params", "keys", "amounts", "transfers", "PARSING_OK"}

NameStages == CallStages \ {"method"}

\* From here on the constant part, the address and the method's name have been
\* compared, and before the parameters the cursor is where they were found.
CallHeld ==
    /\ stage \in CallStages => CallFound
    /\ stage \in NameStages => NameFound
    /\ stage = "contract" => offset = Start
    /\ stage = "method" => offset = IF Wasm THEN Behind20 ELSE Start
    /\ stage = "lookup" =>
           offset = IF Wasm THEN parse_method_name(Behind20 + 1) ELSE Start

\* Between two parameters, the first ones have been read up to the cursor.
ParamsHeld == stage = "params" => ReadTo(Done)

\* In a list of pairs, so have the address in front of it and its first pieces:
\* keys, the number of amounts, amounts.
PairsHeld ==
    stage \in {"keys", "amounts"} =>
        /\ num # 0 /\ Begin \in Nat /\ Begin <= size
        /\ \E a \in Nat :
               /\ ParamPiece(1, Begin, a)
               /\ PairsFound(IF stage = "keys" THEN i ELSE num + 1 + i, a, offset)

\* In a list of transfers, so have its first transfers.
TransfersHeld == stage = "transfers" => \E at : States0(at) /\ at[i] = offset

\* At the end everything has been read, up to the last byte.
AcceptedHeld ==
    Accepted => AllMeasured /\ IF IsTransferList THEN TransfersStand ELSE ParamsStand

\* Where the pieces of the call have been found.
HInv == CallHeld /\ ParamsHeld /\ PairsHeld /\ TransfersHeld /\ AcceptedHeld

\* A step that refuses, or ends with another status.
LEMMA StopHolds ==
    ASSUME NEW status \in Statuses \ {"PARSING_OK"}, Stop(status)
    PROVE  HInv'
<1>1. stage' = status
  BY DEF Stop
<1> QED BY <1>1 DEF HInv, CallHeld, ParamsHeld, PairsHeld, TransfersHeld, AcceptedHeld, CallStages,
               NameStages, Accepted, Statuses

LEMMA RefuseHolds ==
    ASSUME Refuse
    PROVE  HInv'
BY StopHolds DEF Refuse, Statuses

LEMMA InitHolds == Init => HInv
BY DEF Init, HInv, CallHeld, ParamsHeld, PairsHeld, TransfersHeld, AcceptedHeld, CallStages,
       NameStages, Accepted

LEMMA HeaderHolds ==
    ASSUME Header
    PROVE  HInv'
<1>1. CASE Stop("PARSING_LENGTH_WRONG") \/ Refuse
  BY <1>1, StopHolds, RefuseHolds DEF Statuses
<1>2. CASE Skip("payload", HeaderLength)
  BY <1>2 DEF Skip, GoTo, HInv, CallHeld, ParamsHeld, PairsHeld, TransfersHeld, AcceptedHeld,
              CallStages, NameStages, Accepted
<1> QED BY <1>1, <1>2 DEF Header

LEMMA PayloadSizeHolds ==
    ASSUME IInv, PayloadSize
    PROVE  HInv'
<1>1. CASE Stop("PARSING_LENGTH_WRONG") \/ Refuse
  BY <1>1, StopHolds, RefuseHolds DEF Statuses
<1>2. CASE Skip("contract", PayloadAt(offset))
  <2>1. stage' = "contract" /\ offset' = PayloadAt(offset) /\ buf' = buf
    BY <1>2 DEF Skip, GoTo
  <2>2. offset = HeaderLength
    BY DEF PayloadSize, IInv, PayloadInv
  <2>3. offset' = Start'
    BY <2>1, <2>2, SameBuffer DEF Start
  <2> QED BY <2>1, <2>3 DEF HInv, CallHeld, ParamsHeld, PairsHeld, TransfersHeld, AcceptedHeld,
                 CallStages, NameStages, Accepted
<1> QED BY <1>1, <1>2 DEF PayloadSize

LEMMA ContractHolds ==
    ASSUME IInv, HInv, Contract
    PROVE  HInv'
<1>1. stage = "contract" /\ Buffered /\ offset = Start
  BY DEF Contract, IInv, HInv, CallHeld
<1>2. size \in Nat /\ offset \in Nat /\ offset \in Positions /\ Start \in Nat /\ Start <= size
  BY <1>1, StartNat, BytesRead DEF IInv, TypeInv, Positions
<1>3. ASSUME NEW t, NEW at, NEW next, SetContract(t, at, next), CallFound',
             next = IF t = "WASMVM_CONTRACT" THEN Behind20 ELSE Start
      PROVE  HInv'
  <2>1. /\ buf' = buf /\ stage' = "method" /\ offset' = next /\ type' = t
    BY <1>3 DEF SetContract, GoTo
  <2>2. Start' = Start /\ Behind20' = Behind20
    BY <2>1, SameBuffer DEF Behind20
  <2>3. offset' = IF Wasm' THEN Behind20' ELSE Start'
    BY <1>3, <2>1, <2>2 DEF Wasm
  <2> QED BY <1>3, <2>1, <2>3 DEF HInv, CallHeld, ParamsHeld, PairsHeld, TransfersHeld,
                 AcceptedHeld, CallStages, NameStages, Accepted
<1>4. CASE /\ NativeCall
           /\ SetContract("NATIVE_CONTRACT", size - NATIVE_CONTRACT_CONSTANT_LENGTH + 1, offset)
  <2> DEFINE at == size - NATIVE_CONTRACT_CONSTANT_LENGTH
  <2>1. at \in Nat
    BY <1>1, <1>2, <1>4, NativeCallEnds, ConstantPartLengths
  <2>2. NativeTail(at)
    BY <1>4 DEF NativeCall, NativeTail
  <2>3. buf' = buf /\ type' = "NATIVE_CONTRACT" /\ addr' = at + 1
    BY <1>4 DEF SetContract
  <2>4. PICK x : x = at
    OBVIOUS
  <2>5. at' = at /\ Start' = Start /\ size' = size
    BY <2>3, SameBuffer DEF NATIVE_CONTRACT_CONSTANT_LENGTH
  <2>6. NativeTail(x)'
    BY <2>2, <2>3, <2>4, TailsAgain
  <2>7. TailNative(x)'
    BY <2>1, <2>3, <2>4, <2>6 DEF TailNative
  <2>8. TailNative(at)'
    BY <2>4, <2>5, <2>7
  <2>9. CallFound'
    BY <1>2, <2>3, <2>5, <2>8 DEF CallFound
  <2> QED BY <1>1, <1>3, <1>4, <2>9
<1>5. CASE /\ NeovmCall
           /\ SetContract("NEOVM_CONTRACT", size - NEOVM_CONTRACT_CONSTANT_LENGTH + 1, offset)
  <2> DEFINE at == size - NEOVM_CONTRACT_CONSTANT_LENGTH
  <2>1. at \in Nat
    BY <1>2, <1>5, ConstantPartLengths DEF NeovmCall, buffer_can_read
  <2>2. NeovmTail(at)
    BY <1>5 DEF NeovmCall, NeovmTail
  <2>3. buf' = buf /\ type' = "NEOVM_CONTRACT" /\ addr' = at + 1
    BY <1>5 DEF SetContract
  <2>4. PICK x : x = at
    OBVIOUS
  <2>5. at' = at /\ Start' = Start /\ size' = size
    BY <2>3, SameBuffer DEF NEOVM_CONTRACT_CONSTANT_LENGTH
  <2>6. NeovmTail(x)'
    BY <2>2, <2>3, <2>4, TailsAgain
  <2>7. TailNeovm(x)'
    BY <2>1, <2>3, <2>4, <2>6 DEF TailNeovm
  <2>8. TailNeovm(at)'
    BY <2>4, <2>5, <2>7
  <2>9. CallFound'
    BY <1>2, <2>3, <2>5, <2>8 DEF CallFound
  <2> QED BY <1>1, <1>3, <1>5, <2>9
<1>6. CASE WasmCall /\ SetContract("WASMVM_CONTRACT", offset, offset + ADDRESS_SCRIPT_HASH_LEN)
  <2>1. buf' = buf /\ type' = "WASMVM_CONTRACT" /\ addr' = Start
    BY <1>1, <1>6 DEF SetContract
  <2>2. Start' = Start /\ size' = size
    BY <2>1, SameBuffer
  <2>3. Found(parse_address(Start, FALSE))
    BY <1>1, <1>6 DEF WasmCall
  <2>4. Found(parse_address(Start, FALSE))'
    BY <2>1, <2>2, <2>3 DEF Found, parse_address, buffer_seek_cur, buffer_can_read, Past, size
  <2>5. CallFound'
    BY <1>2, <2>1, <2>2, <2>4 DEF CallFound
  <2>6. offset + ADDRESS_SCRIPT_HASH_LEN = Behind20
    BY <1>1 DEF Behind20
  <2> QED BY <1>1, <1>3, <1>6, <2>5, <2>6
<1> QED BY <1>4, <1>5, <1>6, RefuseHolds DEF Contract

\* What a method's name does not change.
LEMMA MethodKeepsCall ==
    ASSUME NEW at, NEW next, SetMethod(at, next)
    PROVE  /\ buf' = buf /\ type' = type /\ stage' = "lookup" /\ offset' = next
           /\ size' = size /\ Start' = Start /\ Behind20' = Behind20 /\ sEnd' = sEnd
           /\ (Wasm' <=> Wasm) /\ (CallFound' <=> CallFound) /\ name' = Name(at)
<1>1. /\ buf' = buf /\ type' = type /\ addr' = addr /\ stage' = "lookup" /\ offset' = next
      /\ name' = Name(at)
  BY DEF SetMethod, GoTo
<1>2. size' = size /\ Start' = Start /\ (CallFound' <=> CallFound)
  BY <1>1, SameBuffer, CallFoundAgain
<1>3. (Wasm' <=> Wasm) /\ (Native' <=> Native)
  BY <1>1 DEF Wasm, Native
<1>4. ConstantLength' = ConstantLength
  BY <1>3 DEF ConstantLength, NATIVE_CONTRACT_CONSTANT_LENGTH, NEOVM_CONTRACT_CONSTANT_LENGTH
<1>5. sEnd' = sEnd /\ Behind20' = Behind20
  BY <1>2, <1>4 DEF sEnd, Behind20
<1> QED BY <1>1, <1>2, <1>3, <1>5

LEMMA SetMethodHolds ==
    ASSUME HInv, stage = "method", NEW at, NEW next, SetMethod(at, next), NameFound',
           next = IF Wasm THEN parse_method_name(Behind20 + 1) ELSE Start
    PROVE  HInv'
<1>1. /\ buf' = buf /\ stage' = "lookup" /\ offset' = next /\ Start' = Start
      /\ Behind20' = Behind20 /\ (Wasm' <=> Wasm) /\ (CallFound' <=> CallFound)
  BY MethodKeepsCall
<1>2. CallFound'
  BY <1>1 DEF HInv, CallHeld, CallStages
<1>3. PICK x : x = Behind20 + 1
  OBVIOUS
<1>4. (Behind20 + 1)' = x
  BY <1>1, <1>3
<1>5. parse_method_name(x)' = parse_method_name(x)
  BY <1>1, ReadsAgain
<1>6. parse_method_name(Behind20 + 1)' = parse_method_name(Behind20 + 1)
  BY <1>3, <1>4, <1>5
<1>7. offset' = IF Wasm' THEN parse_method_name(Behind20 + 1)' ELSE Start'
  BY <1>1, <1>6
<1> QED BY <1>1, <1>2, <1>7 DEF HInv, CallHeld, ParamsHeld, PairsHeld, TransfersHeld,
               AcceptedHeld, CallStages, NameStages, Accepted

LEMMA WasmMethodHolds ==
    ASSUME HInv, WasmMethod
    PROVE  HInv'
<1>1. stage = "method" /\ Wasm /\ offset = Behind20
  BY DEF WasmMethod, HInv, CallHeld
<1>2. CASE Refuse
  BY <1>2, RefuseHolds
<1>3. CASE /\ Byte(offset) = size - (offset + 1) - Len(OPCODE_END)
           /\ Found(parse_method_name(offset + 1))
           /\ SetMethod(offset + 1, parse_method_name(offset + 1))
  <2>1. /\ buf' = buf /\ size' = size /\ Behind20' = Behind20 /\ (Wasm' <=> Wasm)
        /\ name' = Name(offset + 1)
    BY <1>3, MethodKeepsCall
  <2>2. PICK x : x = Behind20
    OBVIOUS
  <2>3. PICK y : y = x + 1
    OBVIOUS
  <2>4. /\ Byte(x)' = Byte(x) /\ Name(y)' = Name(y)
        /\ parse_method_name(y)' = parse_method_name(y)
    BY <2>1, ReadsAgain
  <2>5. PICK e : e = parse_method_name(y)
    OBVIOUS
  <2>6. Found(e)' <=> Found(e)
    BY <2>1, ReadsAgain
  <2>7. x' = Behind20' /\ y' = (Behind20 + 1)'
    BY <2>1, <2>2, <2>3
  <2>8. /\ Byte(Behind20)' = size' - (Behind20' + 1) - Len(OPCODE_END)
        /\ name' = Name(Behind20 + 1)'
    BY <1>1, <1>3, <2>1, <2>2, <2>3, <2>4, <2>7
  <2>9. Found(parse_method_name(Behind20 + 1))'
    BY <1>1, <1>3, <2>2, <2>3, <2>4, <2>5, <2>6, <2>7
  <2>10. NameFound'
    BY <1>1, <2>1, <2>8, <2>9 DEF NameFound
  <2> QED BY <1>1, <1>3, <2>10, SetMethodHolds
<1> QED BY <1>2, <1>3 DEF WasmMethod

LEMMA MethodHolds ==
    ASSUME IInv, HInv, Method
    PROVE  HInv'
<1>1. /\ stage = "method" /\ ~Wasm /\ offset = Start /\ Buffered /\ offset \in Positions
  BY DEF Method, HInv, CallHeld, IInv, TypeInv
<1>2. CASE Refuse
  BY <1>2, RefuseHolds
<1>3. CASE /\ sEnd >= offset /\ Found(parse_method_name(MethodAt))
           /\ Byte(MethodAt) = sEnd - 1 - MethodAt
           /\ SetMethod(MethodAt, offset)
  <2>1. size \in Nat /\ offset \in Nat
    BY <1>1, BytesRead DEF Positions
  <2>2. ConstantLength \in Nat /\ 2 <= ConstantLength
    BY ConstantPartLengths DEF ConstantLength
  <2>3. sEnd \in Int /\ sEnd + 2 <= size
    BY <1>3, <2>1, <2>2 DEF sEnd
  <2>4. MethodAt \in Places
    BY <1>1, <2>3, MarkReads
  <2>5. PICK x \in Places : x = MethodAt
    BY <2>4
  <2>6. /\ buf' = buf /\ size' = size /\ sEnd' = sEnd /\ (Wasm' <=> Wasm) /\ name' = Name(x)
    BY <1>3, <2>5, MethodKeepsCall
  <2>7. Byte(x) = sEnd - 1 - x /\ Found(parse_method_name(x))
    BY <1>3, <2>5
  <2>8. /\ Byte(x)' = Byte(x) /\ Name(x)' = Name(x)
        /\ parse_method_name(x)' = parse_method_name(x)
    BY <2>6, ReadsAgain
  <2>9. PICK e : e = parse_method_name(x)
    OBVIOUS
  <2>10. Found(e)' <=> Found(e)
    BY <2>6, ReadsAgain
  <2>11. Found(parse_method_name(x))'
    BY <2>7, <2>8, <2>9, <2>10
  <2>12. x \in Places'
    BY <2>5, <2>6 DEF Places
  <2>13. NameFound'
    BY <1>1, <2>6, <2>7, <2>8, <2>11, <2>12 DEF NameFound
  <2> QED BY <1>1, <1>3, <2>13, SetMethodHolds
<1> QED BY <1>2, <1>3 DEF Method
-----------------------------------------------------------------------------

LEMMA StartTransfersHolds ==
    ASSUME IInv, HInv, StartTransfers
    PROVE  HInv'
<1>1. /\ stage = "lookup" /\ IsTransferList /\ stage' = "transfers" /\ offset' = offset /\ i' = 0
      /\ params' = params /\ SameCall
  BY DEF StartTransfers, GoTo, call, list, SameCall
<1>2. CallFound /\ NameFound /\ offset = Start
  BY <1>1 DEF HInv, CallHeld, CallStages, NameStages, IsTransferList, Native, Wasm
<1>3. CallFound' /\ NameFound' /\ Start' = Start
  BY <1>1, <1>2, CallAgain
<1>4. States0([k \in 0 .. 0 |-> Start])' /\ [k \in 0 .. 0 |-> Start]'[i'] = offset'
  BY <1>1, <1>2, <1>3, StartNat DEF States0
<1>5. PICK at : at = [k \in 0 .. 0 |-> Start]
  OBVIOUS
<1>6. at = [k \in 0 .. 0 |-> Start]'
  BY <1>3, <1>5
<1>7. States0(at)' /\ at[i'] = offset'
  BY <1>4, <1>6
<1>8. TransfersHeld'
  BY <1>7 DEF TransfersHeld
<1> QED BY <1>1, <1>3, <1>8 DEF HInv, CallHeld, ParamsHeld, PairsHeld,
               AcceptedHeld, CallStages, NameStages, Accepted

LEMMA StartParamsHolds ==
    ASSUME HInv, IInv', StartParams
    PROVE  HInv'
<1> DEFINE from == IF Native THEN parse_check_constant(offset, OPCODE_ST_BEGIN) ELSE offset
<1>1. stage = "lookup"
  BY DEF StartParams
<1>2. CASE Refuse
  BY <1>2, RefuseHolds
<1>3. CASE Stop("PARSING_TX_NOT_DEFINED")
  BY <1>3, StopHolds DEF Statuses
<1>4. CASE /\ todo' = Signature(TheContract, TheMethod) /\ GoTo("params", from)
           /\ UNCHANGED <<buf, call, params, cur, num, i>>
  <2>1. /\ stage' = "params" /\ offset' = from /\ todo' = Sig /\ SameCall
    BY <1>4 DEF GoTo, call, SameCall, Sig
  <2>2. /\ CallFound /\ NameFound
        /\ offset = IF Wasm THEN parse_method_name(Behind20 + 1) ELSE Start
    BY <1>1 DEF HInv, CallHeld, CallStages, NameStages
  <2>3. CallFound' /\ NameFound' /\ Begin' = Begin /\ Sig' = Sig
    BY <2>1, <2>2, CallAgain
  <2>4. from = Begin
    BY <2>2 DEF Begin, Native, Wasm
  <2>5. Len(Sig) \in Nat
    <3>1. todo' \in Seq(ParameterTypes)
      BY DEF IInv, TypeInv
    <3> QED BY <2>1, <3>1
  <2>6. Done' = 0
    BY <2>1, <2>3, <2>5 DEF Done
  <2>7. offset' \in Nat /\ offset' <= size' /\ offset' = Begin'
    <3>1. offset' \in Positions' /\ Buffered'
      BY DEF IInv, TypeInv
    <3>2. size' \in Nat
      BY <3>1 DEF Buffered, size
    <3> QED BY <2>1, <2>3, <2>4, <3>1, <3>2 DEF Positions
  <2>8. PICK b \in Nat : b = offset'
    BY <2>7
  <2> DEFINE at == [k \in 0 .. 0 |-> b]
  <2>9. at \in [0 .. 0 -> Nat] /\ at[0] = b /\ \A k \in 1 .. 0 : FALSE
    OBVIOUS
  <2> HIDE DEF at
  <2>10. ReadTo(0)'
    BY <2>7, <2>8, <2>9 DEF ReadTo
  <2>11. ParamsHeld'
    BY <2>6, <2>10 DEF ParamsHeld
  <2> QED BY <2>1, <2>3, <2>11 DEF HInv, CallHeld, PairsHeld, TransfersHeld,
                 AcceptedHeld, CallStages, NameStages, Accepted
<1> QED BY <1>2, <1>3, <1>4 DEF StartParams

-----------------------------------------------------------------------------
(* A parameter of the signature.                                           *)

LEMMA AtParamHeld ==
    ASSUME IInv, KInv, stage = "params", todo # <<>>
    PROVE  /\ KnownMethod # {} /\ num \in Nat /\ cur \in Nat
           /\ Done \in Nat /\ Done + 1 \in 1 .. Len(Sig) /\ Len(Sig) \in Nat
           /\ Len(todo) = Len(Sig) - Done
           /\ Sig[Done + 1] = Head(todo) /\ First(Done) = cur
           /\ \A k \in 1 .. Done : Sig[k] # "PK_AMOUNT_PAIRS"
<1>1. /\ AtSignature /\ TheContract \in Contracts /\ TheMethod \in Methods(TheContract)
      /\ num \in Nat /\ Len(Sig) \in Nat /\ Len(todo) \in Nat /\ Done \in 0 .. Len(Sig)
      /\ Done + Len(todo) = Len(Sig) /\ Sig \in Seq(ParameterTypes) /\ Len(KindsDone) = cur
  BY AtParamKinds
<1>2. todo \in Seq(ParameterTypes) /\ cur \in Nat
  BY DEF IInv, TypeInv
<1>3. 1 <= Len(todo) /\ Head(todo) = todo[1]
  BY <1>2
<1>4. Done \in Nat /\ Done + 1 \in 1 .. Len(Sig) /\ Len(todo) = Len(Sig) - Done
  BY <1>1, <1>3
<1>5. Sig[Done + 1] = Head(todo)
  <2>1. 1 \in 1 .. Len(todo)
    BY <1>1, <1>3
  <2> QED BY <1>1, <1>3, <2>1 DEF AtSignature
<1>6. First(Done) = cur
  BY <1>1 DEF First, KindsDone
<1>7. ASSUME NEW k \in 1 .. Done, Sig[k] = "PK_AMOUNT_PAIRS" PROVE FALSE
  <2>1. k \in 1 .. Len(Sig)
    BY <1>1, <1>4
  <2>2. Sig = <<"ADDR", "PK_AMOUNT_PAIRS">>
    BY <1>1, <1>7, <2>1, SignatureTable DEF Sig
  <2>3. Len(Sig) = 2 /\ Sig[1] = "ADDR"
    BY <2>2
  <2>4. k = 1
    BY <1>4, <2>3
  <2> QED BY <1>7, <2>3, <2>4
<1> QED BY <1>1, <1>2, <1>4, <1>5, <1>6, <1>7 DEF AtSignature

\* A parameter has been read behind those before it.
LEMMA NextHolds ==
    ASSUME IInv, KInv, HInv, IInv', stage = "params", stage' = "params", SameCall, num' = num,
           todo # <<>>, todo' = Tail(todo),
           \A k \in 0 .. cur - 1 : params'[k] = params[k],
           NEW d, d = Done, NEW a, a = offset, NEW b, b = offset', ParamPiece(d + 1, a, b)'
    PROVE  HInv'
<1>1. /\ KnownMethod # {} /\ num \in Nat /\ cur \in Nat /\ d \in Nat /\ d + 1 \in 1 .. Len(Sig)
      /\ Len(Sig) \in Nat /\ Len(todo) = Len(Sig) - d /\ First(d) = cur
      /\ \A k \in 1 .. d : Sig[k] # "PK_AMOUNT_PAIRS"
  BY AtParamHeld
<1>2. ReadTo(d)
  BY DEF HInv, ParamsHeld
<1>3. b \in Nat
  <2>1. offset' \in Positions' /\ Buffered'
    BY DEF IInv, TypeInv
  <2>2. size' \in Nat
    BY <2>1 DEF Buffered, size
  <2> QED BY <2>1, <2>2 DEF Positions
<1>4. d <= Len(Sig)
  BY <1>1
<1>5. \A j \in 0 .. First(d) - 1 : params'[j] = params[j]
  BY <1>1
<1>6. ReadTo(d + 1)'
  BY <1>1, <1>2, <1>3, <1>4, <1>5, ReadOn
<1>7. Done' = d + 1
  <2>1. Sig' = Sig
    BY CallAgain
  <2>2. todo \in Seq(ParameterTypes)
    BY DEF IInv, TypeInv
  <2>3. Len(Tail(todo)) = Len(todo) - 1
    BY <2>2
  <2>4. Len(todo') = Len(todo) - 1
    BY <2>3
  <2> QED BY <1>1, <2>1, <2>4 DEF Done
<1>8. ParamsHeld'
  BY <1>6, <1>7 DEF ParamsHeld
<1>9. CallFound' /\ NameFound'
  BY CallAgain DEF HInv, CallHeld, CallStages, NameStages
<1> QED BY <1>8, <1>9 DEF HInv, CallHeld, PairsHeld, TransfersHeld,
               AcceptedHeld, CallStages, NameStages, Accepted

LEMMA SimpleParamHolds ==
    ASSUME IInv, KInv, HInv, IInv', SimpleParam
    PROVE  HInv'
<1> DEFINE kind  == Head(todo)
           next  == Closed(SimpleEnd(kind, offset))
           entry == SimpleEntry(kind, offset)
<1>1. NextIs(SimpleKinds) /\ kind \in SimpleKinds /\ stage = "params" /\ todo # <<>>
  BY DEF SimpleParam, NextIs
<1>2. CASE Refuse
  BY <1>2, RefuseHolds
<1>3. CASE /\ Found(next) /\ Write(cur, <<entry>>)
           /\ cur' = cur + 1 /\ todo' = Tail(todo)
           /\ GoTo("params", next) /\ UNCHANGED <<buf, call, num, i>>
  <2>1. /\ buf' = buf /\ stage' = "params" /\ todo' = Tail(todo) /\ offset' = next
        /\ num' = num /\ SameCall
    BY <1>3 DEF GoTo, call, SameCall
  <2>2. /\ KnownMethod # {} /\ num \in Nat /\ cur \in Nat /\ Done \in Nat
        /\ Done + 1 \in 1 .. Len(Sig) /\ Sig[Done + 1] = kind /\ First(Done) = cur
    BY <1>1, AtParamHeld
  <2>3. PICK d, a, b, k : d = Done /\ a = offset /\ b = offset' /\ k = kind
    OBVIOUS
  <2>4. /\ \A j \in 0 .. cur - 1 : params'[j] = params[j]
        /\ params'[cur] = entry
    <3> DEFINE entries == <<entry>>
    <3>1. Write(cur, entries) /\ Len(entries) = 1 /\ entries[1] = entry /\ 1 \in Nat
          /\ 1 \in 1 .. 1
      BY <1>3
    <3>2. DOMAIN params = 0 .. cur - 1
      BY <1>1, AtParam, EntriesWritten
    <3> HIDE DEF entries, entry
    <3>3. Extended(cur, entries, 1)
      BY <2>2, <3>1, <3>2, WrittenKeeps
    <3>4. cur + 1 - 1 = cur
      BY <2>2
    <3> QED BY <3>1, <3>3, <3>4 DEF Extended
  <2>5. /\ SimpleEntry(k, a)' = SimpleEntry(k, a)
        /\ Closed(SimpleEnd(k, a))' = Closed(SimpleEnd(k, a))
    BY <1>1, <2>1, <2>3, ParamsAgain, ZenonT(30)
  <2>6. Sig' = Sig /\ First(d)' = First(d)
    BY <2>1, CallAgain DEF First
  <2>7. Found(b)'
    <3>1. Found(b)' <=> Found(b)
      BY <2>1, ReadsAgain
    <3> QED BY <1>3, <2>1, <2>3, <3>1
  <2> HIDE DEF kind, next, entry
  <2>8. params'[First(d)'] = SimpleEntry(k, a)' /\ b = Closed(SimpleEnd(k, a))'
    BY <2>1, <2>2, <2>3, <2>4, <2>5, <2>6 DEF next, entry
  <2>9. Sig'[d + 1] = k /\ k \in SimpleKinds
    BY <1>1, <2>2, <2>3, <2>6
  <2>10. First((d + 1) - 1)' = First(d)'
    BY <2>2, <2>3
  <2>11. ParamPiece(d + 1, a, b)'
    <3>1. k = Sig[d + 1]'
      BY <2>9
    <3>2. /\ SimpleEntry(Sig[d + 1], a)' = SimpleEntry(k, a)'
          /\ Closed(SimpleEnd(Sig[d + 1], a))' = Closed(SimpleEnd(k, a))'
      BY <3>1
    <3> QED BY <2>7, <2>8, <2>9, <2>10, <3>2 DEF ParamPiece, SimpleKinds
  <2> QED BY <1>1, <2>1, <2>3, <2>4, <2>11, NextHolds
<1> QED BY <1>2, <1>3 DEF SimpleParam

LEMMA OntIdHolds ==
    ASSUME IInv, KInv, HInv, IInv', OntId
    PROVE  HInv'
<1> DEFINE next == Closed(parse_ont_id(offset))
<1>1. Head(todo) = "ONTID" /\ stage = "params" /\ todo # <<>>
  BY DEF OntId, NextIs
<1>2. CASE Refuse
  BY <1>2, RefuseHolds
<1>3. CASE /\ Found(next) /\ todo' = Tail(todo) /\ GoTo("params", next)
           /\ UNCHANGED <<buf, call, params, cur, num, i>>
  <2>1. /\ buf' = buf /\ stage' = "params" /\ todo' = Tail(todo) /\ offset' = next
        /\ num' = num /\ SameCall /\ params' = params
    BY <1>3 DEF GoTo, call, SameCall
  <2>2. Done \in Nat /\ Sig[Done + 1] = "ONTID"
    BY <1>1, AtParamHeld
  <2>3. PICK d, a, b : d = Done /\ a = offset /\ b = offset'
    OBVIOUS
  <2>4. Closed(parse_ont_id(a))' = Closed(parse_ont_id(a)) /\ Sig' = Sig
        /\ (Found(b)' <=> Found(b))
    BY <2>1, ParamsAgain, CallAgain, ReadsAgain
  <2>5. Found(b)' /\ b = Closed(parse_ont_id(a))' /\ Sig'[d + 1] = "ONTID"
    BY <1>3, <2>1, <2>2, <2>3, <2>4
  <2>6. ParamPiece(d + 1, a, b)'
    BY <2>5 DEF ParamPiece, SimpleKinds
  <2>7. \A k \in 0 .. cur - 1 : params'[k] = params[k]
    BY <2>1
  <2> QED BY <1>1, <2>1, <2>3, <2>6, <2>7, NextHolds
<1> QED BY <1>2, <1>3 DEF OntId

LEMMA TransferStateParamHolds ==
    ASSUME IInv, KInv, HInv, IInv', TransferStateParam
    PROVE  HInv'
<1> DEFINE next    == Closed(StateEnd(offset))
           entries == StateEntries(offset)
<1>1. /\ NextIs({"TRANSFER_STATE"}) /\ Head(todo) = "TRANSFER_STATE"
      /\ stage = "params" /\ todo # <<>>
  BY DEF TransferStateParam, NextIs
<1>2. CASE Refuse
  BY <1>2, RefuseHolds
<1>3. CASE /\ Found(next) /\ Write(cur, entries) /\ cur' = cur + 3 /\ todo' = Tail(todo)
           /\ GoTo("params", next) /\ UNCHANGED <<buf, call, num, i>>
  <2>1. /\ buf' = buf /\ stage' = "params" /\ todo' = Tail(todo) /\ offset' = next
        /\ num' = num /\ SameCall
    BY <1>3 DEF GoTo, call, SameCall
  <2>2. /\ KnownMethod # {} /\ num \in Nat /\ cur \in Nat /\ Done \in Nat
        /\ Sig[Done + 1] = "TRANSFER_STATE" /\ First(Done) = cur
    BY <1>1, AtParamHeld
  <2>3. PICK d, a, b : d = Done /\ a = offset /\ b = offset'
    OBVIOUS
  <2>4. /\ \A j \in 0 .. cur - 1 : params'[j] = params[j]
        /\ \A j \in 1 .. 3 : params'[cur + j - 1] = entries[j]
    <3>1. Write(cur, entries) /\ Len(entries) = 3 /\ 3 \in Nat
      BY <1>3 DEF StateEntries
    <3>2. DOMAIN params = 0 .. cur - 1
      BY <1>1, AtParam, EntriesWritten
    <3> HIDE DEF entries
    <3>3. Extended(cur, entries, 3)
      BY <2>2, <3>1, <3>2, WrittenKeeps
    <3> QED BY <3>3 DEF Extended
  <2>5. StateEntries(a)' = StateEntries(a) /\ Closed(StateEnd(a))' = Closed(StateEnd(a))
    BY <2>1, ParamsAgain, ReadsOnAgain
  <2>6. Sig' = Sig /\ First(d)' = First(d)
    BY <2>1, CallAgain DEF First
  <2>7. Found(b)'
    <3>1. Found(b)' <=> Found(b)
      BY <2>1, ReadsAgain
    <3> QED BY <1>3, <2>1, <2>3, <3>1
  <2> HIDE DEF next, entries
  <2>8. /\ \A j \in 1 .. 3 : params'[First(d)' + j - 1] = StateEntries(a)'[j]
        /\ b = Closed(StateEnd(a))'
    BY <2>1, <2>2, <2>3, <2>4, <2>5, <2>6 DEF next, entries
  <2>9. Sig'[d + 1] = "TRANSFER_STATE"
    BY <2>2, <2>3, <2>6
  <2>10. First((d + 1) - 1)' = First(d)'
    BY <2>2, <2>3
  <2>11. ParamPiece(d + 1, a, b)'
    BY <2>7, <2>8, <2>9, <2>10 DEF ParamPiece, SimpleKinds
  <2> QED BY <1>1, <2>1, <2>3, <2>4, <2>11, NextHolds
<1> QED BY <1>2, <1>3 DEF TransferStateParam

LEMMA ListParamHolds ==
    ASSUME ListParam
    PROVE  HInv'
BY RefuseHolds DEF ListParam

-----------------------------------------------------------------------------
(* A list of pairs.                                                        *)

\* In front of the first parameter there is no entry.
LEMMA FirstOfAll ==
    ASSUME NEW contract \in Contracts, NEW method \in Methods(contract), NEW n \in Nat
    PROVE  Len(Joins(Parts(contract, method, n))[0]) = 0
<1> DEFINE parts == Parts(contract, method, n)
<1>1. parts \in Seq(Seq(PARAM_KINDS))
  BY PartsFacts
<1> HIDE DEF parts
<1>2. Joins(parts)[0] = <<>>
  BY <1>1, JoinsFacts
<1> QED BY <1>2 DEF parts

LEMMA OneComesFirst ==
    ASSUME NEW n \in Nat, n # 0
    PROVE  /\ 1 \notin 2 .. n + 1 /\ 1 # n + 2 /\ 1 # 2 * n + 2
           /\ 1 \notin n + 3 .. 2 * n + 1
OBVIOUS

LEMMA OffsetNat ==
    ASSUME IInv'
    PROVE  offset' \in Nat /\ offset' <= size'
<1>1. offset' \in Positions' /\ Buffered'
  BY DEF IInv, TypeInv
<1>2. size' \in Nat
  BY <1>1 DEF Buffered, size
<1> QED BY <1>1, <1>2 DEF Positions

\* The list of pairs has its entries behind that of the address.
LEMMA FirstOfPairs ==
    ASSUME KnownMethod # {}, Sig = <<"ADDR", "PK_AMOUNT_PAIRS">>, num \in Nat
    PROVE  First(1) = 1
<1>1. Len(Sig) = 2 /\ Sig[1] = "ADDR"
  OBVIOUS
<1>2. /\ First(0) = 0
      /\ \A k \in 1 .. Len(Sig) : First(k) = First(k - 1) + Len(Entries(Sig[k], num))
  BY TheTable, FirstFacts
<1>3. 1 \in 1 .. Len(Sig) /\ 1 - 1 = 0
  BY <1>1
<1>4. First(1) = First(0) + Len(Entries("ADDR", num))
  BY <1>1, <1>2, <1>3
<1>5. Len(Entries("ADDR", num)) = 1 /\ First(0) = 0
  <2>1. Entries("ADDR", num) = <<"ADDR">>
    BY EntriesFacts DEF ParameterTypes, PARAM_KINDS
  <2> QED BY <1>2, <2>1
<1> QED BY <1>4, <1>5

LEMMA AtPairs ==
    ASSUME IInv, KInv, NextIs({"PK_AMOUNT_PAIRS"})
    PROVE  /\ stage = "params" /\ TheContract \in Contracts /\ TheMethod \in Methods(TheContract)
           /\ Sig = <<"ADDR", "PK_AMOUNT_PAIRS">> /\ Done = 1 /\ cur = 1
           /\ KnownMethod # {} /\ num \in Nat
<1>1. stage = "params" /\ todo # <<>> /\ Head(todo) = "PK_AMOUNT_PAIRS"
  BY DEF NextIs
<1>2. /\ KnownMethod # {} /\ num \in Nat /\ Done \in Nat /\ Done + 1 \in 1 .. Len(Sig)
      /\ Sig[Done + 1] = "PK_AMOUNT_PAIRS" /\ First(Done) = cur
  BY <1>1, AtParamHeld
<1>3. TheContract \in Contracts /\ TheMethod \in Methods(TheContract)
  BY <1>1, AtParamKinds
<1>4. Sig = <<"ADDR", "PK_AMOUNT_PAIRS">>
  BY <1>2, <1>3, SignatureTable DEF Sig
<1>5. Len(Sig) = 2 /\ Sig[1] = "ADDR"
  BY <1>4
<1>6. Done = 1
  BY <1>2, <1>5
<1>7. First(1) = 1
  BY <1>2, <1>4, FirstOfPairs
<1> QED BY <1>1, <1>2, <1>3, <1>4, <1>6, <1>7

LEMMA StartPairsHolds ==
    ASSUME IInv, KInv, HInv, IInv', StartPairs
    PROVE  HInv'
<1>1. NextIs({"PK_AMOUNT_PAIRS"})
  BY DEF StartPairs
<1>2. CASE Refuse
  BY <1>2, RefuseHolds
<1>3. CASE /\ PairsFit(offset) /\ Write(cur, <<AmountEntry(offset)>>)
           /\ num' = PairsCount(offset) /\ i' = 1
           /\ GoTo("keys", EndParam(parse_amount(offset))) /\ UNCHANGED <<buf, call, cur, todo>>
  <2>1. /\ stage = "params" /\ TheContract \in Contracts /\ TheMethod \in Methods(TheContract)
        /\ Sig = <<"ADDR", "PK_AMOUNT_PAIRS">> /\ Done = 1 /\ cur = 1
    BY <1>1, AtPairs
  <2>2. /\ buf' = buf /\ stage' = "keys" /\ i' = 1 /\ num' = PairsCount(offset) /\ SameCall
        /\ offset' = EndParam(parse_amount(offset))
    BY <1>3 DEF GoTo, call, SameCall
  <2>3. /\ CallFound' /\ NameFound' /\ Begin' = Begin /\ size' = size /\ Sig' = Sig
        /\ TheContract' = TheContract /\ TheMethod' = TheMethod
    BY <2>1, <2>2, CallAgain DEF HInv, CallHeld, CallStages, NameStages
  <2>4. num' \in Nat /\ num' # 0
    BY <1>3, <2>2 DEF PairsFit, IInv, TypeInv
  <2>5. params'[0] = params[0] /\ params'[1] = AmountEntry(offset)
    <3> DEFINE entries == <<AmountEntry(offset)>>
    <3>1. Write(1, entries) /\ Len(entries) = 1 /\ entries[1] = AmountEntry(offset)
          /\ 1 \in Nat /\ 1 \in 1 .. 1 /\ 0 \in 0 .. 1 - 1 /\ 1 + 1 - 1 = 1
      BY <1>3, <2>1
    <3>2. DOMAIN params = 0 .. 1 - 1
      BY <1>1, <2>1, AtParam, EntriesWritten
    <3> HIDE DEF entries
    <3>3. Extended(1, entries, 1)
      BY <3>1, <3>2, WrittenKeeps
    <3>4. /\ \A k \in 0 .. 1 - 1 : params'[k] = params[k]
          /\ \A k \in 1 .. 1 : params'[1 + k - 1] = entries[k]
      BY <3>3 DEF Extended
    <3> QED BY <3>1, <3>4
  <2>6. ReadTo(1)
    BY <2>1 DEF HInv, ParamsHeld
  <2>7. PICK at \in [0 .. 1 -> Nat] :
            /\ at[0] = Begin /\ at[0] <= size /\ at[1] = offset
            /\ \A k \in 1 .. 1 : ParamPiece(k, at[k - 1], at[k])
    BY <2>6 DEF ReadTo
  <2> DEFINE x == at[0]
             a == at[1]
  <2>8. x \in Nat /\ a \in Nat /\ x = Begin /\ x <= size /\ a = offset /\ ParamPiece(1, x, a)
    <3>1. 1 \in 1 .. 1 /\ 1 - 1 = 0 /\ 0 \in 0 .. 1 /\ 1 \in 0 .. 1
      OBVIOUS
    <3> QED BY <2>7, <3>1
  <2> HIDE DEF x, a
  <2>9. PICK b \in Nat : b = offset'
    BY OffsetNat
  <2>10. Sig[1] = "ADDR" /\ Sig'[1] = "ADDR"
    BY <2>1, <2>3
  <2>11. First(0) = 0 /\ First(0)' = 0
    <3>1. num \in Nat
      BY <1>1, AtPairs
    <3>2. PICK c \in Contracts, m \in Methods(TheContract), n \in Nat :
              c = TheContract /\ m = TheMethod /\ n = num'
      BY <2>1, <2>4
    <3>3. First(0)' = Len(Joins(Parts(c, m, n))[0])
      BY <2>3, <3>2 DEF First
    <3>4. First(0) = Len(Joins(Parts(c, m, num))[0])
      BY <3>2 DEF First
    <3> QED BY <3>1, <3>2, <3>3, <3>4, FirstOfAll
  <2>12. ParamPiece(1, x, a)'
    <3>1. Found(a)' /\ (Found(b)' <=> Found(b))
      BY <2>2, <2>8, ReadsAgain DEF ParamPiece
    <3>2. params[0] = SimpleEntry("ADDR", x) /\ a = Closed(SimpleEnd("ADDR", x))
      BY <2>8, <2>10, <2>11 DEF ParamPiece, SimpleKinds
    <3>3. /\ SimpleEntry("ADDR", x)' = SimpleEntry("ADDR", x)
          /\ Closed(SimpleEnd("ADDR", x))' = Closed(SimpleEnd("ADDR", x))
      BY <2>2, ParamsAgain DEF SimpleKinds
    <3>4. /\ SimpleEntry(Sig[1], x)' = SimpleEntry("ADDR", x)'
          /\ Closed(SimpleEnd(Sig[1], x))' = Closed(SimpleEnd("ADDR", x))'
      BY <2>10
    <3>5. First(1 - 1)' = 0
      BY <2>11
    <3> QED BY <2>5, <2>10, <3>1, <3>2, <3>3, <3>4, <3>5 DEF ParamPiece
  <2>13. Found(b)' /\ b = EndParam(parse_amount(a))'
    <3>1. EndParam(parse_amount(a))' = EndParam(parse_amount(a)) /\ (Found(b)' <=> Found(b))
      BY <2>2, ReadsAgain, ReadsOnAgain
    <3>2. Found(EndParam(parse_amount(offset)))
      BY <1>3 DEF PairsFit
    <3> QED BY <2>2, <2>8, <2>9, <3>1, <3>2
  <2>14. IsAmount(a, num)'
    <3>1. Found(parse_amount(a))
      <4>1. offset \in Places /\ Buffered
        BY <1>1, AtParam
      <4>2. parse_amount(offset) \in Places
        BY <4>1, AmountReads
      <4>3. PICK e \in Places : e = parse_amount(offset)
        BY <4>2
      <4>4. Found(EndParam(e))
        BY <1>3, <4>3 DEF PairsFit
      <4> QED BY <2>8, <4>1, <4>3, <4>4, EndPosition
    <3>2. PICK n \in Nat : n = num'
      BY <2>4
    <3>3. IsAmount(a, n)
      BY <1>3, <2>2, <2>8, <3>1, <3>2 DEF IsAmount, PairsFit, PairsCount
    <3>4. IsAmount(a, n)'
      BY <2>2, <3>3, ReadsOnAgain
    <3> QED BY <3>2, <3>4
  <2>15. PairPiece(1, a, b)'
    <3>1. params'[1] = AmountEntry(a)'
      BY <2>2, <2>5, <2>8, ReadsAgain
    <3>2. /\ 1 \notin 2 .. num' + 1 /\ 1 # num' + 2 /\ 1 # 2 * num' + 2
          /\ 1 \notin num' + 3 .. 2 * num' + 1
      BY <2>4, OneComesFirst
    <3> QED BY <2>13, <2>14, <3>1, <3>2 DEF PairPiece
  <2>16. PairsFound(1, a, b)'
    <3> DEFINE line == [q \in 0 .. 1 |-> IF q = 0 THEN a ELSE b]
    <3>1. line \in [0 .. 1 -> Nat] /\ line[0] = a /\ line[1] = b /\ \A q \in 1 .. 1 : q = 1
      BY <2>8, <2>9
    <3> HIDE DEF line
    <3>2. ASSUME NEW q \in 1 .. 1 PROVE PairPiece(q, line[q - 1], line[q])'
      <4>1. q = 1 /\ line[q - 1] = a /\ line[q] = b
        BY <3>1
      <4> QED BY <2>15, <4>1
    <3> QED BY <3>1, <3>2 DEF PairsFound
  <2>17. ParamPiece(1, Begin, a)' /\ PairsFound(i, a, offset)'
    BY <2>2, <2>3, <2>8, <2>9, <2>12, <2>16
  <2>18. PairsHeld'
    BY <2>2, <2>3, <2>4, <2>8, <2>17 DEF PairsHeld
  <2> QED BY <2>2, <2>3, <2>18 DEF HInv, CallHeld, ParamsHeld, TransfersHeld,
                 AcceptedHeld, CallStages, NameStages, Accepted
<1> QED BY <1>2, <1>3 DEF StartPairs

\* The pieces of a list of pairs that have been read.
PiecesRead == IF stage = "keys" THEN i ELSE num + 1 + i

\* The address in front of the list has one entry, which stays.
LEMMA StakerStays ==
    ASSUME IInv, KInv, stage \in {"keys", "amounts"}, SameCall, num' = num,
           params'[0] = params[0], NEW x, NEW a, ParamPiece(1, x, a)
    PROVE  ParamPiece(1, x, a)'
<1>1. Sig = <<"ADDR", "PK_AMOUNT_PAIRS">> /\ num \in Nat /\ AtSignature
  BY AtPeers
<1>2. KnownMethod # {}
  BY <1>1 DEF AtSignature
<1>3. Len(Sig) = 2 /\ Sig[1] = "ADDR"
  BY <1>1
<1>4. First(1) = 1
  BY <1>1, <1>2, FirstOfPairs
<1>5. 1 \in 1 .. Len(Sig) /\ \A j \in 0 .. First(1) - 1 : params'[j] = params[j]
  BY <1>3, <1>4
<1> QED BY <1>1, <1>2, <1>3, <1>5, PieceStays

LEMMA PairHolds ==
    ASSUME IInv, KInv, HInv, IInv', stage \in {"keys", "amounts"},
           stage' \in {"keys", "amounts"}, SameCall, num' = num,
           NEW m \in Nat, m = PiecesRead, PiecesRead' = m + 1,
           NEW n \in Nat, 1 <= n, m < n \/ (m <= n /\ num + 2 <= m),
           \A j \in 0 .. n - 1 : params'[j] = params[j],
           NEW b, b = offset, NEW d, d = offset', PairPiece(m + 1, b, d)'
    PROVE  HInv'
<1>1. /\ num # 0 /\ num \in Nat /\ Begin \in Nat /\ Begin <= size
      /\ \E a \in Nat : ParamPiece(1, Begin, a) /\ PairsFound(PiecesRead, a, offset)
  BY AtPeers DEF HInv, PairsHeld, PiecesRead
<1>2. PICK a \in Nat : ParamPiece(1, Begin, a) /\ PairsFound(m, a, b)
  BY <1>1
<1>3. /\ CallFound' /\ NameFound' /\ Begin' = Begin /\ size' = size
  BY CallAgain DEF HInv, CallHeld, CallStages, NameStages
<1>4. d \in Nat
  BY OffsetNat
<1>5. PairsFound(m + 1, a, d)'
  BY <1>1, <1>2, <1>4, PairsGrow
<1>6. PICK x : x = Begin
  OBVIOUS
<1>7. ParamPiece(1, x, a)'
  <2>1. params'[0] = params[0]
    OBVIOUS
  <2> QED BY <1>2, <1>6, <2>1, StakerStays
<1>8. ParamPiece(1, Begin, a)' /\ PairsFound(PiecesRead, a, offset)'
  BY <1>3, <1>5, <1>6, <1>7
<1>9. PairsHeld'
  BY <1>1, <1>3, <1>8 DEF PairsHeld, PiecesRead
<1> QED BY <1>3, <1>9 DEF HInv, CallHeld, ParamsHeld, TransfersHeld,
               AcceptedHeld, CallStages, NameStages, Accepted

\* A piece is one of these alone.
LEMMA PieceOfList ==
    ASSUME NEW n \in Nat, n # 0, NEW k \in 1 .. n
    PROVE  /\ k + 1 # 1 /\ k + 1 \in 2 .. n + 1 /\ k + 1 # n + 2 /\ k + 1 # 2 * n + 2
           /\ k + 1 \notin n + 3 .. 2 * n + 1
           /\ n + 2 # 1 /\ n + 2 \notin 2 .. n + 1 /\ n + 2 \notin n + 3 .. 2 * n + 1
           /\ n + 2 # 2 * n + 2
           /\ n + 2 + k # 1 /\ n + 2 + k \notin 2 .. n + 1 /\ n + 2 + k # n + 2
           /\ n + 2 + k \in n + 3 .. 2 * n + 1 <=> k # n
           /\ n + 2 + k = 2 * n + 2 <=> k = n
OBVIOUS

LEMMA PairKeyHolds ==
    ASSUME IInv, KInv, HInv, IInv', PairKey
    PROVE  HInv'
<1> DEFINE next == EndParam(parse_pk(offset))
<1>1. stage = "keys" /\ i <= num
  BY DEF PairKey
<1>2. CASE Refuse
  BY <1>2, RefuseHolds
<1>3. CASE /\ Found(next) /\ Write(cur + i, <<KeyEntry(offset)>>) /\ i' = i + 1
           /\ GoTo("keys", next) /\ UNCHANGED <<buf, call, cur, todo, num>>
  <2>1. /\ buf' = buf /\ stage' = "keys" /\ SameCall /\ num' = num /\ i' = i + 1
        /\ offset' = next
    BY <1>3 DEF GoTo, call, SameCall
  <2>2. /\ cur = 1 /\ num \in Nat /\ i \in Nat /\ 1 <= i /\ num # 0 /\ i \in 1 .. num
    BY <1>1, AtPeers
  <2>3. PICK m \in Nat : m = i
    BY <2>2
  <2>4. PICK b, d : b = offset /\ d = offset'
    OBVIOUS
  <2>5. /\ \A j \in 0 .. m : params'[j] = params[j]
        /\ params'[m + 1] = KeyEntry(b)
    <3> DEFINE entries == <<KeyEntry(b)>>
    <3>1. Write(1 + m, entries) /\ Len(entries) = 1 /\ entries[1] = KeyEntry(b)
          /\ 1 \in Nat /\ 1 \in 1 .. 1 /\ 1 + m \in Nat
      BY <1>3, <2>2, <2>3, <2>4
    <3>2. DOMAIN params = 0 .. (1 + m) - 1
      BY <1>1, <2>3, <2>4, AtPeers
    <3> HIDE DEF entries
    <3>3. Extended(1 + m, entries, 1)
      BY <3>1, <3>2, WrittenKeeps
    <3>4. /\ \A j \in 0 .. (1 + m) - 1 : params'[j] = params[j]
          /\ \A k \in 1 .. 1 : params'[(1 + m) + k - 1] = entries[k]
      BY <3>3 DEF Extended
    <3>5. (1 + m) + 1 - 1 = m + 1 /\ (1 + m) - 1 = m
      OBVIOUS
    <3> QED BY <3>1, <3>4, <3>5
  <2>6. Found(d)' /\ d = EndParam(parse_pk(b))'
    <3>1. EndParam(parse_pk(b))' = EndParam(parse_pk(b)) /\ (Found(d)' <=> Found(d))
      BY <2>1, ReadsAgain, ReadsOnAgain
    <3> QED BY <1>3, <2>1, <2>3, <2>4, <3>1
  <2>7. PairPiece(m + 1, b, d)'
    <3>1. /\ m + 1 # 1 /\ m + 1 # num' + 2 /\ m + 1 # 2 * num' + 2
          /\ m + 1 \notin num' + 3 .. 2 * num' + 1
      BY <2>1, <2>2, <2>3, <2>4, PieceOfList
    <3>2. params'[m + 1] = KeyEntry(b)'
      BY <2>5 DEF KeyEntry
    <3> QED BY <2>6, <3>1, <3>2 DEF PairPiece
  <2>8. m = PiecesRead /\ PiecesRead' = m + 1
    BY <1>1, <2>1, <2>3, <2>4 DEF PiecesRead
  <2>9. PICK n \in Nat : n = m + 1
    OBVIOUS
  <2>10. 1 <= n /\ m < n /\ \A j \in 0 .. n - 1 : params'[j] = params[j]
    BY <2>5, <2>9
  <2> QED BY <1>1, <2>1, <2>3, <2>4, <2>7, <2>8, <2>10, PairHolds
<1> QED BY <1>2, <1>3 DEF PairKey

LEMMA RepeatedCountHolds ==
    ASSUME IInv, KInv, HInv, IInv', RepeatedCount
    PROVE  HInv'
<1> DEFINE next == EndParam(parse_check_amount(offset, num))
<1>1. stage = "keys" /\ i > num
  BY DEF RepeatedCount
<1>2. CASE Refuse
  BY <1>2, RefuseHolds
<1>3. CASE /\ Found(next) /\ i' = 1 /\ GoTo("amounts", next) /\ UNCHANGED <<buf, call, list, num>>
  <2>1. /\ buf' = buf /\ stage' = "amounts" /\ SameCall /\ num' = num /\ i' = 1
        /\ offset' = next /\ params' = params
    BY <1>3 DEF GoTo, call, list, SameCall
  <2>2. num \in Nat /\ i \in Nat /\ i = num + 1 /\ num # 0
    <3>1. num \in Nat /\ i \in Nat /\ i <= num + 1
      BY <1>1, AtPeers
    <3> QED BY <1>1, <3>1 DEF HInv, PairsHeld
  <2>3. PICK m \in Nat, k \in Nat : m = i /\ k = num
    BY <2>2
  <2>4. PICK b, d : b = offset /\ d = offset'
    OBVIOUS
  <2>5. Found(d)' /\ d = EndParam(parse_check_amount(b, num))'
    <3>1. /\ EndParam(parse_check_amount(b, k))' = EndParam(parse_check_amount(b, k))
          /\ (Found(d)' <=> Found(d))
      BY <2>1, ReadsAgain, ReadsOnAgain
    <3>2. k = num'
      BY <2>1, <2>3, <2>4
    <3>3. EndParam(parse_check_amount(b, num))' = EndParam(parse_check_amount(b, k))'
      BY <3>2
    <3> QED BY <1>3, <2>1, <2>3, <2>4, <3>1, <3>3
  <2>6. PairPiece(m + 1, b, d)'
    <3>1. m + 1 = k + 2 /\ k # 0 /\ 1 \in 1 .. k /\ k = num'
      BY <2>1, <2>2, <2>3, <2>4
    <3>2. /\ m + 1 # 1 /\ m + 1 \notin 2 .. num' + 1 /\ m + 1 # 2 * num' + 2
          /\ m + 1 \notin num' + 3 .. 2 * num' + 1
      BY <3>1, PieceOfList, ZenonT(30)
    <3> QED BY <2>5, <3>2 DEF PairPiece
  <2>7. m = PiecesRead /\ PiecesRead' = m + 1
    BY <1>1, <2>1, <2>2, <2>3, <2>4 DEF PiecesRead
  <2>8. PICK n \in Nat : n = m + 1
    OBVIOUS
  <2>9. 1 <= n /\ m < n /\ \A j \in 0 .. n - 1 : params'[j] = params[j]
    BY <2>1, <2>8
  <2> QED BY <1>1, <2>1, <2>3, <2>4, <2>6, <2>7, <2>9, PairHolds
<1> QED BY <1>2, <1>3 DEF RepeatedCount

LEMMA PairAmountHolds ==
    ASSUME IInv, KInv, HInv, IInv', PairAmount
    PROVE  HInv'
<1> DEFINE end  == parse_amount(offset)
           next == IF i # num THEN EndParam(end) ELSE end
<1>1. stage = "amounts" /\ i <= num
  BY DEF PairAmount
<1>2. CASE Refuse
  BY <1>2, RefuseHolds
<1>3. CASE /\ Found(next) /\ Write(cur + num + i, <<AmountEntry(offset)>>) /\ i' = i + 1
           /\ GoTo("amounts", next) /\ UNCHANGED <<buf, call, cur, todo, num>>
  <2>1. /\ buf' = buf /\ stage' = "amounts" /\ SameCall /\ num' = num /\ i' = i + 1
        /\ offset' = next
    BY <1>3 DEF GoTo, call, SameCall
  <2>2. /\ cur = 1 /\ num \in Nat /\ i \in Nat /\ 1 <= i /\ num # 0 /\ i \in 1 .. num
    BY <1>1, AtPeers
  <2>3. PICK m \in Nat, k \in Nat : m = num + 1 + i /\ k = num
    BY <2>2
  <2>4. PICK b, d : b = offset /\ d = offset'
    OBVIOUS
  <2>5. /\ \A j \in 0 .. m - 1 : params'[j] = params[j]
        /\ params'[m] = AmountEntry(b)
    <3> DEFINE entries == <<AmountEntry(b)>>
    <3>1. Write(m, entries) /\ Len(entries) = 1 /\ entries[1] = AmountEntry(b)
          /\ 1 \in Nat /\ 1 \in 1 .. 1
      <4>1. m = cur + num + i
        BY <2>2, <2>3, <2>4
      <4> QED BY <1>3, <2>3, <2>4, <4>1
    <3>2. DOMAIN params = 0 .. m - 1
      <4>1. DOMAIN params = 0 .. (1 + num + i) - 1 /\ 1 + num + i = m
        BY <1>1, <2>2, <2>3, <2>4, AtPeers
      <4> QED BY <4>1
    <3> HIDE DEF entries
    <3>3. Extended(m, entries, 1)
      BY <3>1, <3>2, WrittenKeeps
    <3>4. m + 1 - 1 = m
      OBVIOUS
    <3> QED BY <3>1, <3>3, <3>4 DEF Extended
  <2>6. /\ Found(d)'
        /\ i # num => d = EndParam(parse_amount(b))'
        /\ i = num => d = parse_amount(b)'
    <3>1. /\ EndParam(parse_amount(b))' = EndParam(parse_amount(b))
          /\ parse_amount(b)' = parse_amount(b) /\ (Found(d)' <=> Found(d))
      BY <2>1, ReadsAgain, ReadsOnAgain
    <3> QED BY <1>3, <2>1, <2>3, <2>4, <3>1
  <2>7. PairPiece(m + 1, b, d)'
    <3>1. PICK j \in 1 .. k : j = i
      BY <2>2, <2>3, <2>4
    <3>2. m + 1 = k + 2 + j /\ k # 0 /\ k = num' /\ (m + 1) - 1 = m
      BY <2>1, <2>2, <2>3, <2>4, <3>1
    <3>3. /\ m + 1 # 1 /\ m + 1 \notin 2 .. num' + 1 /\ m + 1 # num' + 2
          /\ m + 1 \in num' + 3 .. 2 * num' + 1 <=> j # k
          /\ m + 1 = 2 * num' + 2 <=> j = k
      <4>1. /\ k + 2 + j # 1 /\ k + 2 + j \notin 2 .. k + 1 /\ k + 2 + j # k + 2
            /\ k + 2 + j \in k + 3 .. 2 * k + 1 <=> j # k
            /\ k + 2 + j = 2 * k + 2 <=> j = k
        <5>1. k \in Nat /\ k # 0 /\ j \in 1 .. k
          BY <3>2
        <5> QED BY <5>1, PieceOfList, Zenon
      <4> QED BY <3>2, <4>1
    <3>4. params'[(m + 1) - 1] = AmountEntry(b)'
      BY <2>1, <2>5, <3>2, ReadsAgain
    <3> QED BY <2>3, <2>4, <2>6, <3>1, <3>3, <3>4 DEF PairPiece
  <2>8. m = PiecesRead /\ PiecesRead' = m + 1
    BY <1>1, <2>1, <2>2, <2>3, <2>4 DEF PiecesRead
  <2>9. 1 <= m /\ m <= m /\ num + 2 <= m
    BY <2>2, <2>3, <2>4
  <2> QED BY <1>1, <2>1, <2>3, <2>4, <2>5, <2>7, <2>8, <2>9, PairHolds
<1> QED BY <1>2, <1>3 DEF PairAmount

-----------------------------------------------------------------------------
(* The end of a list of pairs and of the parameters.                       *)

LEMMA PairsAgain ==
    ASSUME SameCall, num \in Nat, num # 0, num' = num, params' = params,
           NEW m \in Nat, NEW a, NEW b, PairsFound(m, a, b)
    PROVE  PairsFound(m, a, b)'
<1>1. PICK at \in [0 .. m -> Nat] :
          /\ at[0] = a /\ at[m] = b
          /\ \A q \in 1 .. m : PairPiece(q, at[q - 1], at[q])
  BY DEF PairsFound
<1>2. ASSUME NEW q \in 1 .. m PROVE PairPiece(q, at[q - 1], at[q])'
  <2>1. PICK x, y : x = at[q - 1] /\ y = at[q]
    OBVIOUS
  <2>2. PairPiece(q, x, y) /\ q \in Nat
    BY <1>1, <2>1
  <2>3. PairPiece(q, x, y)'
    BY <2>2, PairStays
  <2> QED BY <2>1, <2>3
<1> QED BY <1>1, <1>2 DEF PairsFound

LEMMA PieceAgain ==
    ASSUME SameCall, KnownMethod # {}, num \in Nat, num' = num, params' = params,
           NEW k \in 1 .. Len(Sig), NEW a, NEW b, ParamPiece(k, a, b)
    PROVE  ParamPiece(k, a, b)'
<1>1. CASE Sig[k] # "PK_AMOUNT_PAIRS"
  BY <1>1, PieceStays
<1>2. CASE Sig[k] = "PK_AMOUNT_PAIRS"
  <2>1. Found(b) /\ num # 0
    BY <1>2 DEF ParamPiece
  <2>2. PICK z \in Nat : PairsFound(2 * num + 2, a, z) /\ b = Closed(z)
    BY <1>2 DEF ParamPiece
  <2>3. PICK m \in Nat : m = 2 * num + 2
    OBVIOUS
  <2>4. PairsFound(m, a, z)'
    BY <2>1, <2>2, <2>3, PairsAgain
  <2>5. m = 2 * num' + 2
    BY <2>3
  <2>6. PairsFound(2 * num + 2, a, z)'
    BY <2>4, <2>5
  <2>7. Closed(z)' = Closed(z) /\ Sig' = Sig
    BY ParamsAgain, CallAgain
  <2>8. Found(b)'
    BY <2>1, CallAgain, ReadsAgain
  <2> QED BY <1>2, <2>1, <2>2, <2>6, <2>7, <2>8 DEF ParamPiece, SimpleKinds
<1> QED BY <1>1, <1>2

LEMMA PlacesAgain ==
    ASSUME SameCall, KnownMethod # {}, num \in Nat, num' = num, params' = params,
           NEW n \in Nat, n <= Len(Sig), NEW at,
           \A k \in 1 .. n : ParamPiece(k, at[k - 1], at[k])
    PROVE  \A k \in 1 .. n : ParamPiece(k, at[k - 1], at[k])'
<1>1. ASSUME NEW k \in 1 .. n PROVE ParamPiece(k, at[k - 1], at[k])'
  <2>1. PICK x, y : x = at[k - 1] /\ y = at[k]
    OBVIOUS
  <2>2. k \in 1 .. Len(Sig)
    <3>1. Len(Sig) \in Nat
      BY TheTable, FirstFacts
    <3> QED BY <3>1
  <2>3. ParamPiece(k, x, y)
    BY <2>1
  <2>4. ParamPiece(k, x, y)'
    BY <2>2, <2>3, PieceAgain
  <2> QED BY <2>1, <2>4
<1> QED BY <1>1

LEMMA ParamsStandAgain ==
    ASSUME SameCall, KnownMethod # {}, num \in Nat, num' = num, params' = params,
           NEW at, Places0(at), at[0] = Begin,
           offset' = BehindParams(at[Len(Sig)]), Found(offset')
    PROVE  ParamsStand'
<1>1. buf' = buf /\ Begin' = Begin /\ size' = size /\ Sig' = Sig
  BY CallAgain
<1>2. Len(Sig) \in Nat
  BY TheTable, FirstFacts
<1>3. /\ at \in [0 .. Len(Sig) -> Nat] /\ at[0] <= size
      /\ \A k \in 1 .. Len(Sig) : ParamPiece(k, at[k - 1], at[k])
  BY DEF Places0
<1>4. PICK n \in Nat : n = Len(Sig)
  BY <1>2
<1>5. \A k \in 1 .. n : ParamPiece(k, at[k - 1], at[k])'
  <2>1. n <= Len(Sig) /\ \A k \in 1 .. n : ParamPiece(k, at[k - 1], at[k])
    BY <1>2, <1>3, <1>4
  <2> QED BY <2>1, PlacesAgain
<1>6. Places0(at)'
  BY <1>1, <1>3, <1>4, <1>5 DEF Places0
<1>7. PICK last, end : last = at[n] /\ end = offset'
  OBVIOUS
<1>8. BehindParams(last)' = BehindParams(last) /\ (Found(end)' <=> Found(end))
  BY <1>1, ParamsAgain, ReadsAgain
<1>9. last = at[Len(Sig)]'
  BY <1>1, <1>4, <1>7
<1>10. BehindParams(at[Len(Sig)])' = BehindParams(last)'
  BY <1>9
<1>11. offset' = BehindParams(at[Len(Sig)])' /\ Found(offset)'
  BY <1>4, <1>7, <1>8, <1>10
<1>12. at[0] = Begin'
  BY <1>1
<1> QED BY <1>6, <1>11, <1>12 DEF ParamsStand

LEMMA EndPairsHolds ==
    ASSUME IInv, KInv, HInv, IInv', EndPairs
    PROVE  HInv'
<1>1. stage = "amounts" /\ i > num
  BY DEF EndPairs
<1>2. CASE Refuse
  BY <1>2, RefuseHolds
<1>3. CASE /\ Found(Closed(offset)) /\ todo' = Tail(todo) /\ GoTo("params", Closed(offset))
           /\ UNCHANGED <<buf, call, params, num, i>>
  <2>1. /\ buf' = buf /\ stage' = "params" /\ todo' = Tail(todo) /\ offset' = Closed(offset)
        /\ num' = num /\ params' = params /\ SameCall
    BY <1>3 DEF GoTo, call, SameCall
  <2>2. /\ Sig = <<"ADDR", "PK_AMOUNT_PAIRS">> /\ num \in Nat /\ i \in Nat /\ i <= num + 1
        /\ AtSignature
    BY <1>1, AtPeers
  <2>3. KnownMethod # {}
    BY <2>2 DEF AtSignature
  <2>4. Len(Sig) = 2 /\ Sig[2] = "PK_AMOUNT_PAIRS" /\ Sig[2] # "ADDR"
    BY <2>2
  <2>5. /\ CallFound' /\ NameFound' /\ Begin' = Begin /\ size' = size /\ Sig' = Sig
    BY <1>1, <2>1, CallAgain DEF HInv, CallHeld, CallStages, NameStages
  <2>6. num # 0 /\ Begin \in Nat /\ Begin <= size
    BY <1>1 DEF HInv, PairsHeld
  <2>7. PICK a \in Nat : ParamPiece(1, Begin, a) /\ PairsFound(num + 1 + i, a, offset)
    BY <1>1 DEF HInv, PairsHeld
  <2>8. PairsFound(2 * num + 2, a, offset)
    <3>1. num + 1 + i = 2 * num + 2
      BY <1>1, <2>2
    <3> QED BY <2>7, <3>1
  <2>9. PICK x \in Nat : x = Begin
    BY <2>6
  <2>10. PICK d \in Nat : d = offset'
    BY OffsetNat
  <2>11. ParamPiece(1, x, a)'
    <3>1. 1 \in 1 .. Len(Sig) /\ ParamPiece(1, x, a)
      BY <2>4, <2>7, <2>9
    <3> QED BY <2>1, <2>2, <2>3, <3>1, PieceAgain
  <2>12. ParamPiece(2, a, d)'
    <3>1. offset \in Nat
      BY <1>1, AtPair
    <3>2. Found(d) /\ d = Closed(offset)
      BY <1>3, <2>1, <2>10
    <3>3. ParamPiece(2, a, d)
      BY <2>4, <2>6, <2>8, <3>1, <3>2 DEF ParamPiece, SimpleKinds
    <3>4. 2 \in 1 .. Len(Sig)
      BY <2>4
    <3> QED BY <2>1, <2>2, <2>3, <3>3, <3>4, PieceAgain
  <2>13. ReadTo(2)'
    <3> DEFINE at == [k \in 0 .. 2 |-> IF k = 0 THEN x ELSE IF k = 1 THEN a ELSE d]
    <3>1. /\ at \in [0 .. 2 -> Nat] /\ at[0] = x /\ at[1] = a /\ at[2] = d
          /\ \A k \in 1 .. 2 : k = 1 \/ k = 2
      OBVIOUS
    <3> HIDE DEF at
    <3>2. ASSUME NEW k \in 1 .. 2 PROVE ParamPiece(k, at[k - 1], at[k])'
      <4>1. CASE k = 1
        <5>1. at[k - 1] = x /\ at[k] = a
          BY <3>1, <4>1
        <5> QED BY <2>11, <4>1, <5>1
      <4>2. CASE k = 2
        <5>1. at[k - 1] = a /\ at[k] = d
          BY <3>1, <4>2
        <5> QED BY <2>12, <4>2, <5>1
      <4> QED BY <3>1, <4>1, <4>2
    <3>3. at[0] = Begin' /\ at[0] <= size' /\ at[2] = offset'
      BY <2>5, <2>6, <2>9, <2>10, <3>1
    <3> QED BY <3>1, <3>2, <3>3 DEF ReadTo
  <2>14. Done' = 2
    <3>1. Len(todo) = 1 /\ todo \in Seq(ParameterTypes)
      BY <1>1, AtPair DEF IInv, TypeInv
    <3>2. Len(Tail(todo)) = 0
      BY <3>1
    <3>3. Len(todo') = 0
      BY <2>1, <3>2
    <3> QED BY <2>4, <2>5, <3>3 DEF Done
  <2>15. ParamsHeld'
    BY <2>13, <2>14 DEF ParamsHeld
  <2> QED BY <2>1, <2>5, <2>15 DEF HInv, CallHeld, PairsHeld, TransfersHeld,
                 AcceptedHeld, CallStages, NameStages, Accepted
<1> QED BY <1>2, <1>3 DEF EndPairs
-----------------------------------------------------------------------------

\* A call is accepted, or not, at a position behind its parameters.
LEMMA CloseHolds ==
    ASSUME stage \in NameStages, HInv, NEW at, Close(at),
           stage' = "PARSING_OK" /\ SameCall /\ UNCHANGED <<list, loop>>
                   /\ offset' = at /\ Found(at) =>
               IF IsTransferList THEN TransfersStand' ELSE ParamsStand'
    PROVE  HInv'
<1>1. CASE Refuse
  BY <1>1, RefuseHolds
<1>2. CASE Found(at) /\ Skip(Measured(at), at)
  <2>1. /\ stage' = Measured(at) /\ offset' = at /\ buf' = buf /\ SameCall
        /\ UNCHANGED <<list, loop>>
    BY <1>2 DEF Skip, GoTo, call, SameCall
  <2>2. CASE Measured(at) = "PARSING_OK"
    <3>1. at + (IF Wasm THEN 0 ELSE name.len + 1 + ConstantLength) = size
      BY <2>2 DEF Measured
    <3>2. /\ CallFound' /\ NameFound' /\ (Wasm' <=> Wasm) /\ size' = size /\ name' = name
          /\ ConstantLength' = ConstantLength /\ (IsTransferList' <=> IsTransferList)
      BY <2>1, CallAgain DEF HInv, CallHeld, CallStages, NameStages, SameCall
    <3>3. AllMeasured'
      BY <2>1, <3>1, <3>2 DEF AllMeasured
    <3>4. AcceptedHeld'
      BY <1>2, <2>1, <2>2, <3>2, <3>3 DEF AcceptedHeld
    <3> QED BY <2>1, <2>2, <3>2, <3>4 DEF HInv, CallHeld, ParamsHeld, PairsHeld, TransfersHeld,
                   CallStages, NameStages
  <2>3. CASE Measured(at) = "PARSING_LENGTH_WRONG"
    BY <2>1, <2>3 DEF HInv, CallHeld, ParamsHeld, PairsHeld, TransfersHeld, AcceptedHeld,
                      CallStages, NameStages, Accepted
  <2> QED BY <2>2, <2>3 DEF Measured
<1> QED BY <1>1, <1>2 DEF Close

LEMMA EndParamsHolds ==
    ASSUME IInv, KInv, HInv, EndParams
    PROVE  HInv'
<1>1. stage = "params" /\ todo = <<>>
  BY DEF EndParams
<1>2. /\ AtSignature /\ num \in Nat /\ Len(Sig) \in Nat
  BY <1>1, AtParamKinds
<1>3. KnownMethod # {} /\ ~IsTransferList
  BY <1>2 DEF AtSignature
<1>4. Done = Len(Sig)
  <2>1. Len(todo) = 0
    BY <1>1
  <2> QED BY <1>2, <2>1 DEF Done
<1>5. ReadTo(Len(Sig))
  BY <1>1, <1>4 DEF HInv, ParamsHeld
<1>6. Close(BehindParams(offset))
  BY DEF EndParams, BehindParams, Sig
<1>7. PICK end : end = BehindParams(offset)
  OBVIOUS
<1>8. ASSUME SameCall, UNCHANGED <<list, loop>>, offset' = end, Found(end)
      PROVE  ParamsStand'
  <2>1. PICK at \in [0 .. Len(Sig) -> Nat] :
            /\ at[0] = Begin /\ at[0] <= size /\ at[Len(Sig)] = offset
            /\ \A k \in 1 .. Len(Sig) : ParamPiece(k, at[k - 1], at[k])
    BY <1>5 DEF ReadTo
  <2>2. num' = num /\ params' = params
    BY <1>8 DEF list, loop
  <2>3. Places0(at) /\ offset' = BehindParams(at[Len(Sig)]) /\ Found(offset')
    BY <1>7, <1>8, <2>1 DEF Places0
  <2> QED BY <1>2, <1>3, <1>8, <2>1, <2>2, <2>3, ParamsStandAgain
<1> QED BY <1>1, <1>3, <1>6, <1>7, <1>8, CloseHolds DEF NameStages, CallStages

-----------------------------------------------------------------------------
(* Transfers.                                                              *)

\* A transfer's entries stay, if those written so far do.
LEMMA StateStays ==
    ASSUME buf' = buf, NEW n \in Nat, \A j \in 0 .. 3 * n - 1 : params'[j] = params[j],
           NEW k \in 1 .. n, NEW a, NEW b, StatePiece(k, a, b)
    PROVE  StatePiece(k, a, b)'
<1>1. /\ Found(b) /\ b = StateEnd(a)
      /\ \A j \in 1 .. 3 : params[3 * (k - 1) + j - 1] = StateEntries(a)[j]
  BY DEF StatePiece
<1>2. /\ Found(b)' <=> Found(b)
      /\ StateEnd(a)' = StateEnd(a) /\ StateEntries(a)' = StateEntries(a)
  BY ReadsAgain, ReadsOnAgain
<1>3. ASSUME NEW j \in 1 .. 3
      PROVE  params'[3 * (k - 1) + j - 1] = StateEntries(a)'[j]
  <2>1. 3 * (k - 1) + j - 1 \in 0 .. 3 * n - 1
    OBVIOUS
  <2> QED BY <1>1, <1>2, <2>1
<1> QED BY <1>1, <1>2, <1>3 DEF StatePiece

LEMMA TransferHolds ==
    ASSUME IInv, KInv, HInv, IInv', Transfer
    PROVE  HInv'
<1>1. stage = "transfers"
  BY DEF Transfer
<1>2. CASE Refuse
  BY <1>2, RefuseHolds
<1>3. CASE /\ Found(StateEnd(offset)) /\ Write(cur, StateEntries(offset))
           /\ i' = i + 1 /\ GoTo("transfers", StateEnd(offset))
           /\ UNCHANGED <<buf, call, todo, num>>
  <2>1. /\ buf' = buf /\ stage' = "transfers" /\ SameCall /\ i' = i + 1
        /\ offset' = StateEnd(offset)
    BY <1>3 DEF GoTo, call, SameCall
  <2>2. i \in Nat /\ cur \in Nat /\ cur = 3 * i /\ DOMAIN params = 0 .. cur - 1
    BY <1>1, AtTransfers
  <2>3. PICK m \in Nat : m = i
    BY <2>2
  <2>4. PICK b, d : b = offset /\ d = offset'
    OBVIOUS
  <2>5. d \in Nat
    BY <2>4, OffsetNat
  <2>6. /\ \A j \in 0 .. 3 * m - 1 : params'[j] = params[j]
        /\ \A j \in 1 .. 3 : params'[3 * m + j - 1] = StateEntries(b)[j]
    <3> DEFINE entries == StateEntries(b)
               n == 3 * m
    <3>1. n \in Nat /\ n = cur
      BY <2>2, <2>3
    <3>2. Write(n, entries) /\ Len(entries) = 3 /\ 3 \in Nat /\ DOMAIN params = 0 .. n - 1
      BY <1>3, <2>2, <2>4, <3>1 DEF StateEntries
    <3> HIDE DEF entries, n
    <3>3. Extended(n, entries, 3)
      BY <3>1, <3>2, WrittenKeeps
    <3>4. /\ \A j \in 0 .. n - 1 : params'[j] = params[j]
          /\ \A j \in 1 .. 3 : params'[n + j - 1] = entries[j]
      BY <3>3 DEF Extended
    <3> QED BY <3>4 DEF entries, n
  <2>7. StatePiece(m + 1, b, d)'
    <3>1. /\ StateEnd(b)' = StateEnd(b) /\ StateEntries(b)' = StateEntries(b)
          /\ (Found(d)' <=> Found(d))
      BY <2>1, ReadsAgain, ReadsOnAgain
    <3>2. Found(d)' /\ d = StateEnd(b)'
      BY <1>3, <2>1, <2>4, <3>1
    <3>3. 3 * ((m + 1) - 1) = 3 * m
      OBVIOUS
    <3> QED BY <2>6, <3>1, <3>2, <3>3 DEF StatePiece
  <2>8. PICK at : States0(at) /\ at[m] = b
    BY <1>1, <2>3, <2>4 DEF HInv, TransfersHeld
  <2>9. /\ at \in [0 .. m -> Nat] /\ at[0] = Start
        /\ \A k \in 1 .. m : StatePiece(k, at[k - 1], at[k])
    BY <2>3, <2>8 DEF States0
  <2> DEFINE longer == [k \in 0 .. m + 1 |-> IF k = m + 1 THEN d ELSE at[k]]
  <2>10. \A k \in 0 .. m : longer[k] = at[k]
    OBVIOUS
  <2>11. longer[m + 1] = d /\ longer \in [0 .. m + 1 -> Nat]
    BY <2>5, <2>9
  <2> HIDE DEF longer
  <2>12. ASSUME NEW k \in 1 .. m + 1 PROVE StatePiece(k, longer[k - 1], longer[k])'
    <3>1. CASE k \in 1 .. m
      <4>1. PICK x, y : x = at[k - 1] /\ y = at[k]
        OBVIOUS
      <4>2. longer[k - 1] = x /\ longer[k] = y
        BY <2>10, <3>1, <4>1
      <4>3. StatePiece(k, x, y)
        BY <2>9, <3>1, <4>1
      <4>4. StatePiece(k, x, y)'
        BY <2>1, <2>6, <3>1, <4>3, StateStays
      <4> QED BY <4>2, <4>4
    <3>2. CASE k = m + 1
      <4>1. longer[k - 1] = b /\ longer[k] = d
        BY <2>8, <2>10, <2>11, <3>2
      <4> QED BY <2>7, <3>2, <4>1
    <3> QED BY <3>1, <3>2
  <2>13. CallFound' /\ NameFound' /\ Start' = Start
    BY <1>1, <2>1, CallAgain DEF HInv, CallHeld, CallStages, NameStages
  <2>14. i' = m + 1 /\ longer[0] = Start'
    BY <2>1, <2>3, <2>9, <2>10, <2>13
  <2>15. States0(longer)' /\ longer[i'] = offset'
    BY <2>4, <2>11, <2>12, <2>14 DEF States0
  <2>16. TransfersHeld'
    BY <2>15 DEF TransfersHeld
  <2> QED BY <2>1, <2>13, <2>16 DEF HInv, CallHeld, ParamsHeld, PairsHeld,
                 AcceptedHeld, CallStages, NameStages, Accepted
<1> QED BY <1>2, <1>3 DEF Transfer

LEMMA TransfersStandAgain ==
    ASSUME buf' = buf, params' = params, i \in Nat, i' = i, NEW at, States0(at),
           offset' = parse_check_constant(parse_check_amount(at[i], i), OPCODE_PACK),
           Found(offset')
    PROVE  TransfersStand'
<1> DEFINE behind(a, n) == parse_check_constant(parse_check_amount(a, n), OPCODE_PACK)
<1>1. PICK m, last, end : m \in Nat /\ m = i /\ last = at[i] /\ end = offset'
  OBVIOUS
<1>2. /\ at \in [0 .. m -> Nat] /\ at[0] = Start
      /\ \A k \in 1 .. m : StatePiece(k, at[k - 1], at[k])
  BY <1>1 DEF States0
<1>3. ASSUME NEW k \in 1 .. m PROVE StatePiece(k, at[k - 1], at[k])'
  <2>1. PICK x, y : x = at[k - 1] /\ y = at[k]
    OBVIOUS
  <2>2. StatePiece(k, x, y)
    BY <1>2, <2>1
  <2>3. StatePiece(k, x, y)'
    BY <1>1, <2>2, StateStays
  <2> QED BY <2>1, <2>3
<1>4. Start' = Start /\ i' = m
  BY <1>1, SameBuffer
<1>5. States0(at)'
  BY <1>2, <1>3, <1>4 DEF States0
<1>6. behind(last, m)' = behind(last, m) /\ (Found(end)' <=> Found(end))
  BY ReadsAgain, ReadsOnAgain
<1>7. m = i' /\ last = at[i']
  BY <1>1
<1>8. behind(at[i], i)' = behind(last, m)'
  BY <1>7
<1>9. offset' = behind(at[i], i)' /\ Found(offset)'
  BY <1>1, <1>6, <1>8
<1> QED BY <1>5, <1>9 DEF TransfersStand

LEMMA EndTransfersHolds ==
    ASSUME IInv, KInv, HInv, EndTransfers
    PROVE  HInv'
<1> DEFINE behind(a, n) == parse_check_constant(parse_check_amount(a, n), OPCODE_PACK)
<1>1. stage = "transfers"
  BY DEF EndTransfers
<1>2. IsTransferList /\ i \in Nat
  BY <1>1, AtTransfers
<1>3. PICK at : States0(at) /\ at[i] = offset
  BY <1>1 DEF HInv, TransfersHeld
<1>4. PICK end : end = behind(offset, i)
  OBVIOUS
<1>5. Close(end)
  BY <1>4 DEF EndTransfers
<1>6. ASSUME SameCall, UNCHANGED <<list, loop>>, offset' = end, Found(end)
      PROVE  TransfersStand'
  <2>1. i' = i /\ params' = params /\ buf' = buf
    BY <1>6 DEF list, loop, SameCall
  <2>2. offset' = behind(at[i], i) /\ Found(offset')
    BY <1>3, <1>4, <1>6
  <2> QED BY <1>2, <1>3, <2>1, <2>2, TransfersStandAgain
<1> QED BY <1>1, <1>2, <1>5, <1>6, CloseHolds DEF NameStages, CallStages

-----------------------------------------------------------------------------
(* When nothing happens, nothing changes.                                  *)

LEMMA CallStutters ==
    ASSUME SameCall, stage' = stage, offset' = offset, CallHeld
    PROVE  CallHeld'
<1>1. /\ buf' = buf /\ (CallFound' <=> CallFound) /\ (NameFound' <=> NameFound)
      /\ Start' = Start /\ Behind20' = Behind20 /\ (Wasm' <=> Wasm)
  BY CallAgain
<1>2. PICK x : x = Behind20 + 1
  OBVIOUS
<1>3. x = (Behind20 + 1)'
  BY <1>1, <1>2
<1>4. parse_method_name(x)' = parse_method_name(x)
  BY <1>1, ReadsAgain
<1>5. parse_method_name(Behind20 + 1)' = parse_method_name(Behind20 + 1)
  BY <1>2, <1>3, <1>4
<1> QED BY <1>1, <1>5 DEF CallHeld, CallStages, NameStages

LEMMA ParamsStutter ==
    ASSUME IInv, KInv, SameCall, UNCHANGED <<stage, offset, params, todo, num>>, ParamsHeld
    PROVE  ParamsHeld'
<1> SUFFICES ASSUME stage = "params" PROVE ReadTo(Done)'
  BY DEF ParamsHeld
<1>1. KnownMethod # {} /\ num \in Nat /\ Done \in 0 .. Len(Sig) /\ Len(Sig) \in Nat
  BY AtParamKinds DEF AtSignature
<1>2. PICK n \in Nat : n = Done
  BY <1>1
<1>3. n <= Len(Sig) /\ ReadTo(n)
  BY <1>1, <1>2 DEF ParamsHeld
<1>4. PICK at \in [0 .. n -> Nat] :
          /\ at[0] = Begin /\ at[0] <= size /\ at[n] = offset
          /\ \A k \in 1 .. n : ParamPiece(k, at[k - 1], at[k])
  BY <1>3 DEF ReadTo
<1>5. \A k \in 1 .. n : ParamPiece(k, at[k - 1], at[k])'
  BY <1>1, <1>3, <1>4, PlacesAgain
<1>6. Begin' = Begin /\ size' = size /\ Sig' = Sig
  BY CallAgain
<1>7. ReadTo(n)'
  BY <1>4, <1>5, <1>6 DEF ReadTo
<1>8. n = Done'
  BY <1>2, <1>6 DEF Done
<1> QED BY <1>7, <1>8

LEMMA PairsStutter ==
    ASSUME IInv, KInv, SameCall, UNCHANGED <<stage, offset, params, num, i>>, PairsHeld
    PROVE  PairsHeld'
<1> SUFFICES ASSUME stage \in {"keys", "amounts"}
             PROVE  /\ num' # 0 /\ Begin' \in Nat /\ Begin' <= size'
                    /\ \E a \in Nat :
                           ParamPiece(1, Begin, a)' /\ PairsFound(PiecesRead, a, offset)'
  BY DEF PairsHeld, PiecesRead
<1>1. num # 0 /\ Begin \in Nat /\ Begin <= size
  BY DEF PairsHeld
<1>2. PICK a \in Nat : ParamPiece(1, Begin, a) /\ PairsFound(PiecesRead, a, offset)
  BY DEF PairsHeld, PiecesRead
<1>3. num \in Nat /\ i \in Nat /\ params'[0] = params[0]
  BY AtPeers
<1>4. PICK m \in Nat : m = PiecesRead
  BY <1>3 DEF PiecesRead
<1>5. PICK x, b : x = Begin /\ b = offset
  OBVIOUS
<1>6. ParamPiece(1, x, a)'
  BY <1>2, <1>3, <1>5, StakerStays
<1>7. PairsFound(m, a, b)'
  BY <1>1, <1>2, <1>3, <1>4, <1>5, PairsAgain
<1>8. Begin' = Begin /\ size' = size /\ m = PiecesRead'
  BY <1>4, CallAgain DEF PiecesRead
<1>9. ParamPiece(1, Begin, a)' /\ PairsFound(PiecesRead, a, offset)'
  BY <1>5, <1>6, <1>7, <1>8
<1> QED BY <1>1, <1>8, <1>9

LEMMA TransfersStutter ==
    ASSUME IInv, KInv, SameCall, UNCHANGED <<stage, offset, params, i>>, TransfersHeld
    PROVE  TransfersHeld'
<1> SUFFICES ASSUME stage = "transfers" PROVE \E at : States0(at)' /\ at[i'] = offset'
  BY DEF TransfersHeld
<1>1. PICK at : States0(at) /\ at[i] = offset
  BY DEF TransfersHeld
<1>2. PICK m \in Nat : m = i
  BY AtTransfers
<1>3. /\ at \in [0 .. m -> Nat] /\ at[0] = Start
      /\ \A k \in 1 .. m : StatePiece(k, at[k - 1], at[k])
  BY <1>1, <1>2 DEF States0
<1>4. ASSUME NEW k \in 1 .. m PROVE StatePiece(k, at[k - 1], at[k])'
  <2>1. PICK x, y : x = at[k - 1] /\ y = at[k]
    OBVIOUS
  <2>2. StatePiece(k, x, y)
    BY <1>3, <2>1
  <2>3. StatePiece(k, x, y)'
    BY <2>2, StateStays DEF SameCall
  <2> QED BY <2>1, <2>3
<1>5. Start' = Start /\ i' = m
  BY <1>2, CallAgain
<1>6. States0(at)'
  BY <1>3, <1>4, <1>5 DEF States0
<1> QED BY <1>1, <1>6

LEMMA AcceptedStutters ==
    ASSUME IInv, KInv, SameCall, UNCHANGED <<stage, offset, params, num, i>>, AcceptedHeld
    PROVE  AcceptedHeld'
<1> SUFFICES ASSUME Accepted
             PROVE  AllMeasured' /\ IF IsTransferList' THEN TransfersStand' ELSE ParamsStand'
  BY DEF AcceptedHeld, Accepted
<1>1. KnownMethod # {} /\ num \in Nat /\ i \in Nat
  BY DEF KInv, AllRead, IInv, TypeInv
<1>2. /\ (Wasm' <=> Wasm) /\ ConstantLength' = ConstantLength /\ size' = size /\ name' = name
      /\ (IsTransferList' <=> IsTransferList) /\ buf' = buf
  BY CallAgain DEF SameCall
<1>3. AllMeasured'
  BY <1>2 DEF AcceptedHeld, AllMeasured
<1>4. CASE IsTransferList
  <2>1. PICK at : /\ States0(at)
                  /\ offset = parse_check_constant(parse_check_amount(at[i], i), OPCODE_PACK)
                  /\ Found(offset)
    BY <1>4 DEF AcceptedHeld, TransfersStand
  <2>2. offset' = parse_check_constant(parse_check_amount(at[i], i), OPCODE_PACK)
        /\ Found(offset')
    BY <2>1
  <2> QED BY <1>1, <1>2, <1>3, <1>4, <2>1, <2>2, TransfersStandAgain
<1>5. CASE ~IsTransferList
  <2>1. PICK at : /\ Places0(at) /\ at[0] = Begin
                  /\ offset = BehindParams(at[Len(Sig)]) /\ Found(offset)
    BY <1>5 DEF AcceptedHeld, ParamsStand
  <2>2. offset' = BehindParams(at[Len(Sig)]) /\ Found(offset')
    BY <2>1
  <2> QED BY <1>1, <1>2, <1>3, <1>5, <2>1, <2>2, ParamsStandAgain
<1> QED BY <1>4, <1>5

LEMMA StutterHolds ==
    ASSUME IInv, KInv, HInv, UNCHANGED vars
    PROVE  HInv'
<1>1. SameCall /\ UNCHANGED <<stage, offset, params, todo, num, i>>
  BY DEF vars, call, list, loop, SameCall
<1>2. CallHeld' /\ ParamsHeld' /\ PairsHeld'
  BY <1>1, CallStutters, ParamsStutter, PairsStutter DEF HInv
<1>3. TransfersHeld' /\ AcceptedHeld'
  BY <1>1, TransfersStutter, AcceptedStutters DEF HInv
<1> QED BY <1>2, <1>3 DEF HInv
-----------------------------------------------------------------------------

LEMMA EveryStepHolds ==
    ASSUME IInv, KInv, HInv, IInv', [Next]_vars
    PROVE  HInv'
<1>1. CASE Header
  BY <1>1, HeaderHolds
<1>2. CASE PayloadSize
  BY <1>2, PayloadSizeHolds
<1>3. CASE Contract
  BY <1>3, ContractHolds
<1>4. CASE WasmMethod
  BY <1>4, WasmMethodHolds
<1>5. CASE Method
  BY <1>5, MethodHolds
<1>6. CASE StartTransfers
  BY <1>6, StartTransfersHolds
<1>7. CASE StartParams
  BY <1>7, StartParamsHolds
<1>8. CASE SimpleParam
  BY <1>8, SimpleParamHolds
<1>9. CASE OntId
  BY <1>9, OntIdHolds
<1>10. CASE TransferStateParam
  BY <1>10, TransferStateParamHolds
<1>11. CASE ListParam
  BY <1>11, ListParamHolds
<1>12. CASE StartPairs
  BY <1>12, StartPairsHolds
<1>13. CASE PairKey
  BY <1>13, PairKeyHolds
<1>14. CASE RepeatedCount
  BY <1>14, RepeatedCountHolds
<1>15. CASE PairAmount
  BY <1>15, PairAmountHolds
<1>16. CASE EndPairs
  BY <1>16, EndPairsHolds
<1>17. CASE EndParams
  BY <1>17, EndParamsHolds
<1>18. CASE Transfer
  BY <1>18, TransferHolds
<1>19. CASE EndTransfers
  BY <1>19, EndTransfersHolds
<1>20. CASE Ended \/ UNCHANGED vars
  BY <1>20, StutterHolds DEF Ended
<1> QED BY <1>1, <1>2, <1>3, <1>4, <1>5, <1>6, <1>7, <1>8, <1>9, <1>10, <1>11, <1>12, <1>13,
           <1>14, <1>15, <1>16, <1>17, <1>18, <1>19, <1>20 DEF Next

\* The pieces that have been found, and where, stay found to the end.
THEOREM FindingInvariance == Spec => []HInv
<1>1. Init => HInv
  BY InitHolds
<1>2. IInv /\ KInv /\ HInv /\ IInv' /\ [Next]_vars => HInv'
  BY EveryStepHolds
<1> QED BY <1>1, <1>2, Invariance, ReadingInvariance, PTL DEF Spec

LEMMA AllExplained == IInv /\ KInv /\ HInv => Explained
<1> SUFFICES ASSUME IInv, KInv, HInv, Accepted PROVE Explained
  BY DEF Explained
<1>1. CallFound /\ NameFound /\ AllMeasured
  BY DEF HInv, CallHeld, AcceptedHeld, Accepted, CallStages, NameStages
<1>2. CASE IsTransferList
  BY <1>1, <1>2, ListExplained DEF HInv, AcceptedHeld
<1>3. CASE ~IsTransferList
  BY <1>1, <1>3, ParamsExplained DEF HInv, AcceptedHeld
<1> QED BY <1>2, <1>3

\* What parse_tx accepts it has understood: the payload is, to the last byte, the
\* code of a call of the contract and method of the tables with the values that
\* the entries point to (deserialize.c 68 to 484, parse.c), whatever the host
\* sends.  No byte is signed whose meaning is not fixed by the tables, the
\* entries, the counts of a list and of the parameters, and an identity, which
\* is the one parameter that has no entry.
THEOREM CallsAreExplained == Spec => []Explained
<1>1. IInv /\ KInv /\ HInv => Explained
  BY AllExplained
<1> QED BY <1>1, Invariance, ReadingInvariance, FindingInvariance, PTL

-----------------------------------------------------------------------------
(* Where the pieces of a call stand in the transaction that carries it.    *)

Carries(c) == Framed /\ TypeByte(c.type) = tx_type /\ Code(c) = Payload

LEMMA CarriedIs ==
    ASSUME NEW calls, NEW c
    PROVE  c \in Carried(WithCode(calls)) <=> c \in calls /\ Carries(c)
<1> DEFINE pairs == {p \in WithCode(calls) : TypeByte(p.call.type) = tx_type /\ p.code = Payload}
<1>1. Carried(WithCode(calls)) = IF Framed THEN {m.call : m \in pairs} ELSE {}
  BY Zenon DEF Carried
<1>2. c \in {m.call : m \in pairs} <=>
          c \in calls /\ TypeByte(c.type) = tx_type /\ Code(c) = Payload
  <2>1. ASSUME NEW m \in pairs, c = m.call
        PROVE  c \in calls /\ TypeByte(c.type) = tx_type /\ Code(c) = Payload
    <3>1. PICK d \in calls : m = [call |-> d, code |-> Code(d)]
      BY <2>1, Zenon DEF WithCode
    <3>2. m.call = d /\ m.code = Code(d)
      BY <3>1
    <3> QED BY <2>1, <3>2, Zenon
  <2>2. ASSUME c \in calls, TypeByte(c.type) = tx_type, Code(c) = Payload
        PROVE  \E m \in pairs : c = m.call
    <3> DEFINE m == [call |-> c, code |-> Code(c)]
    <3>1. m \in WithCode(calls) /\ m.call = c /\ m.code = Code(c)
      BY <2>2 DEF WithCode
    <3> HIDE DEF m
    <3> QED BY <2>2, <3>1, Zenon
  <2> QED BY <2>1, <2>2, Zenon
<1> QED BY <1>1, <1>2, Zenon DEF Carries

LEMMA PayloadStands ==
    ASSUME Buffered, NEW c, Carries(c)
    PROVE  /\ Start \in Nat /\ size \in Nat /\ Start <= size
           /\ Code(c) \in Seq(Nat) /\ Len(Code(c)) = size - Start
           /\ Start + Len(Code(c)) = size
           /\ Stands(Start, Code(c))
<1>1. Start \in Nat /\ size \in Nat
  BY StartNat, BytesRead
<1>2. Start <= size
  BY Zenon DEF Carries, Framed, Start
<1>3. Code(c) = Span(Start, size)
  BY WholeSpan, Zenon DEF Carries, Payload
<1>4. /\ Span(Start, size) \in Seq(Bytes) /\ Len(Span(Start, size)) = size - Start
      /\ \A j \in 1 .. size - Start : Span(Start, size)[j] = buf[Start + j]
  BY <1>1, <1>2, SpanFacts
<1> DEFINE code == Code(c)
<1> HIDE DEF code
<1>5. /\ code \in Seq(Bytes) /\ Len(code) = size - Start
      /\ \A j \in 1 .. size - Start : code[j] = buf[Start + j]
  BY <1>3, <1>4, Zenon DEF code
<1>6. code \in Seq(Nat)
  BY <1>5, BytesAreNumbers
<1>7. Start + Len(code) = size /\ Stands(Start, code)
  BY <1>1, <1>2, <1>5 DEF Stands
<1> QED BY <1>1, <1>2, <1>5, <1>6, <1>7 DEF code

\* The method's name, and what follows it in a call that is not one of wasm.
NameAt(c) ==
    IF c.type = "WASMVM_CONTRACT" THEN Behind20 + 1 ELSE Start + Len(ParamsCode(c))

TailAt(c) == NameAt(c) + 1 + Len(c.method)

LEMMA WordsText ==
    ASSUME NEW c, Worded(c)
    PROVE  /\ ParamsCode(c) \in Seq(Nat) /\ c.method \in Seq(Nat) /\ c.address \in Seq(Nat)
           /\ WithLength(c.method) \in Seq(Nat) /\ WithLength(c.address) \in Seq(Nat)
           /\ Len(c.address) = ADDRESS_SCRIPT_HASH_LEN /\ ADDRESS_SCRIPT_HASH_LEN \in Nat
           /\ ADDRESS_SCRIPT_HASH_LEN # 0
           /\ Len(c.method) \in 1 .. 127 /\ \A j \in 1 .. Len(c.method) : c.method[j] \in 0 .. 127
           /\ Len(WithLength(c.method)) = 1 + Len(c.method)
           /\ Len(WithLength(c.address)) = 1 + Len(c.address)
           /\ c.type \in ContractTypes /\ Len(ParamsCode(c)) \in Nat
<1>1. c.method \in Seq(0 .. 127) /\ Len(c.method) \in 1 .. 127
  BY DEF Worded, IsName, Characters
<1>2. c.address \in Seq(Bytes) /\ Len(c.address) = ADDRESS_SCRIPT_HASH_LEN
  BY DEF Worded, IsAddress
<1>3. ParamsCode(c) \in Seq(Nat) /\ c.type \in ContractTypes
  BY DEF Worded
<1>4. Len(ParamsCode(c)) \in Nat
  BY <1>3
<1>5. c.method \in Seq(Nat)
  <2> DEFINE s == c.method
  <2>1. s \in Seq(Bytes)
    <3>1. s \in Seq(0 .. 127)
      BY <1>1
    <3> HIDE DEF s
    <3> QED BY <3>1 DEF Bytes
  <2> QED BY <2>1, BytesAreNumbers
<1>6. \A j \in 1 .. Len(c.method) : c.method[j] \in 0 .. 127
  <2> DEFINE s == c.method
  <2>1. s \in Seq(0 .. 127)
    BY <1>1
  <2> HIDE DEF s
  <2> DEFINE S == 0 .. 127
  <2>2. s \in Seq(S)
    BY <2>1
  <2> HIDE DEF S
  <2>3. \A j \in 1 .. Len(s) : s[j] \in S
    BY <2>2
  <2> QED BY <2>3 DEF s, S
<1>7. c.address \in Seq(Nat)
  BY <1>2, BytesAreNumbers
<1>8. ADDRESS_SCRIPT_HASH_LEN \in Nat /\ ADDRESS_SCRIPT_HASH_LEN # 0
  BY SizeAssumption
<1> QED BY <1>1, <1>2, <1>3, <1>4, <1>5, <1>6, <1>7, <1>8, LengthFirst

\* u is s and t joined, which stand where it does.
Joint(at, u, s, t) ==
    /\ u \in Seq(Nat) /\ Len(u) = Len(s) + Len(t)
    /\ Stands(at, u) => Stands(at, s) /\ Stands(at + Len(s), t)

LEMMA StandsJoined ==
    ASSUME Buffered, NEW at \in Nat, NEW s \in Seq(Nat), NEW t \in Seq(Nat)
    PROVE  Joint(at, s \o t, s, t)
<1>1. s \o t \in Seq(Nat) /\ Len(s \o t) = Len(s) + Len(t) /\ Len(s) \in Nat /\ Len(t) \in Nat
  BY TextsJoined
<1>2. Stands(at, s \o t) => Stands(at, s) /\ Stands(at + Len(s), t)
  BY StandsTwo, Zenon
<1> QED BY <1>1, <1>2, Zenon DEF Joint

LEMMA NativeLaid ==
    ASSUME Buffered, NEW c, Carries(c), Worded(c), c.type = "NATIVE_CONTRACT"
    PROVE  LET at == TailAt(c)
               behind == at + 1 + ADDRESS_SCRIPT_HASH_LEN
           IN  /\ NameAt(c) \in Nat /\ at \in Nat
               /\ at + NATIVE_CONTRACT_CONSTANT_LENGTH = size
               /\ Stands(Start, ParamsCode(c)) /\ Stands(NameAt(c), WithLength(c.method))
               /\ Stands(at, WithLength(c.address)) /\ Stands(behind, OPCODE_SYSCALL)
               /\ Stands(behind + 2, NATIVE_INVOKE)
               /\ Stands(behind + 2 + Len(NATIVE_INVOKE), OPCODE_END)
<1> DEFINE body == ParamsCode(c)
           m == WithLength(c.method)
           a == WithLength(c.address)
           u2 == body \o m
           u3 == u2 \o a
           u4 == u3 \o OPCODE_SYSCALL
           u5 == u4 \o NATIVE_INVOKE
           u6 == u5 \o OPCODE_END
<1>1. /\ Start \in Nat /\ Start + Len(Code(c)) = size /\ Stands(Start, Code(c))
  BY PayloadStands
<1>2. Code(c) = u6
  BY Zenon DEF Code, CallCode
<1>3. /\ body \in Seq(Nat) /\ m \in Seq(Nat) /\ a \in Seq(Nat)
      /\ Len(m) = 1 + Len(c.method) /\ Len(a) = 1 + ADDRESS_SCRIPT_HASH_LEN
      /\ Len(c.method) \in Nat /\ ADDRESS_SCRIPT_HASH_LEN \in Nat
  <2>1. Len(c.method) \in 1 .. 127
    BY WordsText
  <2>2. Len(c.method) \in Nat
    BY <2>1
  <2> QED BY <2>2, WordsText, Zenon
<1>4. /\ OPCODE_SYSCALL \in Seq(Nat) /\ NATIVE_INVOKE \in Seq(Nat) /\ OPCODE_END \in Seq(Nat)
      /\ Len(OPCODE_SYSCALL) = 2 /\ Len(OPCODE_END) = 1
      /\ Len(NATIVE_INVOKE) \in Nat
  BY ConstantTexts, ConstantLengths, Zenon
<1>5. NameAt(c) = Start + Len(body) /\ TailAt(c) = NameAt(c) + 1 + Len(c.method)
  BY Zenon DEF NameAt, TailAt
<1>6. NATIVE_CONTRACT_CONSTANT_LENGTH = 1 + ADDRESS_SCRIPT_HASH_LEN + 2 + Len(NATIVE_INVOKE) + 1
  BY ConstantPartLengths
<1> HIDE DEF body, m, a, u2, u3, u4, u5, u6
<1>12. u2 \in Seq(Nat) /\ Joint(Start, u2, body, m)
  <2>1. Joint(Start, u2, body, m)
    BY <1>1, <1>3, StandsJoined, Zenon DEF u2
  <2> QED BY <2>1, Zenon DEF Joint
<1>13. u3 \in Seq(Nat) /\ Joint(Start, u3, u2, a)
  <2>1. Joint(Start, u3, u2, a)
    BY <1>1, <1>3, <1>12, StandsJoined, Zenon DEF u3
  <2> QED BY <2>1, Zenon DEF Joint
<1>14. u4 \in Seq(Nat) /\ Joint(Start, u4, u3, OPCODE_SYSCALL)
  <2>1. Joint(Start, u4, u3, OPCODE_SYSCALL)
    BY <1>1, <1>4, <1>13, StandsJoined, Zenon DEF u4
  <2> QED BY <2>1, Zenon DEF Joint
<1>15. u5 \in Seq(Nat) /\ Joint(Start, u5, u4, NATIVE_INVOKE)
  <2>1. Joint(Start, u5, u4, NATIVE_INVOKE)
    BY <1>1, <1>4, <1>14, StandsJoined, Zenon DEF u5
  <2> QED BY <2>1, Zenon DEF Joint
<1>16. u6 \in Seq(Nat) /\ Joint(Start, u6, u5, OPCODE_END)
  <2>1. Joint(Start, u6, u5, OPCODE_END)
    BY <1>1, <1>4, <1>15, StandsJoined, Zenon DEF u6
  <2> QED BY <2>1, Zenon DEF Joint
<1>17. /\ Stands(Start, body) /\ Stands(Start + Len(body), m) /\ Stands(Start + Len(u2), a)
       /\ Stands(Start + Len(u3), OPCODE_SYSCALL) /\ Stands(Start + Len(u4), NATIVE_INVOKE)
       /\ Stands(Start + Len(u5), OPCODE_END)
  BY <1>1, <1>2, <1>12, <1>13, <1>14, <1>15, <1>16, Zenon DEF Joint
<1> DEFINE at == TailAt(c)
           behind == at + 1 + ADDRESS_SCRIPT_HASH_LEN
<1>18. /\ NameAt(c) \in Nat /\ at \in Nat
       /\ Start + Len(body) = NameAt(c) /\ Start + Len(u2) = at /\ Start + Len(u3) = behind
       /\ Start + Len(u4) = behind + 2 /\ Start + Len(u5) = behind + 2 + Len(NATIVE_INVOKE)
       /\ Start + Len(u6) = at + NATIVE_CONTRACT_CONSTANT_LENGTH
  <2> DEFINE l == Len(body)
             k == Len(c.method)
             A == ADDRESS_SCRIPT_HASH_LEN
             v == Len(NATIVE_INVOKE)
  <2>1. /\ l \in Nat /\ k \in Nat /\ A \in Nat /\ v \in Nat /\ Start \in Nat
        /\ NameAt(c) = Start + l /\ at = NameAt(c) + 1 + k
        /\ Len(u2) = l + (1 + k) /\ Len(u3) = Len(u2) + (1 + A) /\ Len(u4) = Len(u3) + 2
        /\ Len(u5) = Len(u4) + v /\ Len(u6) = Len(u5) + 1
    <3>1. Len(body) \in Nat
      BY <1>3
    <3> QED BY <1>1, <1>3, <1>4, <1>5, <1>12, <1>13, <1>14, <1>15, <1>16, <3>1, Zenon DEF Joint
  <2>2. NATIVE_CONTRACT_CONSTANT_LENGTH = 1 + A + 2 + v + 1 /\ behind = at + 1 + A
    BY <1>6
  <2> HIDE DEF l, k, A, v, at, behind
  <2>3. NameAt(c) \in Nat /\ at \in Nat /\ Start + l = NameAt(c) /\ Start + Len(u2) = at
    BY <2>1
  <2>4. Start + Len(u3) = behind /\ Start + Len(u4) = behind + 2 /\ Start + Len(u5) = behind + 2 + v
    BY <2>1, <2>2
  <2>5. Start + Len(u6) = at + NATIVE_CONTRACT_CONSTANT_LENGTH
    BY <2>1, <2>2
  <2> QED BY <2>3, <2>4, <2>5 DEF l, v
<1> QED BY <1>1, <1>2, <1>17, <1>18, Zenon DEF body, m, a

-----------------------------------------------------------------------------

LEMMA NeovmLaid ==
    ASSUME Buffered, NEW c, Carries(c), Worded(c), c.type = "NEOVM_CONTRACT"
    PROVE  LET at == TailAt(c)
           IN  /\ NameAt(c) \in Nat /\ at \in Nat
               /\ at + NEOVM_CONTRACT_CONSTANT_LENGTH = size
               /\ Stands(Start, ParamsCode(c)) /\ Stands(NameAt(c), WithLength(c.method))
               /\ Stands(at, OPCODE_APPCALL) /\ Stands(at + 1, c.address)
               /\ Stands(at + 1 + ADDRESS_SCRIPT_HASH_LEN, OPCODE_END)
<1> DEFINE body == ParamsCode(c)
           m == WithLength(c.method)
           a == c.address
           u2 == body \o m
           u3 == u2 \o OPCODE_APPCALL
           u4 == u3 \o a
           u5 == u4 \o OPCODE_END
<1>1. /\ Start \in Nat /\ Start + Len(Code(c)) = size /\ Stands(Start, Code(c))
  BY PayloadStands
<1>2. Code(c) = u5
  BY Zenon DEF Code, CallCode
<1>3. /\ body \in Seq(Nat) /\ m \in Seq(Nat) /\ a \in Seq(Nat)
      /\ Len(m) = 1 + Len(c.method) /\ Len(a) = ADDRESS_SCRIPT_HASH_LEN
      /\ Len(c.method) \in Nat /\ ADDRESS_SCRIPT_HASH_LEN \in Nat
  <2>1. Len(c.method) \in 1 .. 127
    BY WordsText
  <2>2. Len(c.method) \in Nat
    BY <2>1
  <2> QED BY <2>2, WordsText, Zenon
<1>4. /\ OPCODE_APPCALL \in Seq(Nat) /\ OPCODE_END \in Seq(Nat)
      /\ Len(OPCODE_APPCALL) = 1 /\ Len(OPCODE_END) = 1
  BY ConstantTexts, ConstantLengths, Zenon
<1>5. NameAt(c) = Start + Len(body) /\ TailAt(c) = NameAt(c) + 1 + Len(c.method)
  <2>1. c.type # "WASMVM_CONTRACT"
    OBVIOUS
  <2> QED BY <2>1, Zenon DEF NameAt, TailAt
<1>6. NEOVM_CONTRACT_CONSTANT_LENGTH = 1 + ADDRESS_SCRIPT_HASH_LEN + 1
  BY ConstantPartLengths
<1> HIDE DEF body, m, a, u2, u3, u4, u5
<1>12. u2 \in Seq(Nat) /\ Joint(Start, u2, body, m)
  <2>1. Joint(Start, u2, body, m)
    BY <1>1, <1>3, StandsJoined, Zenon DEF u2
  <2> QED BY <2>1, Zenon DEF Joint
<1>13. u3 \in Seq(Nat) /\ Joint(Start, u3, u2, OPCODE_APPCALL)
  <2>1. Joint(Start, u3, u2, OPCODE_APPCALL)
    BY <1>1, <1>4, <1>12, StandsJoined, Zenon DEF u3
  <2> QED BY <2>1, Zenon DEF Joint
<1>14. u4 \in Seq(Nat) /\ Joint(Start, u4, u3, a)
  <2>1. Joint(Start, u4, u3, a)
    BY <1>1, <1>3, <1>13, StandsJoined, Zenon DEF u4
  <2> QED BY <2>1, Zenon DEF Joint
<1>15. Joint(Start, u5, u4, OPCODE_END)
  BY <1>1, <1>4, <1>14, StandsJoined, Zenon DEF u5
<1>17. /\ Stands(Start, body) /\ Stands(Start + Len(body), m)
       /\ Stands(Start + Len(u2), OPCODE_APPCALL) /\ Stands(Start + Len(u3), a)
       /\ Stands(Start + Len(u4), OPCODE_END)
  BY <1>1, <1>2, <1>12, <1>13, <1>14, <1>15, Zenon DEF Joint
<1> DEFINE at == TailAt(c)
<1>18. /\ NameAt(c) \in Nat /\ at \in Nat
       /\ Start + Len(body) = NameAt(c) /\ Start + Len(u2) = at /\ Start + Len(u3) = at + 1
       /\ Start + Len(u4) = at + 1 + ADDRESS_SCRIPT_HASH_LEN
       /\ Start + Len(u5) = at + NEOVM_CONTRACT_CONSTANT_LENGTH
  <2> DEFINE l == Len(body)
             k == Len(c.method)
             A == ADDRESS_SCRIPT_HASH_LEN
  <2>1. /\ l \in Nat /\ k \in Nat /\ A \in Nat /\ Start \in Nat
        /\ NameAt(c) = Start + l /\ at = NameAt(c) + 1 + k
        /\ Len(u2) = l + (1 + k) /\ Len(u3) = Len(u2) + 1 /\ Len(u4) = Len(u3) + A
        /\ Len(u5) = Len(u4) + 1
    <3>1. Len(body) \in Nat
      BY <1>3
    <3> QED BY <1>1, <1>3, <1>4, <1>5, <1>12, <1>13, <1>14, <1>15, <3>1, Zenon DEF Joint
  <2>2. NEOVM_CONTRACT_CONSTANT_LENGTH = 1 + A + 1
    BY <1>6
  <2> HIDE DEF l, k, A, at
  <2>3. NameAt(c) \in Nat /\ at \in Nat /\ Start + l = NameAt(c) /\ Start + Len(u2) = at
    BY <2>1
  <2>4. Start + Len(u3) = at + 1 /\ Start + Len(u4) = at + 1 + A
    BY <2>1
  <2>5. Start + Len(u5) = at + NEOVM_CONTRACT_CONSTANT_LENGTH
    BY <2>1, <2>2
  <2> QED BY <2>3, <2>4, <2>5 DEF l, A
<1> QED BY <1>1, <1>2, <1>17, <1>18, Zenon DEF body, m, a

LEMMA WasmLaid ==
    ASSUME Buffered, NEW c, Carries(c), Worded(c), c.type = "WASMVM_CONTRACT"
    PROVE  LET end == TailAt(c) + Len(ParamsCode(c))
           IN  /\ NameAt(c) \in Nat /\ TailAt(c) \in Nat /\ end \in Nat /\ end + 1 = size
               /\ Stands(Start, c.address) /\ NameAt(c) = Behind20 + 1
               /\ Behind20 \in Nat /\ Behind20 < size
               /\ Byte(Behind20) = size - (Behind20 + 1) - 1 /\ Byte(Behind20) # 0
               /\ Stands(NameAt(c), WithLength(c.method)) /\ Stands(TailAt(c), ParamsCode(c))
               /\ Stands(end, OPCODE_END)
<1> DEFINE body == ParamsCode(c)
           m == WithLength(c.method)
           a == c.address
           v == m \o body
           w == WithLength(v)
           u2 == a \o w
           u3 == u2 \o OPCODE_END
<1>1. /\ Start \in Nat /\ size \in Nat /\ Start + Len(Code(c)) = size /\ Stands(Start, Code(c))
  BY PayloadStands
<1>2. Code(c) = u3
  BY Zenon DEF Code, CallCode
<1>3. /\ body \in Seq(Nat) /\ m \in Seq(Nat) /\ a \in Seq(Nat)
      /\ Len(m) = 1 + Len(c.method) /\ Len(a) = ADDRESS_SCRIPT_HASH_LEN
      /\ Len(c.method) \in Nat /\ ADDRESS_SCRIPT_HASH_LEN \in Nat /\ Len(body) \in Nat
  <2>1. Len(c.method) \in 1 .. 127
    BY WordsText
  <2>2. Len(c.method) \in Nat
    BY <2>1
  <2> QED BY <2>2, WordsText, Zenon
<1>4. OPCODE_END \in Seq(Nat) /\ Len(OPCODE_END) = 1
  BY ConstantTexts, ConstantLengths, Zenon
<1>5. /\ NameAt(c) = Behind20 + 1 /\ TailAt(c) = NameAt(c) + 1 + Len(c.method)
      /\ Behind20 = Start + ADDRESS_SCRIPT_HASH_LEN
  BY Zenon DEF NameAt, TailAt, Behind20
<1>6. Behind20 \in Nat /\ NameAt(c) \in Nat
  BY <1>1, <1>3, <1>5
<1> HIDE DEF body, m, a, v, w, u2, u3
<1>12. v \in Seq(Nat) /\ Joint(NameAt(c), v, m, body)
  <2>1. Joint(NameAt(c), v, m, body)
    BY <1>3, <1>6, StandsJoined, Zenon DEF v
  <2> QED BY <2>1, Zenon DEF Joint
<1>w. w \in Seq(Nat) /\ Len(w) = 1 + Len(v) /\ Len(v) \in Nat
  BY <1>12, LengthFirst DEF w
<1>13. u2 \in Seq(Nat) /\ Joint(Start, u2, a, w)
  <2>1. Joint(Start, u2, a, w)
    BY <1>1, <1>3, <1>w, StandsJoined, Zenon DEF u2
  <2> QED BY <2>1, Zenon DEF Joint
<1>14. Joint(Start, u3, u2, OPCODE_END)
  BY <1>1, <1>4, <1>13, StandsJoined, Zenon DEF u3
<1>17. /\ Stands(Start, a) /\ Stands(Start + Len(a), w) /\ Stands(Start + Len(u2), OPCODE_END)
  BY <1>1, <1>2, <1>13, <1>14, Zenon DEF Joint
<1>18. /\ Behind20 < size /\ Byte(Behind20) = Len(v) /\ Stands(NameAt(c), v)
  <2>1. Stands(Behind20, WithLength(v))
    BY <1>3, <1>5, <1>17, Zenon DEF w
  <2> QED BY <1>5, <1>6, <1>12, <2>1, SizedStands
<1>19. Stands(NameAt(c), m) /\ Stands(NameAt(c) + Len(m), body)
  BY <1>12, <1>18, Zenon DEF Joint
<1> DEFINE end == TailAt(c) + Len(body)
<1>20. /\ TailAt(c) \in Nat /\ end \in Nat /\ end + 1 = size
       /\ NameAt(c) + Len(m) = TailAt(c) /\ Start + Len(u2) = end
       /\ Len(v) = size - (Behind20 + 1) - 1 /\ Len(v) # 0
  <2> DEFINE l == Len(body)
             k == Len(c.method)
             A == ADDRESS_SCRIPT_HASH_LEN
  <2>1. /\ l \in Nat /\ k \in Nat /\ A \in Nat /\ Start \in Nat
        /\ Behind20 = Start + A /\ NameAt(c) = Behind20 + 1 /\ TailAt(c) = NameAt(c) + 1 + k
        /\ Len(m) = 1 + k /\ Len(v) = Len(m) + l /\ Len(w) = 1 + Len(v) /\ Len(u2) = A + Len(w)
        /\ Len(u3) = Len(u2) + 1 /\ Start + Len(u3) = size
    BY <1>1, <1>2, <1>3, <1>4, <1>5, <1>12, <1>w, <1>13, <1>14, Zenon DEF Joint
  <2>2. end = TailAt(c) + l
    OBVIOUS
  <2> HIDE DEF l, k, A, end
  <2>3. Len(v) = 1 + k + l /\ Start + Len(u2) = Start + (A + (1 + (1 + k + l)))
    BY <2>1
  <2>4. TailAt(c) = Start + A + 1 + 1 + k /\ end = Start + A + 1 + 1 + k + l
    BY <2>1, <2>2
  <2> QED BY <2>1, <2>3, <2>4
<1> QED BY <1>5, <1>6, <1>17, <1>18, <1>19, <1>20 DEF body, m, a

-----------------------------------------------------------------------------
(* From the header to the method, step by step.                            *)

InBuffers == buf \in Buffers

LEMMA BuffersFit ==
    ASSUME InBuffers
    PROVE  Buffered /\ size \in Nat /\ size < SIZE_T /\ SIZE_T \in Nat
<1>1. buf \in Seq(Bytes) /\ Len(buf) < SIZE_T /\ SIZE_T \in Nat
  BY BufferAssumption, SizeAssumption DEF InBuffers
<1> QED BY <1>1, BytesRead DEF Buffered, size

\* The payload has more than one byte.
LEMMA PayloadLong ==
    ASSUME Buffered, NEW c, Carries(c), Worded(c)
    PROVE  Start + 2 <= size
<1>1. /\ Start \in Nat /\ size \in Nat /\ Len(ParamsCode(c)) \in Nat /\ c.type \in ContractTypes
      /\ Len(c.method) \in Nat /\ ADDRESS_SCRIPT_HASH_LEN \in Nat
  <2>1. Len(c.method) \in 1 .. 127 /\ ADDRESS_SCRIPT_HASH_LEN \in Nat
    BY WordsText
  <2>2. Len(c.method) \in Nat
    BY <2>1
  <2> QED BY <2>1, <2>2, PayloadStands, WordsText, Zenon
<1>2. /\ TailAt(c) = NameAt(c) + 1 + Len(c.method)
      /\ c.type = "WASMVM_CONTRACT" => NameAt(c) = Start + ADDRESS_SCRIPT_HASH_LEN + 1
      /\ c.type # "WASMVM_CONTRACT" => NameAt(c) = Start + Len(ParamsCode(c))
  BY Zenon DEF TailAt, NameAt, Behind20
<1> DEFINE l == Len(ParamsCode(c))
           k == Len(c.method)
<1> HIDE DEF l, k
<1>3. l \in Nat /\ k \in Nat
  BY <1>1 DEF l, k
<1>4. TailAt(c) = NameAt(c) + 1 + k
  BY <1>2 DEF k
<1>5. CASE c.type = "NATIVE_CONTRACT"
  <2>1. TailAt(c) + NATIVE_CONTRACT_CONSTANT_LENGTH = size
    BY <1>5, NativeLaid, Zenon
  <2>2. NameAt(c) = Start + l
    BY <1>2, <1>5 DEF l
  <2>3. NATIVE_CONTRACT_CONSTANT_LENGTH \in Nat /\ NATIVE_CONTRACT_CONSTANT_LENGTH >= 1
    BY ConstantPartLengths
  <2> QED BY <1>1, <1>3, <1>4, <2>1, <2>2, <2>3
<1>6. CASE c.type = "NEOVM_CONTRACT"
  <2>1. TailAt(c) + NEOVM_CONTRACT_CONSTANT_LENGTH = size
    BY <1>6, NeovmLaid, Zenon
  <2>2. NameAt(c) = Start + l
    BY <1>2, <1>6 DEF l
  <2>3. NEOVM_CONTRACT_CONSTANT_LENGTH \in Nat /\ NEOVM_CONTRACT_CONSTANT_LENGTH >= 1
    BY ConstantPartLengths
  <2> QED BY <1>1, <1>3, <1>4, <2>1, <2>2, <2>3
<1>7. CASE c.type = "WASMVM_CONTRACT"
  <2>1. TailAt(c) + l + 1 = size
    <3>1. TailAt(c) + Len(ParamsCode(c)) + 1 = size
      BY <1>7, WasmLaid, Zenon
    <3> QED BY <3>1 DEF l
  <2>2. NameAt(c) = Start + ADDRESS_SCRIPT_HASH_LEN + 1
    BY <1>2, <1>7
  <2> QED BY <1>1, <1>3, <1>4, <2>1, <2>2
<1>8. c.type \in {"NATIVE_CONTRACT", "NEOVM_CONTRACT", "WASMVM_CONTRACT"}
  BY <1>1 DEF ContractTypes
<1> QED BY <1>5, <1>6, <1>7, <1>8

LEMMA HeaderReads ==
    ASSUME Buffered, NEW c, Carries(c), Header
    PROVE  Skip("payload", HeaderLength)
<1>1. size <= MAX_TRANSACTION_LEN /\ HeaderLength < size /\ Byte(0) = 0 /\ GasInRange
  BY Zenon DEF Carries, Framed
<1>2. size \in Nat /\ HeaderLength \in Nat /\ MAX_TRANSACTION_LEN \in Nat
  BY BytesRead, StartNat, SizeAssumption
<1>3. buffer_can_read(0, HeaderLength)
  BY <1>1, <1>2 DEF buffer_can_read
<1>4. ~(size > MAX_TRANSACTION_LEN)
  BY <1>1, <1>2
<1> QED BY <1>1, <1>3, <1>4, Zenon DEF Header

LEMMA DeclaredIs ==
    ASSUME InBuffers, NEW c, Carries(c), Worded(c)
    PROVE  /\ buffer_can_read(HeaderLength, 1) /\ Byte(HeaderLength) # 0
           /\ buffer_can_read(HeaderLength + 1, Width(Byte(HeaderLength)))
           /\ LengthFits(HeaderLength)
<1> DEFINE first == Byte(HeaderLength)
           declared == DeclaredPayload(HeaderLength)
<1>1. Buffered /\ size \in Nat /\ size < SIZE_T /\ SIZE_T \in Nat
  BY BuffersFit
<1>2. HeaderLength \in Nat /\ Start \in Nat
  BY StartNat
<1>3. HeaderLength < size /\ Start <= size /\ Start + declared + 1 = size
  BY Zenon DEF Carries, Framed, Start
<1>4. Width(first) \in Nat /\ first \in Bytes
  <2>1. first \in Bytes
    BY <1>1, <1>2, <1>3, BytesRead
  <2>2. U16 \in Nat /\ U32 \in Nat /\ U64 \in Nat
    BY SizeAssumption, WordAssumption
  <2> QED BY <2>1, <2>2 DEF Width
<1>5. Start = HeaderLength + 1 + Width(first)
  BY Zenon DEF Start, PayloadAt
<1>6. declared \in Nat
  <2>1. CASE Width(first) = 0
    <3>1. declared = first
      BY <2>1, Zenon DEF DeclaredPayload
    <3> QED BY <1>4, <3>1 DEF Bytes
  <2>2. CASE Width(first) # 0
    <3>1. declared = LittleEndian(Slice(HeaderLength + 1, Width(first)))
      BY <2>2, Zenon DEF DeclaredPayload
    <3>2. HeaderLength + 1 \in Nat /\ HeaderLength + 1 + Width(first) <= size
      BY <1>2, <1>3, <1>5
    <3>3. Slice(HeaderLength + 1, Width(first)) \in Seq(Bytes)
      BY <1>1, <1>4, <3>2, SliceBytes
    <3> QED BY <3>1, <3>3, LittleEndianNat
  <2> QED BY <2>1, <2>2
<1>7. first # 0
  <2>1. Start + 2 <= size
    BY <1>1, PayloadLong
  <2>2. first = 0 => Width(first) = 0
    BY DEF Width
  <2>3. Width(first) = 0 => declared = first
    BY Zenon DEF DeclaredPayload
  <2> HIDE DEF first, declared
  <2>4. declared # 0
    BY <1>1, <1>2, <1>3, <1>6, <2>1
  <2> QED BY <2>2, <2>3, <2>4
<1>8. payload_size(HeaderLength) = declared
  <2>1. declared < SIZE_T
    BY <1>1, <1>2, <1>3, <1>6
  <2>2. declared % SIZE_T = declared
    BY <1>1, <1>6, <2>1, SmallRemainder
  <2> QED BY <2>2, Zenon DEF payload_size
<1>9. LengthFits(HeaderLength)
  <2>1. size % SIZE_T = size
    BY <1>1, SmallRemainder
  <2>2. (PayloadAt(HeaderLength) + payload_size(HeaderLength) + 1) = size
    BY <1>3, <1>8 DEF Start
  <2> QED BY <2>1, <2>2, Zenon DEF LengthFits
<1>10. buffer_can_read(HeaderLength, 1) /\ buffer_can_read(HeaderLength + 1, Width(first))
  BY <1>1, <1>2, <1>3, <1>4, <1>5 DEF buffer_can_read
<1> QED BY <1>7, <1>9, <1>10

LEMMA PayloadReads ==
    ASSUME InBuffers, PayloadInv, NEW c, Carries(c), Worded(c), PayloadSize
    PROVE  Skip("contract", Start)
<1>1. offset = HeaderLength
  BY DEF PayloadInv, PayloadSize
<1>2. /\ buffer_can_read(offset, 1) /\ Byte(offset) # 0
      /\ buffer_can_read(offset + 1, Width(Byte(offset))) /\ LengthFits(offset)
  BY <1>1, DeclaredIs, Zenon
<1>3. Skip("contract", PayloadAt(offset))
  BY <1>2, Zenon DEF PayloadSize
<1> QED BY <1>1, <1>3, Zenon DEF Start

LEMMA NativeIsCalled ==
    ASSUME Buffered, NEW c, Carries(c), Worded(c), c.type = "NATIVE_CONTRACT", offset = Start
    PROVE  NativeCall /\ ~NeovmCall /\ ~WasmCall
<1> DEFINE A == ADDRESS_SCRIPT_HASH_LEN
           at == TailAt(c)
           behind == at + 1 + A
           I == Len(NATIVE_INVOKE)
<1>1. /\ at \in Nat /\ at + NATIVE_CONTRACT_CONSTANT_LENGTH = size
      /\ Stands(at, WithLength(c.address)) /\ Stands(behind, OPCODE_SYSCALL)
      /\ Stands(behind + 2, NATIVE_INVOKE) /\ Stands(behind + 2 + I, OPCODE_END)
  BY NativeLaid, Zenon
<1>2. /\ c.address \in Seq(Nat) /\ Len(c.address) = A /\ A \in Nat
      /\ Len(WithLength(c.address)) = 1 + A
  BY WordsText, Zenon
<1>3. /\ OPCODE_SYSCALL \in Seq(Nat) /\ NATIVE_INVOKE \in Seq(Nat) /\ OPCODE_END \in Seq(Nat)
      /\ Len(OPCODE_SYSCALL) = 2 /\ Len(OPCODE_END) = 1 /\ I \in Nat
  BY ConstantTexts, ConstantLengths, Zenon
<1>4. /\ NATIVE_CONTRACT_CONSTANT_LENGTH \in Nat /\ NEOVM_CONTRACT_CONSTANT_LENGTH \in Nat
      /\ NATIVE_CONTRACT_CONSTANT_LENGTH = 1 + A + 2 + I + 1
      /\ NEOVM_CONTRACT_CONSTANT_LENGTH = 1 + A + 1
  BY ConstantPartLengths
<1>5. I > A /\ NATIVE_INVOKE[I - A] # OPCODE_APPCALL[1]
  BY SearchAssumption
<1>6. Start \in Nat /\ size \in Nat /\ Start <= at
  <2>1. at = Start + Len(ParamsCode(c)) + 1 + Len(c.method)
    BY Zenon DEF TailAt, NameAt
  <2>2. Len(ParamsCode(c)) \in Nat /\ Len(c.method) \in 1 .. 127
    BY WordsText
  <2>3. Start \in Nat /\ size \in Nat
    BY PayloadStands
  <2> DEFINE l == Len(ParamsCode(c))
             k == Len(c.method)
  <2>4. l \in Nat /\ k \in Nat /\ at = Start + l + 1 + k
    BY <2>1, <2>2
  <2> HIDE DEF l, k, at
  <2> QED BY <2>3, <2>4
<1>7. tx_type = 209
  BY Zenon DEF Carries, TypeByte
<1> HIDE DEF A, at, I
<1>8. parse_address(at, TRUE) = behind /\ behind \in Nat
  <2>1. parse_address(at, TRUE) = at + Len(WithLength(c.address))
    BY <1>1, <1>2, AddressStands DEF A
  <2>2. at + (1 + A) = behind /\ behind \in Nat
    BY <1>1, <1>2
  <2> QED BY <1>2, <2>1, <2>2, Zenon
<1>9. parse_check_constant(behind, OPCODE_SYSCALL) = behind + 2 /\ behind + 2 \in Nat
  <2>1. parse_check_constant(behind, OPCODE_SYSCALL) = behind + Len(OPCODE_SYSCALL)
    BY <1>1, <1>3, <1>8, ConstantStands, Zenon
  <2> QED BY <1>3, <1>8, <2>1
<1>10. parse_check_constant(behind + 2, NATIVE_INVOKE) = behind + 2 + I /\ behind + 2 + I \in Nat
  <2>1. parse_check_constant(behind + 2, NATIVE_INVOKE) = behind + 2 + Len(NATIVE_INVOKE)
    BY <1>1, <1>3, <1>9, ConstantStands, Zenon
  <2> QED BY <1>3, <1>9, <2>1 DEF I
<1>11. Found(parse_check_constant(behind + 2 + I, OPCODE_END))
  BY <1>1, <1>3, <1>10, ConstantStands, Zenon DEF I
<1>12. ~IsAppCall
  <2> DEFINE from == behind + 2
             j == I - A
  <2>1. j \in 1 .. I /\ size - NEOVM_CONTRACT_CONSTANT_LENGTH + 1 = from + j
    BY <1>1, <1>2, <1>3, <1>4, <1>5
  <2>2. buf[from + j] = NATIVE_INVOKE[j]
    BY <1>1, <2>1 DEF Stands, I
  <2>3. Byte(size - NEOVM_CONTRACT_CONSTANT_LENGTH) = buf[size - NEOVM_CONTRACT_CONSTANT_LENGTH + 1]
    BY Zenon DEF Byte
  <2>4. Byte(size - NEOVM_CONTRACT_CONSTANT_LENGTH) # OPCODE_APPCALL[1]
    BY <1>5, <2>1, <2>2, <2>3 DEF I, A
  <2> QED BY <2>4, Zenon DEF IsAppCall
<1>13. /\ buffer_can_read(offset, NEOVM_CONTRACT_CONSTANT_LENGTH)
       /\ buffer_can_read(offset, NATIVE_CONTRACT_CONSTANT_LENGTH)
  BY <1>1, <1>2, <1>3, <1>4, <1>6 DEF buffer_can_read
<1>14. size - NATIVE_CONTRACT_CONSTANT_LENGTH = at
  BY <1>1, <1>4
<1>15. NativeCall
  BY <1>7, <1>8, <1>9, <1>10, <1>11, <1>12, <1>13, <1>14, Zenon DEF NativeCall
<1>16. ~NeovmCall /\ ~WasmCall
  <2>1. tx_type # 210
    BY <1>7
  <2> QED BY <1>12, <2>1, Zenon DEF NeovmCall, WasmCall
<1> QED BY <1>15, <1>16

LEMMA NeovmIsCalled ==
    ASSUME Buffered, NEW c, Carries(c), Worded(c), c.type = "NEOVM_CONTRACT", offset = Start
    PROVE  ~NativeCall /\ NeovmCall /\ ~WasmCall
<1> DEFINE A == ADDRESS_SCRIPT_HASH_LEN
           at == TailAt(c)
<1>1. /\ at \in Nat /\ at + NEOVM_CONTRACT_CONSTANT_LENGTH = size
      /\ Stands(at, OPCODE_APPCALL) /\ Stands(at + 1, c.address)
      /\ Stands(at + 1 + A, OPCODE_END)
  BY NeovmLaid, Zenon
<1>2. c.address \in Seq(Nat) /\ Len(c.address) = A /\ A \in Nat
  BY WordsText, Zenon
<1>3. /\ OPCODE_APPCALL \in Seq(Nat) /\ OPCODE_END \in Seq(Nat)
      /\ Len(OPCODE_APPCALL) = 1 /\ Len(OPCODE_END) = 1
  BY ConstantTexts, ConstantLengths, Zenon
<1>4. NEOVM_CONTRACT_CONSTANT_LENGTH \in Nat
  BY ConstantPartLengths
<1>6. Start \in Nat /\ size \in Nat /\ Start <= at
  <2>1. at = Start + Len(ParamsCode(c)) + 1 + Len(c.method)
    <3>1. c.type # "WASMVM_CONTRACT"
      OBVIOUS
    <3> QED BY <3>1, Zenon DEF TailAt, NameAt
  <2>2. Len(ParamsCode(c)) \in Nat /\ Len(c.method) \in 1 .. 127
    BY WordsText
  <2>3. Start \in Nat /\ size \in Nat
    BY PayloadStands
  <2> DEFINE l == Len(ParamsCode(c))
             k == Len(c.method)
  <2>4. l \in Nat /\ k \in Nat /\ at = Start + l + 1 + k
    BY <2>1, <2>2
  <2> HIDE DEF l, k, at
  <2> QED BY <2>3, <2>4
<1>7. tx_type = 209
  <2>1. c.type # "WASMVM_CONTRACT"
    OBVIOUS
  <2> QED BY <2>1, Zenon DEF Carries, TypeByte
<1> HIDE DEF A, at
<1>8. parse_check_constant(at, OPCODE_APPCALL) = at + 1 /\ at + 1 \in Nat
  <2>1. parse_check_constant(at, OPCODE_APPCALL) = at + Len(OPCODE_APPCALL)
    BY <1>1, <1>3, ConstantStands, Zenon
  <2> QED BY <1>1, <1>3, <2>1
<1>9. parse_address(at + 1, FALSE) = at + 1 + A /\ at + 1 + A \in Nat
  <2>1. parse_address(at + 1, FALSE) = at + 1 + Len(c.address)
    BY <1>1, <1>2, <1>8, AddressStands DEF A
  <2>2. at + 1 + A \in Nat
    BY <1>1, <1>2
  <2> QED BY <1>2, <2>1, <2>2, Zenon
<1>10. Found(parse_check_constant(at + 1 + A, OPCODE_END))
  BY <1>1, <1>3, <1>9, ConstantStands, Zenon
<1>12. IsAppCall
  <2>1. Byte(at) = OPCODE_APPCALL[1]
    <3>1. 1 \in 1 .. Len(OPCODE_APPCALL)
      BY <1>3
    <3>2. buf[at + 1] = OPCODE_APPCALL[1]
      BY <1>1, <3>1 DEF Stands
    <3> QED BY <3>2, Zenon DEF Byte
  <2>2. size - NEOVM_CONTRACT_CONSTANT_LENGTH = at
    BY <1>1, <1>4
  <2> QED BY <2>1, <2>2, Zenon DEF IsAppCall
<1>13. buffer_can_read(offset, NEOVM_CONTRACT_CONSTANT_LENGTH)
  BY <1>1, <1>4, <1>6 DEF buffer_can_read
<1>14. size - NEOVM_CONTRACT_CONSTANT_LENGTH = at
  BY <1>1, <1>4
<1>15. NeovmCall
  BY <1>7, <1>8, <1>9, <1>10, <1>12, <1>13, <1>14, Zenon DEF NeovmCall
<1>16. ~NativeCall /\ ~WasmCall
  <2>1. tx_type # 210
    BY <1>7
  <2> QED BY <1>12, <2>1, Zenon DEF NativeCall, WasmCall
<1> QED BY <1>15, <1>16

LEMMA WasmIsCalled ==
    ASSUME Buffered, NEW c, Carries(c), Worded(c), c.type = "WASMVM_CONTRACT", offset = Start
    PROVE  ~NativeCall /\ ~NeovmCall /\ WasmCall
<1>1. Stands(Start, c.address)
  BY WasmLaid, Zenon
<1>2. c.address \in Seq(Nat) /\ Len(c.address) = ADDRESS_SCRIPT_HASH_LEN /\ Start \in Nat
  BY WordsText, StartNat, Zenon
<1>3. parse_address(Start, FALSE) = Start + Len(c.address)
  BY <1>1, <1>2, AddressStands
<1>4. Found(parse_address(Start, FALSE))
  BY <1>1, <1>3 DEF Found, Stands
<1>5. tx_type = 210
  BY Zenon DEF Carries, TypeByte
<1>6. tx_type # 209
  BY <1>5
<1> QED BY <1>4, <1>5, <1>6, Zenon DEF NativeCall, NeovmCall, WasmCall

LEMMA ContractReads ==
    ASSUME Buffered, HInv, NEW c, Carries(c), Worded(c), Contract
    PROVE  /\ type' = c.type /\ stage' = "method"
           /\ UNCHANGED <<buf, name, list, loop>>
<1>1. offset = Start
  BY DEF HInv, CallHeld, Contract
<1>2. c.type \in {"NATIVE_CONTRACT", "NEOVM_CONTRACT", "WASMVM_CONTRACT"}
  BY DEF Worded, ContractTypes
<1>3. CASE c.type = "NATIVE_CONTRACT"
  <2>1. SetContract("NATIVE_CONTRACT", size - NATIVE_CONTRACT_CONSTANT_LENGTH + 1, offset)
    BY <1>1, <1>3, NativeIsCalled, Zenon DEF Contract
  <2> QED BY <1>3, <2>1, Zenon DEF SetContract, GoTo
<1>4. CASE c.type = "NEOVM_CONTRACT"
  <2>1. SetContract("NEOVM_CONTRACT", size - NEOVM_CONTRACT_CONSTANT_LENGTH + 1, offset)
    BY <1>1, <1>4, NeovmIsCalled, Zenon DEF Contract
  <2> QED BY <1>4, <2>1, Zenon DEF SetContract, GoTo
<1>5. CASE c.type = "WASMVM_CONTRACT"
  <2>1. SetContract("WASMVM_CONTRACT", offset, offset + ADDRESS_SCRIPT_HASH_LEN)
    BY <1>1, <1>5, WasmIsCalled, Zenon DEF Contract
  <2> QED BY <1>5, <2>1, Zenon DEF SetContract, GoTo
<1> QED BY <1>2, <1>3, <1>4, <1>5

-----------------------------------------------------------------------------
(* The search for the method.                                              *)

LEMMA MaxIs ==
    ASSUME NEW S \in SUBSET Nat, NEW m \in S, \A k \in S : k <= m
    PROVE  Max(S) = m
<1>1. m \in Nat /\ S # {}
  OBVIOUS
<1>2. Max(S) \in S /\ \A k \in S : Max(S) >= k
  <2>1. \E x \in S : \A y \in S : x >= y
    BY <1>1
  <2> QED BY <2>1 DEF Max
<1> DEFINE x == Max(S)
<1>3. x \in S /\ x >= m
  BY <1>2
<1> HIDE DEF x
<1>4. x \in Nat /\ x <= m /\ x = m
  BY <1>1, <1>3
<1> QED BY <1>4 DEF x

LEMMA PackIs ==
    ASSUME Buffered, NEW at \in Nat
    PROVE  IsPack(at) <=> at < size /\ Byte(at) = 193
<1>1. size \in Nat /\ Len(OPCODE_PACK) = 1
  BY BytesRead, ConstantLengths
<1>2. ASSUME IsPack(at)
      PROVE  at < size /\ Byte(at) = 193
  <2>1. buffer_can_read(at, 1) /\ Slice(at, 1) = OPCODE_PACK
    <3>1. ~Found(Past)
      BY <1>1 DEF Found, Past
    <3> QED BY <1>1, <1>2, <3>1, Zenon DEF IsPack, parse_check_constant
  <2>2. at + 1 <= size
    BY <2>1 DEF buffer_can_read
  <2>3. Slice(at, 1) = <<Byte(at)>>
    <3>1. at < size
      BY <1>1, <2>2
    <3>2. Span(at, at + 1) = <<Byte(at)>>
      BY <3>1, OneByte
    <3>3. (at + 1) - at = 1
      OBVIOUS
    <3> QED BY <3>2, <3>3, Zenon DEF Span
  <2> QED BY <1>1, <2>1, <2>2, <2>3 DEF OPCODE_PACK
<1>3. ASSUME at < size, Byte(at) = 193
      PROVE  IsPack(at)
  <2>1. OPCODE_PACK \in Seq(Nat)
    BY ConstantTexts
  <2>2. Stands(at, OPCODE_PACK)
    <3>1. at + 1 <= size
      BY <1>1, <1>3
    <3>2. \A j \in 1 .. 1 : buf[at + j] = OPCODE_PACK[j]
      <4>1. buf[at + 1] = OPCODE_PACK[1]
        BY <1>3 DEF Byte, OPCODE_PACK
      <4>2. \A j \in 1 .. 1 : j = 1
        OBVIOUS
      <4> QED BY <4>1, <4>2, Zenon
    <3> QED BY <1>1, <3>1, <3>2 DEF Stands
  <2>3. parse_check_constant(at, OPCODE_PACK) = at + Len(OPCODE_PACK) /\ Found(at + Len(OPCODE_PACK))
    BY <2>1, <2>2, ConstantStands, Zenon
  <2> QED BY <2>3, Zenon DEF IsPack
<1> QED BY <1>2, <1>3

LEMMA EndIs ==
    ASSUME Buffered, NEW at \in Nat
    PROVE  IsParamsEnd(at) <=>
               /\ Native /\ at <= sEnd - 2 /\ at + 4 <= size
               /\ Byte(at) = 106 /\ Byte(at + 1) = 124 /\ Byte(at + 2) = 200 /\ Byte(at + 3) = 108
<1>1. /\ size \in Nat /\ Len(OPCODE_PARAM_ST_END) = 4
      /\ OPCODE_PARAM_ST_END[1] = 106 /\ OPCODE_PARAM_ST_END[2] = 124
      /\ OPCODE_PARAM_ST_END[3] = 200 /\ OPCODE_PARAM_ST_END[4] = 108
  BY BytesRead, ConstantLengths DEF OPCODE_PARAM_ST_END
<1>2. OPCODE_PARAM_ST_END \in Seq(Nat)
  BY DEF OPCODE_PARAM_ST_END
<1>3. /\ Byte(at) = buf[at + 1] /\ Byte(at + 1) = buf[at + 2]
      /\ Byte(at + 2) = buf[at + 3] /\ Byte(at + 3) = buf[at + 4]
  <2>1. at + 1 + 1 = at + 2 /\ at + 2 + 1 = at + 3 /\ at + 3 + 1 = at + 4
    OBVIOUS
  <2> QED BY <2>1 DEF Byte
<1>4. ASSUME IsParamsEnd(at)
      PROVE  /\ Native /\ at <= sEnd - 2 /\ at + 4 <= size
             /\ Byte(at) = 106 /\ Byte(at + 1) = 124 /\ Byte(at + 2) = 200 /\ Byte(at + 3) = 108
  <2>1. Native /\ at <= sEnd - 2 /\ Found(parse_check_constant(at, OPCODE_PARAM_ST_END))
    BY <1>4, Zenon DEF IsParamsEnd
  <2>2. buffer_can_read(at, 4) /\ Slice(at, 4) = OPCODE_PARAM_ST_END
    <3>1. ~Found(Past)
      BY <1>1 DEF Found, Past
    <3> QED BY <1>1, <2>1, <3>1, Zenon DEF parse_check_constant
  <2>3. at + 4 <= size
    BY <2>2 DEF buffer_can_read
  <2>4. \A j \in 1 .. 4 : Span(at, at + 4)[j] = buf[at + j]
    <3>1. at + 4 \in Nat /\ at <= at + 4 /\ (at + 4) - at = 4
      OBVIOUS
    <3>2. \A j \in 1 .. (at + 4) - at : Span(at, at + 4)[j] = buf[at + j]
      BY <2>3, <3>1, SpanFacts
    <3> QED BY <3>1, <3>2
  <2>5. Span(at, at + 4) = OPCODE_PARAM_ST_END
    <3>1. (at + 4) - at = 4
      OBVIOUS
    <3> QED BY <2>2, <3>1, Zenon DEF Span
  <2>6. 1 \in 1 .. 4 /\ 2 \in 1 .. 4 /\ 3 \in 1 .. 4 /\ 4 \in 1 .. 4
    OBVIOUS
  <2>7. \A j \in 1 .. 4 : buf[at + j] = OPCODE_PARAM_ST_END[j]
    BY <2>4, <2>5, Zenon
  <2>8. /\ buf[at + 1] = OPCODE_PARAM_ST_END[1] /\ buf[at + 2] = OPCODE_PARAM_ST_END[2]
        /\ buf[at + 3] = OPCODE_PARAM_ST_END[3] /\ buf[at + 4] = OPCODE_PARAM_ST_END[4]
    BY <2>6, <2>7, Zenon
  <2>9. /\ Byte(at) = OPCODE_PARAM_ST_END[1] /\ Byte(at + 1) = OPCODE_PARAM_ST_END[2]
        /\ Byte(at + 2) = OPCODE_PARAM_ST_END[3] /\ Byte(at + 3) = OPCODE_PARAM_ST_END[4]
    BY <1>3, <2>8, Zenon
  <2> QED BY <1>1, <2>1, <2>3, <2>9, Zenon
<1>5. ASSUME Native, at <= sEnd - 2, at + 4 <= size,
             Byte(at) = 106, Byte(at + 1) = 124, Byte(at + 2) = 200, Byte(at + 3) = 108
      PROVE  IsParamsEnd(at)
  <2>1. \A j \in 1 .. 4 : buf[at + j] = OPCODE_PARAM_ST_END[j]
    <3>1. \A j \in 1 .. 4 : j = 1 \/ j = 2 \/ j = 3 \/ j = 4
      OBVIOUS
    <3>2. /\ buf[at + 1] = OPCODE_PARAM_ST_END[1] /\ buf[at + 2] = OPCODE_PARAM_ST_END[2]
          /\ buf[at + 3] = OPCODE_PARAM_ST_END[3] /\ buf[at + 4] = OPCODE_PARAM_ST_END[4]
      BY <1>1, <1>3, <1>5, ZenonT(30)
    <3> QED BY <3>1, <3>2, Zenon
  <2>2. Stands(at, OPCODE_PARAM_ST_END)
    BY <1>1, <1>5, <2>1, Zenon DEF Stands
  <2>3. /\ parse_check_constant(at, OPCODE_PARAM_ST_END) = at + Len(OPCODE_PARAM_ST_END)
        /\ Found(at + Len(OPCODE_PARAM_ST_END))
    BY <1>2, <2>2, ConstantStands, Zenon
  <2> QED BY <1>5, <2>3, Zenon DEF IsParamsEnd
<1> QED BY <1>4, <1>5

-----------------------------------------------------------------------------

\* The constant part begins where the call says.
LEMMA TailIs ==
    ASSUME Buffered, NEW c, Carries(c), Worded(c), c.type # "WASMVM_CONTRACT", type = c.type
    PROVE  /\ NameAt(c) \in Nat /\ TailAt(c) \in Nat /\ size \in Nat /\ Start \in Nat
           /\ sEnd = TailAt(c) /\ TailAt(c) + 2 <= size
           /\ TailAt(c) = NameAt(c) + 1 + Len(c.method)
           /\ NameAt(c) = Start + Len(ParamsCode(c))
           /\ Len(ParamsCode(c)) \in Nat /\ Len(c.method) \in 1 .. 127
           /\ Stands(Start, ParamsCode(c)) /\ Stands(NameAt(c), WithLength(c.method))
           /\ Byte(TailAt(c)) \in 0 .. 127 /\ Byte(TailAt(c) + 1) # 193
<1> DEFINE at == TailAt(c)
           A == ADDRESS_SCRIPT_HASH_LEN
<1>1. /\ Len(ParamsCode(c)) \in Nat /\ Len(c.method) \in 1 .. 127 /\ c.type \in ContractTypes
      /\ c.address \in Seq(Nat) /\ Len(c.address) = A /\ A \in Nat /\ A # 0
      /\ WithLength(c.address) \in Seq(Nat)
  BY WordsText, Zenon
<1>2. at = NameAt(c) + 1 + Len(c.method) /\ NameAt(c) = Start + Len(ParamsCode(c))
  <2>1. c.type # "WASMVM_CONTRACT"
    OBVIOUS
  <2> QED BY <2>1, Zenon DEF TailAt, NameAt
<1>3. Start \in Nat /\ size \in Nat
  BY PayloadStands, Zenon
<1>4. c.address[1] # 193
  <2>1. c.type # "WASMVM_CONTRACT" => Unmarked(c.address)
    BY Zenon DEF Worded
  <2>2. c.type # "WASMVM_CONTRACT"
    OBVIOUS
  <2>3. OPCODE_PACK[1] = 193
    BY DEF OPCODE_PACK
  <2> QED BY <2>1, <2>2, <2>3, Zenon DEF Unmarked
<1>5. 1 \in 1 .. Len(c.address)
  BY <1>1
<1>6. CASE c.type = "NATIVE_CONTRACT"
  <2>1. /\ NameAt(c) \in Nat /\ at \in Nat /\ at + NATIVE_CONTRACT_CONSTANT_LENGTH = size
        /\ Stands(Start, ParamsCode(c)) /\ Stands(NameAt(c), WithLength(c.method))
        /\ Stands(at, WithLength(c.address))
    BY <1>6, NativeLaid, Zenon
  <2>2. ConstantLength = NATIVE_CONTRACT_CONSTANT_LENGTH
    BY <1>6, Zenon DEF ConstantLength, Native
  <2>3. NATIVE_CONTRACT_CONSTANT_LENGTH \in Nat /\ NATIVE_CONTRACT_CONSTANT_LENGTH >= 2
    BY ConstantPartLengths
  <2>4. Byte(at) = A /\ Stands(at + 1, c.address)
    BY <1>1, <2>1, SizedStands, Zenon
  <2>5. A \in 0 .. 127
    BY SearchAssumption DEF Characters
  <2>6. Byte(at + 1) = c.address[1]
    BY <1>5, <2>4 DEF Stands, Byte
  <2> HIDE DEF at, A
  <2>7. sEnd = at /\ at + 2 <= size
    BY <1>3, <2>1, <2>2, <2>3 DEF sEnd
  <2>8. Byte(at) \in 0 .. 127 /\ Byte(at + 1) # 193
    BY <1>4, <2>4, <2>5, <2>6, Zenon
  <2>9. /\ sEnd = TailAt(c) /\ TailAt(c) + 2 <= size
        /\ Byte(TailAt(c)) \in 0 .. 127 /\ Byte(TailAt(c) + 1) # 193 /\ TailAt(c) \in Nat
        /\ TailAt(c) = NameAt(c) + 1 + Len(c.method)
    BY <1>2, <2>1, <2>7, <2>8, Zenon DEF at
  <2> QED BY <1>1, <1>2, <1>3, <2>1, <2>9, Zenon
<1>7. CASE c.type = "NEOVM_CONTRACT"
  <2>1. /\ NameAt(c) \in Nat /\ at \in Nat /\ at + NEOVM_CONTRACT_CONSTANT_LENGTH = size
        /\ Stands(Start, ParamsCode(c)) /\ Stands(NameAt(c), WithLength(c.method))
        /\ Stands(at, OPCODE_APPCALL) /\ Stands(at + 1, c.address)
    BY <1>7, NeovmLaid, Zenon
  <2>2. ConstantLength = NEOVM_CONTRACT_CONSTANT_LENGTH
    <3>1. ~Native
      BY <1>7 DEF Native
    <3> QED BY <3>1, Zenon DEF ConstantLength
  <2>3. NEOVM_CONTRACT_CONSTANT_LENGTH \in Nat /\ NEOVM_CONTRACT_CONSTANT_LENGTH >= 2
    BY ConstantPartLengths
  <2>4. Byte(at) = 103
    <3>1. Stands(at, <<103>>)
      BY <2>1, Zenon DEF OPCODE_APPCALL
    <3> QED BY <2>1, <3>1, StandsOne, Zenon
  <2>5. Byte(at) \in 0 .. 127
    BY <2>4
  <2>6. Byte(at + 1) = c.address[1]
    BY <1>5, <2>1 DEF Stands, Byte
  <2> HIDE DEF at, A
  <2>7. sEnd = at /\ at + 2 <= size
    BY <1>3, <2>1, <2>2, <2>3 DEF sEnd
  <2>8. Byte(at + 1) # 193
    BY <1>4, <2>6, Zenon
  <2>9. /\ sEnd = TailAt(c) /\ TailAt(c) + 2 <= size
        /\ Byte(TailAt(c)) \in 0 .. 127 /\ Byte(TailAt(c) + 1) # 193 /\ TailAt(c) \in Nat
        /\ TailAt(c) = NameAt(c) + 1 + Len(c.method)
    BY <1>2, <2>1, <2>5, <2>7, <2>8, Zenon DEF at
  <2> QED BY <1>1, <1>2, <1>3, <2>1, <2>9, Zenon
<1> QED BY <1>1, <1>6, <1>7 DEF ContractTypes

\* No byte of the name or of what follows is taken for a mark.
LEMMA NameUnmarked ==
    ASSUME Buffered, NEW c, Carries(c), Worded(c), c.type # "WASMVM_CONTRACT", type = c.type
    PROVE  /\ \A at \in NameAt(c) .. TailAt(c) : Byte(at) \in 0 .. 127
           /\ \A at \in Nat : NameAt(c) <= at /\ at <= TailAt(c) + 1 => ~IsParamsEnd(at) /\ ~IsPack(at)
<1> DEFINE from == NameAt(c)
           to == TailAt(c)
           k == Len(c.method)
<1>1. /\ from \in Nat /\ to \in Nat /\ size \in Nat /\ sEnd = to /\ to + 2 <= size
      /\ to = from + 1 + k /\ k \in 1 .. 127
      /\ Stands(from, WithLength(c.method))
      /\ Byte(to) \in 0 .. 127 /\ Byte(to + 1) # 193
  <2>1. c.type # "WASMVM_CONTRACT"
    OBVIOUS
  <2> QED BY <2>1, TailIs
<1>2. c.method \in Seq(Nat) /\ \A j \in 1 .. k : c.method[j] \in 0 .. 127
  BY WordsText, Zenon
<1>3. Byte(from) = k /\ Stands(from + 1, c.method)
  BY <1>1, <1>2, SizedStands, Zenon
<1>4. \A j \in 1 .. k : Byte(from + j) = c.method[j]
  <2>1. \A j \in 1 .. k : buf[from + 1 + j] = c.method[j]
    BY <1>3, Zenon DEF Stands
  <2>2. TAKE j \in 1 .. k
  <2>3. from + 1 + j = from + j + 1
    BY <1>1
  <2> QED BY <2>1, <2>3, Zenon DEF Byte
<1> HIDE DEF from, to, k
<1>5. \A at \in from .. to : Byte(at) \in 0 .. 127
  <2>1. TAKE at \in from .. to
  <2>2. at = from \/ at = to \/ at - from \in 1 .. k
    BY <1>1
  <2>3. CASE at = from
    BY <1>1, <1>3, <2>3
  <2>4. CASE at = to
    BY <1>1, <2>4
  <2>5. CASE at - from \in 1 .. k
    <3>1. from + (at - from) = at
      BY <1>1
    <3>2. PICK j \in 1 .. k : j = at - from
      BY <2>5
    <3>3. Byte(from + j) = c.method[j] /\ c.method[j] \in 0 .. 127
      BY <1>2, <1>4, Zenon DEF k
    <3>4. from + j = at
      BY <3>1, <3>2, Zenon
    <3> QED BY <3>3, <3>4, Zenon
  <2> QED BY <2>2, <2>3, <2>4, <2>5
<1>6. ASSUME NEW at \in Nat, from <= at, at <= to + 1
      PROVE  ~IsParamsEnd(at) /\ ~IsPack(at)
  <2>1. ~IsPack(at)
    <3>1. at \in from .. to \/ at = to + 1
      BY <1>1, <1>6
    <3>2. Byte(at) # 193
      <4>1. CASE at = to + 1
        BY <1>1, <4>1
      <4>2. CASE at \in from .. to
        BY <1>5, <4>2
      <4> QED BY <3>1, <4>1, <4>2
    <3> QED BY <3>2, PackIs
  <2>2. ~IsParamsEnd(at)
    <3>1. CASE at <= to - 2
      <4>1. at + 2 \in from .. to
        BY <1>1, <1>6, <3>1
      <4>2. Byte(at + 2) # 200
        BY <1>5, <4>1
      <4> QED BY <4>2, EndIs
    <3>2. CASE ~(at <= to - 2)
      BY <1>1, <3>2, EndIs
    <3> QED BY <3>1, <3>2
  <2> QED BY <2>1, <2>2
<1> QED BY <1>5, <1>6 DEF from, to

-----------------------------------------------------------------------------

\* The last mark is where the parameters end, and the name is behind it.
LEMMA MethodAtIs ==
    ASSUME Buffered, NEW c, Carries(c), Worded(c), c.type # "WASMVM_CONTRACT", type = c.type,
           offset = Start
    PROVE  MethodAt = NameAt(c)
<1> DEFINE from == NameAt(c)
           to == TailAt(c)
           body == ParamsCode(c)
           l == Len(body)
           k == Len(c.method)
<1>1. /\ from \in Nat /\ to \in Nat /\ size \in Nat /\ Start \in Nat
      /\ sEnd = to /\ to + 2 <= size /\ to = from + 1 + k
      /\ from = Start + l /\ l \in Nat /\ k \in 1 .. 127 /\ Stands(Start, body)
  <2>1. c.type # "WASMVM_CONTRACT"
    OBVIOUS
  <2> QED BY <2>1, TailIs
<1>2. \A at \in Nat : from <= at /\ at <= to + 1 => ~IsParamsEnd(at) /\ ~IsPack(at)
  <2>1. c.type # "WASMVM_CONTRACT"
    OBVIOUS
  <2> QED BY <2>1, NameUnmarked
<1>3. \A j \in 1 .. l : buf[Start + j] = body[j]
  BY <1>1, Zenon DEF Stands
<1>4. /\ c.type = "NATIVE_CONTRACT" /\ ~IsList(c) => NativeLast(body)
      /\ c.type = "NATIVE_CONTRACT" /\ IsList(c) => PackLast(body)
      /\ c.type = "NEOVM_CONTRACT" => PackLast(body)
      /\ c.type \in ContractTypes
  BY Zenon DEF Worded, MarkEnds
<1>5. (c.type = "NATIVE_CONTRACT" /\ NativeLast(body)) \/ PackLast(body)
  <2>1. c.type = "NATIVE_CONTRACT" \/ c.type = "NEOVM_CONTRACT"
    BY <1>4 DEF ContractTypes
  <2> QED BY <1>4, <2>1, Zenon
<1>6. \A at : at \in Marks <=> at \in Start .. to + 1 /\ (IsParamsEnd(at) \/ IsPack(at))
  BY <1>1, Zenon DEF Marks, SearchFrom
<1>7. Marks \in SUBSET Nat
  <2> SUFFICES ASSUME NEW at \in Marks PROVE at \in Nat
    OBVIOUS
  <2>1. at \in Start .. to + 1
    BY <1>6
  <2> QED BY <1>1, <2>1
<1>8. \A at \in Marks : at < from
  <2>1. SUFFICES ASSUME NEW at \in Marks, ~(at < from) PROVE FALSE
    OBVIOUS
  <2>2. at \in Nat /\ at \in Start .. to + 1 /\ (IsParamsEnd(at) \/ IsPack(at))
    BY <1>6, <1>7
  <2> HIDE DEF from, to, body, l, k
  <2>3. from <= at /\ at <= to + 1
    BY <1>1, <2>1, <2>2
  <2> QED BY <1>2, <2>2, <2>3, Zenon
<1> HIDE DEF from, to, body, l, k
<1>9. CASE PackLast(body)
  <2>1. l >= 1 /\ body[l] = 193
    BY <1>9, Zenon DEF PackLast, l
  <2> DEFINE m == from - 1
  <2>2. m \in Nat /\ m < size /\ m \in Start .. to + 1 /\ m + 1 = Start + l
    BY <1>1, <2>1
  <2>3. l \in 1 .. l
    BY <1>1, <2>1
  <2>4. buf[Start + l] = 193
    BY <1>3, <2>1, <2>3
  <2> HIDE DEF m
  <2>5. Byte(m) = 193
    BY <2>2, <2>4, Zenon DEF Byte
  <2>6. IsPack(m)
    BY <2>2, <2>5, PackIs
  <2>7. ~IsParamsEnd(m)
    <3>1. Byte(m) # 106
      BY <2>5
    <3> QED BY <2>2, <3>1, EndIs
  <2>8. m \in Marks
    BY <1>6, <2>2, <2>6, Zenon
  <2>9. \A at \in Marks : at <= m
    BY <1>1, <1>7, <1>8 DEF m
  <2>10. Max(Marks) = m /\ Marks # {}
    <3>1. Max(Marks) = m
      BY <1>7, <2>8, <2>9, MaxIs
    <3> QED BY <2>8, <3>1, Zenon
  <2>11. BehindMark(m) = m + Len(OPCODE_PACK)
    BY <2>7, Zenon DEF BehindMark
  <2>12. MethodAt = BehindMark(m)
    BY <2>10, Zenon DEF MethodAt
  <2>13. m + 1 = from
    BY <1>1 DEF m
  <2>14. Len(OPCODE_PACK) = 1
    BY ConstantLengths
  <2> QED BY <2>11, <2>12, <2>13, <2>14, Zenon DEF from
<1>10. CASE c.type = "NATIVE_CONTRACT" /\ NativeLast(body)
  <2>1. l >= 4 /\ body[l - 3] = 106 /\ body[l - 2] = 124 /\ body[l - 1] = 200 /\ body[l] = 108
    BY <1>10, Zenon DEF NativeLast, l
  <2> DEFINE m == from - 4
  <2>2. m \in Nat /\ m + 4 <= size /\ m \in Start .. to + 1 /\ m + 4 = from /\ m <= to - 2
    BY <1>1, <2>1
  <2>3. /\ l - 3 \in 1 .. l /\ l - 2 \in 1 .. l /\ l - 1 \in 1 .. l /\ l \in 1 .. l
        /\ m + 1 = Start + (l - 3) /\ m + 1 + 1 = Start + (l - 2)
        /\ m + 2 + 1 = Start + (l - 1) /\ m + 3 + 1 = Start + l
    BY <1>1, <2>1
  <2> HIDE DEF m
  <2>4. Byte(m) = 106 /\ Byte(m + 1) = 124 /\ Byte(m + 2) = 200 /\ Byte(m + 3) = 108
    <3>1. /\ buf[Start + (l - 3)] = 106 /\ buf[Start + (l - 2)] = 124
          /\ buf[Start + (l - 1)] = 200 /\ buf[Start + l] = 108
      BY <1>3, <2>1, <2>3
    <3> QED BY <2>3, <3>1 DEF Byte
  <2>5. Native
    BY <1>10, Zenon DEF Native
  <2>6. IsParamsEnd(m)
    <3>1. m <= sEnd - 2
      BY <1>1, <2>2
    <3> QED BY <2>2, <2>4, <2>5, <3>1, EndIs
  <2>7. m \in Marks
    BY <1>6, <2>2, <2>6, Zenon
  <2>8. \A at \in Marks : at <= m
    <3>1. SUFFICES ASSUME NEW at \in Marks, ~(at <= m) PROVE FALSE
      OBVIOUS
    <3>2. at \in Nat /\ at < from /\ (IsParamsEnd(at) \/ IsPack(at))
      BY <1>6, <1>7, <1>8
    <3>3. at = m + 1 \/ at = m + 2 \/ at = m + 3
      BY <2>2, <3>1, <3>2
    <3>4. Byte(at) \in {124, 200, 108}
      BY <2>4, <3>3
    <3>5. Byte(at) # 106 /\ Byte(at) # 193
      BY <3>4
    <3> QED BY <3>2, <3>5, EndIs, PackIs
  <2>9. Max(Marks) = m /\ Marks # {}
    <3>1. Max(Marks) = m
      BY <1>7, <2>7, <2>8, MaxIs
    <3> QED BY <2>7, <3>1, Zenon
  <2>10. MethodAt = m + Len(OPCODE_PARAM_ST_END)
    BY <2>6, <2>9, Zenon DEF BehindMark, MethodAt
  <2>11. Len(OPCODE_PARAM_ST_END) = 4
    BY ConstantLengths
  <2> QED BY <2>2, <2>10, <2>11, Zenon DEF from
<1> QED BY <1>5, <1>9, <1>10

LEMMA NameStands ==
    ASSUME Buffered, NEW at \in Nat, NEW text \in Seq(Nat), Len(text) \in 1 .. 255,
           Stands(at, WithLength(text))
    PROVE  /\ parse_method_name(at) = at + 1 + Len(text) /\ Found(parse_method_name(at))
           /\ Byte(at) = Len(text) /\ Slice(at + 1, Len(text)) = text
<1>1. /\ Byte(at) = Len(text) /\ Slice(at + 1, Len(text)) = text /\ at + 1 + Len(text) <= size
      /\ \A sizes : Len(text) \in sizes => Sized(at, sizes) = at + 1 + Len(text)
  BY SizedStands, Zenon
<1>2. Sized(at, 1 .. 255) = at + 1 + Len(text)
  BY <1>1, Zenon
<1> QED BY <1>1, <1>2, Zenon DEF parse_method_name, Found

LEMMA MethodReads ==
    ASSUME IInv, HInv, NEW c, Carries(c), Worded(c), type = c.type, Method
    PROVE  SetMethod(NameAt(c), offset)
<1>1. stage = "method" /\ ~Wasm /\ Buffered
  BY DEF Method, IInv
<1>2. offset = Start
  BY <1>1 DEF HInv, CallHeld
<1>3. c.type # "WASMVM_CONTRACT"
  BY <1>1 DEF Wasm
<1>4. /\ NameAt(c) \in Nat /\ TailAt(c) \in Nat /\ Start \in Nat /\ sEnd = TailAt(c)
      /\ TailAt(c) = NameAt(c) + 1 + Len(c.method)
      /\ NameAt(c) = Start + Len(ParamsCode(c)) /\ Len(ParamsCode(c)) \in Nat
      /\ Len(c.method) \in 1 .. 127
      /\ Stands(NameAt(c), WithLength(c.method))
  BY <1>1, <1>3, TailIs
<1>5. MethodAt = NameAt(c)
  BY <1>1, <1>2, <1>3, MethodAtIs
<1>6. c.method \in Seq(Nat)
  BY WordsText, ZenonT(30)
<1>7. Len(c.method) \in 1 .. 255
  BY <1>4
<1>8. Found(parse_method_name(NameAt(c))) /\ Byte(NameAt(c)) = Len(c.method)
  BY <1>1, <1>4, <1>6, <1>7, NameStands, Zenon
<1> DEFINE k == Len(c.method)
           l == Len(ParamsCode(c))
           n == NameAt(c)
           t == TailAt(c)
<1>9. k \in Nat /\ l \in Nat /\ n \in Nat /\ t \in Nat /\ t = n + 1 + k /\ n = Start + l
  <2>1. k \in 1 .. 127 /\ l \in Nat /\ n \in Nat /\ t \in Nat
    BY <1>4, Zenon
  <2>2. t = n + 1 + k /\ n = Start + l
    BY <1>4, Zenon
  <2> HIDE DEF k, l, n, t
  <2> QED BY <2>1, <2>2
<1> HIDE DEF k, l, n, t
<1>10. sEnd = t /\ Byte(n) = k
  BY <1>4, <1>8, Zenon DEF n, k, t
<1>11. sEnd >= offset /\ Byte(n) = sEnd - 1 - n
  <2>1. Start \in Nat
    BY <1>4
  <2> QED BY <1>2, <1>9, <1>10, <2>1
<1> QED BY <1>5, <1>8, <1>11, Zenon DEF Method, n

LEMMA WasmMethodReads ==
    ASSUME IInv, HInv, NEW c, Carries(c), Worded(c), type = c.type, WasmMethod
    PROVE  SetMethod(NameAt(c), TailAt(c))
<1>1. stage = "method" /\ Wasm /\ Buffered
  BY DEF WasmMethod, IInv
<1>2. offset = Behind20
  BY <1>1 DEF HInv, CallHeld
<1>3. c.type = "WASMVM_CONTRACT"
  BY <1>1 DEF Wasm
<1>4. /\ NameAt(c) \in Nat /\ NameAt(c) = Behind20 + 1 /\ Behind20 \in Nat /\ Behind20 < size
      /\ Byte(Behind20) = size - (Behind20 + 1) - 1 /\ Byte(Behind20) # 0
      /\ Stands(NameAt(c), WithLength(c.method))
  BY <1>1, <1>3, WasmLaid, Zenon
<1>5. c.method \in Seq(Nat) /\ Len(c.method) \in 1 .. 127
  BY WordsText, ZenonT(30)
<1>6. Len(c.method) \in 1 .. 255
  BY <1>5
<1>7. parse_method_name(NameAt(c)) = TailAt(c) /\ Found(parse_method_name(NameAt(c)))
  BY <1>1, <1>4, <1>5, <1>6, NameStands, Zenon DEF TailAt
<1>8. buffer_can_read(offset, 1)
  <2>1. size \in Nat
    BY <1>1, BytesRead
  <2> QED BY <1>2, <1>4, <2>1 DEF buffer_can_read
<1>9. Len(OPCODE_END) = 1
  BY ConstantLengths
<1>10. offset + 1 = NameAt(c)
  BY <1>2, <1>4
<1>11. /\ Byte(offset) # 0 /\ Byte(offset) = size - (offset + 1) - Len(OPCODE_END)
       /\ Found(parse_method_name(offset + 1))
  <2>1. Byte(offset) # 0 /\ Byte(offset) = size - (offset + 1) - 1
    BY <1>2, <1>4, Zenon
  <2> QED BY <1>7, <1>9, <1>10, <2>1, Zenon
<1> QED BY <1>7, <1>8, <1>10, <1>11, Zenon DEF WasmMethod

-----------------------------------------------------------------------------
(* The contract and the method that the call names.                        *)

LEMMA CalledIs ==
    ASSUME Buffered, CallFound, NEW c, Carries(c), Worded(c), type = c.type,
           name = Name(NameAt(c))
    PROVE  Names(c)
<1> DEFINE A == ADDRESS_SCRIPT_HASH_LEN
<1>1. /\ c.method \in Seq(Nat) /\ Len(c.method) \in 1 .. 127 /\ c.type \in ContractTypes
      /\ c.address \in Seq(Nat) /\ Len(c.address) = A /\ WithLength(c.address) \in Seq(Nat)
  BY WordsText, ZenonT(30)
<1>2. Len(c.method) \in 1 .. 255 /\ size \in Nat /\ Start \in Nat
  BY <1>1, BytesRead, StartNat
<1>3. ASSUME NameAt(c) \in Nat, Stands(NameAt(c), WithLength(c.method))
      PROVE  c.method = Slice(name.at, name.len)
  <2>1. Byte(NameAt(c)) = Len(c.method) /\ Slice(NameAt(c) + 1, Len(c.method)) = c.method
    BY <1>1, <1>2, <1>3, NameStands, Zenon
  <2>2. name.at = NameAt(c) + 1 /\ name.len = Byte(NameAt(c))
    BY DEF Name
  <2> QED BY <2>1, <2>2, Zenon
<1>4. CASE c.type = "NATIVE_CONTRACT"
  <2>1. /\ NameAt(c) \in Nat /\ TailAt(c) \in Nat
        /\ TailAt(c) + NATIVE_CONTRACT_CONSTANT_LENGTH = size
        /\ Stands(NameAt(c), WithLength(c.method)) /\ Stands(TailAt(c), WithLength(c.address))
    BY <1>4, NativeLaid, Zenon
  <2>2. addr = size - NATIVE_CONTRACT_CONSTANT_LENGTH + 1
    BY <1>4, Zenon DEF CallFound, TailNative
  <2>3. NATIVE_CONTRACT_CONSTANT_LENGTH \in Nat
    BY ConstantPartLengths, SMTT(30)
  <2>4. addr = TailAt(c) + 1
    BY <1>2, <2>1, <2>2, <2>3
  <2>5. Slice(TailAt(c) + 1, A) = c.address
    BY <1>1, <2>1, AddressStands
  <2> QED BY <1>3, <2>1, <2>4, <2>5, Zenon DEF Names
<1>5. CASE c.type = "NEOVM_CONTRACT"
  <2>1. /\ NameAt(c) \in Nat /\ TailAt(c) \in Nat
        /\ TailAt(c) + NEOVM_CONTRACT_CONSTANT_LENGTH = size
        /\ Stands(NameAt(c), WithLength(c.method)) /\ Stands(TailAt(c) + 1, c.address)
    BY <1>5, NeovmLaid, Zenon
  <2>2. addr = size - NEOVM_CONTRACT_CONSTANT_LENGTH + 1
    BY <1>5, Zenon DEF CallFound, TailNeovm
  <2>3. NEOVM_CONTRACT_CONSTANT_LENGTH \in Nat
    BY ConstantPartLengths, SMTT(30)
  <2>4. addr = TailAt(c) + 1 /\ TailAt(c) + 1 \in Nat
    BY <1>2, <2>1, <2>2, <2>3
  <2>5. Slice(TailAt(c) + 1, A) = c.address
    BY <1>1, <2>1, <2>4, AddressStands
  <2> QED BY <1>3, <2>1, <2>4, <2>5, Zenon DEF Names
<1>6. CASE c.type = "WASMVM_CONTRACT"
  <2>1. NameAt(c) \in Nat /\ Stands(Start, c.address) /\ Stands(NameAt(c), WithLength(c.method))
    BY <1>6, WasmLaid, Zenon
  <2>2. addr = Start
    BY <1>6, ZenonT(30) DEF CallFound
  <2>3. Slice(Start, A) = c.address
    BY <1>1, <1>2, <2>1, AddressStands
  <2> QED BY <1>3, <2>1, <2>2, <2>3, Zenon DEF Names
<1> QED BY <1>1, <1>4, <1>5, <1>6 DEF ContractTypes

\* It is the one that the call was made for.
LEMMA KnownIs ==
    ASSUME NEW contract \in Contracts, NEW method \in Methods(contract), NEW c,
           MadeFor(c, contract, method), Names(c)
    PROVE  /\ KnownContract = {contract} /\ KnownMethod = {method}
           /\ TheContract = contract /\ TheMethod = method
           /\ KnownMethod # {} /\ Sig = c.signature
           /\ AddressOf[TheContract] = c.address /\ NameOf[TheMethod] = c.method
           /\ IsTransferList <=> IsList(c)
<1>1. /\ c.type = type /\ c.address = Slice(addr, ADDRESS_SCRIPT_HASH_LEN)
      /\ c.method = Slice(name.at, name.len)
      /\ c.address = AddressOf[contract] /\ c.method = NameOf[method]
      /\ c.signature = Signature(contract, method)
  BY Zenon DEF Names, MadeFor
<1>2. KnownContract = {contract}
  BY <1>1, TableAssumption DEF KnownContract
<1>3. method \in KnownNames
  BY DEF KnownNames
<1>4. KnownMethod = {m \in Methods(contract) : NameOf[m] = c.method}
  <2>1. UNION {Methods(d) : d \in KnownContract} = Methods(contract)
    BY <1>2
  <2> QED BY <1>1, <2>1, Zenon DEF KnownMethod
<1>5. \A m \in Methods(contract) : m \in KnownNames
  BY DEF KnownNames
<1>6. KnownMethod = {method}
  BY <1>1, <1>3, <1>4, <1>5, TableAssumption
<1>7. TheContract = contract /\ TheMethod = method
  <2>1. TheContract \in KnownContract /\ TheMethod \in KnownMethod
    <3>1. \E d \in Contracts : d \in KnownContract
      BY <1>2
    <3>2. \E m \in KnownNames : m \in KnownMethod
      BY <1>3, <1>6
    <3> QED BY <3>1, <3>2, Zenon DEF TheContract, TheMethod
  <2> QED BY <1>2, <1>6, <2>1
<1>8. IsTransferList <=> IsList(c)
  <2>1. ASSUME IsList(c)
        PROVE  IsTransferList
    <3>1. c.type = "NATIVE_CONTRACT" /\ contract \in {"ONT", "ONG"} /\ method \in TransferMethods
      BY <2>1, ListIs, Zenon
    <3> QED BY <1>1, <1>2, <1>6, <3>1 DEF IsTransferList, Native
  <2>2. ASSUME IsTransferList
        PROVE  IsList(c)
    <3>1. contract \in {"ONT", "ONG"} /\ method \in TransferMethods
      BY <1>2, <1>6, <2>2 DEF IsTransferList
    <3>2. Signature(contract, method) = native_token(method)
      BY <3>1 DEF Signature
    <3>3. native_token(method) = <<"TRANSFER_STATE_LIST">>
      BY <3>1 DEF native_token, TransferMethods, TransferFromMethods, ApproveMethods
    <3> QED BY <1>1, <3>2, <3>3, Zenon DEF IsList
  <2> QED BY <2>1, <2>2
<1> QED BY <1>1, <1>2, <1>6, <1>7, <1>8, Zenon DEF Sig

\* It is none that the tables know.
LEMMA BlindIs ==
    ASSUME NEW c, Blind(c), Names(c)
    PROVE  KnownMethod = {} /\ ~IsTransferList
<1>1. /\ c.address = Slice(addr, ADDRESS_SCRIPT_HASH_LEN) /\ c.method = Slice(name.at, name.len)
      /\ ~IsKnown(c)
  BY Zenon DEF Names, Blind
<1>2. KnownMethod = {}
  <2>1. SUFFICES ASSUME NEW m \in KnownMethod PROVE FALSE
    OBVIOUS
  <2>2. PICK d \in KnownContract : m \in Methods(d)
    BY DEF KnownMethod
  <2>3. d \in Contracts /\ AddressOf[d] = c.address /\ NameOf[m] = c.method
    BY <1>1 DEF KnownContract, KnownMethod
  <2> QED BY <1>1, <2>2, <2>3 DEF IsKnown
<1> QED BY <1>2 DEF IsTransferList

-----------------------------------------------------------------------------
(* Where the parameters of a call stand.                                   *)

ParamsFrom(c) ==
    CASE c.type = "NATIVE_CONTRACT" -> Start + 3
      [] c.type = "WASMVM_CONTRACT" -> TailAt(c)
      [] OTHER                      -> Start

\* The position behind the first k parameters.
ParamAt(c, k) == ParamsFrom(c) + Len(Joins(ParamTexts(c))[k])

LastAt(c) == ParamAt(c, Len(c.signature))

\* What stands in front of the parameters and behind them.
Around(c) ==
    /\ ParamsFrom(c) \in Nat /\ Stands(ParamsFrom(c), Concat(ParamTexts(c))) /\ LastAt(c) \in Nat
    /\ c.type = "NATIVE_CONTRACT" =>
           /\ Stands(Start, OPCODE_ST_BEGIN) /\ Stands(LastAt(c), OPCODE_ST_END)
           /\ LastAt(c) + 1 = NameAt(c)
    /\ c.type = "NEOVM_CONTRACT" =>
           /\ Stands(LastAt(c), c.total) /\ Stands(LastAt(c) + Len(c.total), OPCODE_PACK)
           /\ LastAt(c) + Len(c.total) + 1 = NameAt(c)
    /\ c.type = "WASMVM_CONTRACT" => Stands(LastAt(c), OPCODE_END) /\ LastAt(c) + 1 = size

LEMMA LastAtIs ==
    ASSUME NEW c, Texts(c)
    PROVE  LastAt(c) = ParamsFrom(c) + Len(Concat(ParamTexts(c)))
<1>1. Len(ParamTexts(c)) = Len(c.signature)
  BY ParamTextsFacts, Zenon
<1> QED BY <1>1, Zenon DEF LastAt, ParamAt, Concat

LEMMA NativeAround ==
    ASSUME Buffered, NEW c, Carries(c), Worded(c), Texts(c), c.type = "NATIVE_CONTRACT"
    PROVE  Around(c)
<1> DEFINE all == Concat(ParamTexts(c))
           u2 == OPCODE_ST_BEGIN \o all
           u3 == u2 \o OPCODE_ST_END
<1>1. /\ all \in Seq(Nat) /\ ParamsCode(c) = u3
      /\ OPCODE_ST_BEGIN \in Seq(Nat) /\ OPCODE_ST_END \in Seq(Nat)
  BY ParamTextsFacts, ConstantTexts, Zenon
<1>2. Len(OPCODE_ST_BEGIN) = 3 /\ Len(OPCODE_ST_END) = 1
  BY ConstantLengths
<1>3. Start \in Nat /\ Stands(Start, u3)
  <2>1. Stands(Start, ParamsCode(c))
    BY NativeLaid, Zenon
  <2> QED BY <1>1, <2>1, StartNat, Zenon
<1>4. NameAt(c) = Start + Len(u3)
  <2>1. c.type # "WASMVM_CONTRACT"
    OBVIOUS
  <2> QED BY <1>1, <2>1, Zenon DEF NameAt
<1>5. ParamsFrom(c) = Start + 3
  BY Zenon DEF ParamsFrom
<1>6. LastAt(c) = ParamsFrom(c) + Len(all)
  BY LastAtIs, Zenon
<1> HIDE DEF all, u2, u3
<1>7. Joint(Start, u2, OPCODE_ST_BEGIN, all)
  BY <1>1, <1>3, StandsJoined, Zenon DEF u2
<1>8. u2 \in Seq(Nat) /\ Len(u2) = Len(OPCODE_ST_BEGIN) + Len(all)
  BY <1>7, Zenon DEF Joint
<1>9. Joint(Start, u3, u2, OPCODE_ST_END)
  BY <1>1, <1>3, <1>8, StandsJoined, Zenon DEF u3
<1>10. Len(u3) = Len(u2) + Len(OPCODE_ST_END)
  BY <1>9, Zenon DEF Joint
<1>11. /\ Stands(Start, OPCODE_ST_BEGIN) /\ Stands(Start + Len(OPCODE_ST_BEGIN), all)
       /\ Stands(Start + Len(u2), OPCODE_ST_END)
  BY <1>3, <1>7, <1>9, Zenon DEF Joint
<1> DEFINE l == Len(all)
           n == Len(u2)
<1>12. l \in Nat /\ n = 3 + l /\ Len(u3) = n + 1
  <2>1. Len(all) \in Nat
    BY <1>1
  <2> QED BY <1>2, <1>8, <1>10, <2>1, Zenon
<1> HIDE DEF l, n
<1>13. Start + 3 \in Nat /\ Start + 3 + l = Start + n /\ Start + n \in Nat
  BY <1>3, <1>12
<1>14. Start + n + 1 = NameAt(c)
  BY <1>3, <1>4, <1>12, <1>13
<1>15. LastAt(c) = Start + n
  BY <1>5, <1>6, <1>13, Zenon DEF l
<1>16. Stands(Start + 3, all) /\ Stands(Start + n, OPCODE_ST_END)
  BY <1>2, <1>11, Zenon DEF n
<1>17. c.type # "NEOVM_CONTRACT" /\ c.type # "WASMVM_CONTRACT"
  OBVIOUS
<1> QED BY <1>5, <1>11, <1>13, <1>14, <1>15, <1>16, <1>17, Zenon DEF Around, all

LEMMA NeovmAround ==
    ASSUME Buffered, NEW c, Carries(c), Worded(c), Texts(c), c.type = "NEOVM_CONTRACT"
    PROVE  Around(c)
<1> DEFINE all == Concat(ParamTexts(c))
           t == c.total
           u2 == all \o t
           u3 == u2 \o OPCODE_PACK
<1>1. /\ all \in Seq(Nat) /\ ParamsCode(c) = u3 /\ OPCODE_PACK \in Seq(Nat) /\ t \in Seq(Nat)
  <2>1. c.total \in Seq(Nat)
    BY Zenon DEF Texts
  <2> QED BY <2>1, ParamTextsFacts, ConstantTexts, Zenon
<1>2. Len(OPCODE_PACK) = 1
  BY ConstantLengths
<1>3. Start \in Nat /\ Stands(Start, u3)
  <2>1. Stands(Start, ParamsCode(c))
    BY NeovmLaid, Zenon
  <2> QED BY <1>1, <2>1, StartNat, Zenon
<1>16. c.type # "NATIVE_CONTRACT" /\ c.type # "WASMVM_CONTRACT"
  OBVIOUS
<1>4. NameAt(c) = Start + Len(u3)
  BY <1>1, <1>16, Zenon DEF NameAt
<1>5. ParamsFrom(c) = Start
  BY <1>16, Zenon DEF ParamsFrom
<1>6. LastAt(c) = ParamsFrom(c) + Len(all)
  BY LastAtIs, Zenon
<1> HIDE DEF all, t, u2, u3
<1>7. Joint(Start, u2, all, t)
  BY <1>1, <1>3, StandsJoined, Zenon DEF u2
<1>8. u2 \in Seq(Nat) /\ Len(u2) = Len(all) + Len(t)
  BY <1>7, Zenon DEF Joint
<1>9. Joint(Start, u3, u2, OPCODE_PACK)
  BY <1>1, <1>3, <1>8, StandsJoined, Zenon DEF u3
<1>10. Len(u3) = Len(u2) + Len(OPCODE_PACK)
  BY <1>9, Zenon DEF Joint
<1>11. /\ Stands(Start, all) /\ Stands(Start + Len(all), t) /\ Stands(Start + Len(u2), OPCODE_PACK)
  BY <1>3, <1>7, <1>9, Zenon DEF Joint
<1> DEFINE l == Len(all)
           k == Len(t)
           n == Len(u2)
<1>12. l \in Nat /\ k \in Nat /\ n = l + k /\ Len(u3) = n + 1
  <2>1. Len(all) \in Nat /\ Len(t) \in Nat
    BY <1>1
  <2> QED BY <1>2, <1>8, <1>10, <2>1, Zenon
<1> HIDE DEF l, n, k
<1>13. Start + l \in Nat /\ Start + l + k = Start + n /\ Start + n \in Nat
  BY <1>3, <1>12
<1>14. Start + n + 1 = NameAt(c)
  BY <1>3, <1>4, <1>12, <1>13
<1>15. LastAt(c) = Start + l
  BY <1>5, <1>6, Zenon DEF l
<1>17. Stands(Start, all) /\ Stands(Start + l, t) /\ Stands(Start + n, OPCODE_PACK)
  BY <1>11, Zenon DEF l, n
<1> QED BY <1>3, <1>5, <1>13, <1>14, <1>15, <1>16, <1>17, Zenon DEF Around, all, k, t

LEMMA WasmAround ==
    ASSUME Buffered, NEW c, Carries(c), Worded(c), Texts(c), c.type = "WASMVM_CONTRACT"
    PROVE  Around(c)
<1> DEFINE all == Concat(ParamTexts(c))
<1>1. ParamsCode(c) = all /\ Len(all) \in Nat
  <2>1. all \in Seq(Nat)
    BY ParamTextsFacts, Zenon
  <2>2. Len(all) \in Nat
    BY <2>1
  <2> QED BY <2>2, ParamTextsFacts, Zenon
<1>2. /\ TailAt(c) \in Nat /\ TailAt(c) + Len(all) \in Nat /\ TailAt(c) + Len(all) + 1 = size
      /\ Stands(TailAt(c), all) /\ Stands(TailAt(c) + Len(all), OPCODE_END)
  BY <1>1, WasmLaid, Zenon
<1>3. c.type # "NATIVE_CONTRACT" /\ c.type # "NEOVM_CONTRACT"
  OBVIOUS
<1>4. ParamsFrom(c) = TailAt(c)
  BY <1>3, Zenon DEF ParamsFrom
<1>5. LastAt(c) = TailAt(c) + Len(all)
  BY <1>4, LastAtIs, Zenon
<1> QED BY <1>2, <1>3, <1>4, <1>5, Zenon DEF Around

LEMMA AroundHolds ==
    ASSUME Buffered, NEW c, Carries(c), Worded(c), Texts(c)
    PROVE  Around(c)
<1>1. c.type \in ContractTypes
  BY Zenon DEF Worded
<1> QED BY <1>1, NativeAround, NeovmAround, WasmAround DEF ContractTypes

-----------------------------------------------------------------------------

\* The k-th parameter stands behind those before it, and its end behind it.
LEMMA ParamStandsAt ==
    ASSUME Buffered, NEW c, Carries(c), Worded(c), Texts(c), type = c.type,
           NEW k \in 1 .. Len(c.signature)
    PROVE  LET part == Part(c, c.signature[k], ValuesOf(c, k))
               at   == ParamAt(c, k - 1)
           IN  /\ at \in Nat /\ at <= size /\ ParamAt(c, k) \in Nat /\ ParamAt(c, k) <= size
               /\ part \in Seq(Nat) /\ Len(part) \in Nat /\ Stands(at, part)
               /\ at + Len(part) \in Nat /\ Closed(at + Len(part)) = ParamAt(c, k)
<1> DEFINE part == Part(c, c.signature[k], ValuesOf(c, k))
           at == ParamAt(c, k - 1)
           parts == ParamTexts(c)
           from == ParamsFrom(c)
<1>1. from \in Nat /\ Stands(from, Concat(parts)) /\ size \in Nat
  BY AroundHolds, BytesRead, Zenon DEF Around
<1>2. /\ parts \in Seq(Seq(Nat)) /\ Len(parts) = Len(c.signature)
      /\ parts[k] = IF c.type = "NATIVE_CONTRACT" THEN part \o OPCODE_PARAM_END ELSE part
  BY ParamTextsFacts, Zenon
<1>3. part \in Seq(Nat)
  BY Zenon DEF Texts
<1>4. Len(part) \in Nat
  BY <1>3
<1>5. k \in 1 .. Len(parts)
  BY <1>2, Zenon
<1>6. /\ \A j \in 0 .. Len(parts) : Len(Joins(parts)[j]) \in Nat /\ from + Len(Joins(parts)[j]) <= size
      /\ \A j \in 1 .. Len(parts) :
             /\ Stands(from + Len(Joins(parts)[j - 1]), parts[j])
             /\ Len(Joins(parts)[j]) = Len(Joins(parts)[j - 1]) + Len(parts[j])
             /\ Len(parts[j]) \in Nat /\ parts[j] \in Seq(Nat)
  BY <1>1, <1>2, JoinsStand, Zenon
<1>7. at = from + Len(Joins(parts)[k - 1]) /\ ParamAt(c, k) = from + Len(Joins(parts)[k])
  BY Zenon DEF ParamAt
<1>8. Len(parts) \in Nat
  BY <1>2
<1>9. k - 1 \in 0 .. Len(parts) /\ k \in 0 .. Len(parts)
  BY <1>5, <1>8
<1> DEFINE a == Len(Joins(parts)[k - 1])
           b == Len(Joins(parts)[k])
           l == Len(part)
           m == Len(parts[k])
<1>10. /\ a \in Nat /\ from + a <= size /\ b \in Nat /\ from + b <= size
       /\ Stands(from + a, parts[k]) /\ b = a + m /\ m \in Nat /\ parts[k] \in Seq(Nat)
  BY <1>5, <1>6, <1>9, Zenon
<1>11. at = from + a /\ ParamAt(c, k) = from + b /\ l \in Nat
  BY <1>4, <1>7, Zenon
<1>20. CASE c.type = "NATIVE_CONTRACT"
  <2>1. parts[k] = part \o OPCODE_PARAM_END
    BY <1>2, <1>20, Zenon
  <2>2. OPCODE_PARAM_END \in Seq(Nat) /\ Len(OPCODE_PARAM_END) = 3
    BY ConstantTexts, ConstantLengths, Zenon
  <2> HIDE DEF a, b, l, m, at, part, parts, from
  <2>3. from + a \in Nat
    BY <1>1, <1>10
  <2>4. Joint(from + a, part \o OPCODE_PARAM_END, part, OPCODE_PARAM_END)
    BY <1>3, <2>2, <2>3, StandsJoined, Zenon
  <2>5. m = l + 3 /\ Stands(from + a, part) /\ Stands(from + a + l, OPCODE_PARAM_END)
    BY <1>10, <2>1, <2>2, <2>4, Zenon DEF Joint, m, l
  <2>6. from + a + l \in Nat /\ from + b = from + a + l + 3 /\ from + b \in Nat
    BY <1>1, <1>10, <1>11, <2>5
  <2>7. EndParam(from + a + l) = from + a + l + 3
    BY <2>5, <2>6, EndStands, Zenon
  <2>8. Native
    BY <1>20, Zenon DEF Native
  <2>9. Closed(at + l) = ParamAt(c, k)
    BY <1>11, <2>6, <2>7, <2>8, Zenon DEF Closed
  <2> QED BY <1>3, <1>4, <1>10, <1>11, <2>3, <2>5, <2>6, <2>9, Zenon DEF l, part, at
<1>21. CASE c.type # "NATIVE_CONTRACT"
  <2>1. parts[k] = part
    BY <1>2, <1>21, Zenon
  <2>2. m = l
    BY <2>1, Zenon
  <2>8. ~Native
    BY <1>21 DEF Native
  <2> HIDE DEF a, b, l, m, at, part, parts, from
  <2>3. from + a \in Nat /\ from + a + l = from + b /\ from + b \in Nat
    BY <1>1, <1>10, <2>2
  <2>4. Stands(from + a, part)
    BY <1>10, <2>1, Zenon
  <2>9. Closed(at + l) = ParamAt(c, k)
    BY <1>11, <2>3, <2>8, Zenon DEF Closed
  <2> QED BY <1>3, <1>4, <1>10, <1>11, <2>3, <2>4, <2>9, Zenon DEF l, part, at
<1> QED BY <1>20, <1>21

\* Parameters of the call's own values.
LEMMA FirstParamAt ==
    ASSUME Buffered, NEW c, Carries(c), Worded(c), Texts(c)
    PROVE  ParamAt(c, 0) = ParamsFrom(c) /\ ParamsFrom(c) \in Nat
<1>1. ParamsFrom(c) \in Nat /\ Stands(ParamsFrom(c), Concat(ParamTexts(c)))
  BY AroundHolds, Zenon DEF Around
<1>2. ParamTexts(c) \in Seq(Seq(Nat))
  BY ParamTextsFacts, Zenon
<1>3. Len(Joins(ParamTexts(c))[0]) = 0
  BY <1>1, <1>2, JoinsStand, Zenon
<1>4. ParamAt(c, 0) = ParamsFrom(c) + 0
  BY <1>3, Zenon DEF ParamAt
<1> QED BY <1>1, <1>4

LEMMA SimpleLaid ==
    ASSUME Buffered, NEW contract \in Contracts, NEW method \in Methods(contract), NEW c,
           MadeFor(c, contract, method), ~IsList(c), Carries(c), type = c.type,
           NEW k \in 1 .. Len(c.signature), c.signature[k] \in SimpleKinds
    PROVE  LET at == ParamAt(c, k - 1)
           IN  /\ Closed(SimpleEnd(c.signature[k], at)) = ParamAt(c, k) /\ Found(ParamAt(c, k))
               /\ Pointed(SimpleEntry(c.signature[k], at)) = c.values[FirstOf(c, k - 1) + 1]
<1> DEFINE at == ParamAt(c, k - 1)
           kind == c.signature[k]
           values == ValuesOf(c, k)
           part == Part(c, kind, values)
<1>1. Worded(c) /\ Texts(c)
  BY MadeWorded, MadeTexts, Zenon
<1>2. /\ at \in Nat /\ ParamAt(c, k) <= size /\ Stands(at, part)
      /\ Closed(at + Len(part)) = ParamAt(c, k)
  BY <1>1, ParamStandsAt, Zenon
<1>3. kind # "TRANSFER_STATE_LIST"
  BY DEF SimpleKinds
<1>4. IsValue(kind, values[1]) /\ Len(Entries(kind, c.n)) = 1
  BY <1>3, ParamValues, ZenonT(30)
<1>5. SimpleEnd(kind, at) = at + Len(part) /\ Pointed(SimpleEntry(kind, at)) = values[1]
  BY <1>2, <1>4, SimpleStands
<1>6. values[1] = c.values[FirstOf(c, k - 1) + 1]
  <2>1. OwnValues(c, k)
    BY MadeValues, Zenon DEF ValuesFit
  <2>2. 1 \in 1 .. 1
    OBVIOUS
  <2> QED BY <1>4, <2>1, <2>2, Zenon DEF OwnValues
<1> QED BY <1>2, <1>5, <1>6, Zenon DEF Found

LEMMA IdentityLaid ==
    ASSUME Buffered, NEW contract \in Contracts, NEW method \in Methods(contract), NEW c,
           MadeFor(c, contract, method), ~IsList(c), Carries(c), type = c.type,
           NEW k \in 1 .. Len(c.signature), c.signature[k] = "ONTID"
    PROVE  LET at == ParamAt(c, k - 1)
           IN  Closed(parse_ont_id(at)) = ParamAt(c, k) /\ Found(ParamAt(c, k))
<1> DEFINE at == ParamAt(c, k - 1)
           kind == c.signature[k]
           part == Part(c, kind, ValuesOf(c, k))
<1>1. Worded(c) /\ Texts(c)
  BY MadeWorded, MadeTexts, Zenon
<1>2. /\ at \in Nat /\ ParamAt(c, k) <= size /\ Stands(at, part)
      /\ Closed(at + Len(part)) = ParamAt(c, k)
  BY <1>1, ParamStandsAt, Zenon
<1>3. kind # "TRANSFER_STATE_LIST"
  OBVIOUS
<1>4. c.id \in Seq(Bytes) /\ Len(c.id) \in 1 .. 255
  BY <1>3, ParamValues, Zenon
<1>5. part = WithLength(c.id)
  BY PartIs, Zenon
<1>6. c.id \in Seq(Nat)
  BY <1>4, BytesAreNumbers
<1>7. parse_ont_id(at) = at + Len(part)
  BY <1>2, <1>4, <1>5, <1>6, IdentityStands, Zenon
<1> QED BY <1>2, <1>7, Zenon DEF Found

LEMMA StateLaid ==
    ASSUME Buffered, NEW contract \in Contracts, NEW method \in Methods(contract), NEW c,
           MadeFor(c, contract, method), ~IsList(c), Carries(c), type = c.type,
           NEW k \in 1 .. Len(c.signature), c.signature[k] = "TRANSFER_STATE"
    PROVE  LET at == ParamAt(c, k - 1)
           IN  /\ Closed(StateEnd(at)) = ParamAt(c, k) /\ Found(ParamAt(c, k))
               /\ \A j \in 1 .. 3 :
                      Pointed(StateEntries(at)[j]) = c.values[FirstOf(c, k - 1) + j]
<1> DEFINE at == ParamAt(c, k - 1)
           kind == c.signature[k]
           values == ValuesOf(c, k)
           part == Part(c, kind, values)
<1>1. Worded(c) /\ Texts(c)
  BY MadeWorded, MadeTexts, Zenon
<1>2. /\ at \in Nat /\ ParamAt(c, k) <= size /\ Stands(at, part)
      /\ Closed(at + Len(part)) = ParamAt(c, k)
  BY <1>1, ParamStandsAt, Zenon
<1>3. kind # "TRANSFER_STATE_LIST"
  OBVIOUS
<1>4. IsState(values) /\ Len(Entries(kind, c.n)) = 3
  BY <1>3, ParamValues, Zenon
<1>5. StateEnd(at) = at + Len(part) /\ \A j \in 1 .. 3 : Pointed(StateEntries(at)[j]) = values[j]
  <2>1. part = Part(c, "TRANSFER_STATE", values)
    BY Zenon
  <2> HIDE DEF part, values, at
  <2>2. at \in Nat /\ IsState(values) /\ Stands(at, Part(c, "TRANSFER_STATE", values))
    BY <1>2, <1>4, <2>1, Zenon
  <2>3. /\ StateEnd(at) = at + Len(Part(c, "TRANSFER_STATE", values))
        /\ \A j \in 1 .. 3 : Pointed(StateEntries(at)[j]) = values[j]
    BY <2>2, StateStands
  <2> QED BY <2>1, <2>3, Zenon
<1>6. \A j \in 1 .. 3 : values[j] = c.values[FirstOf(c, k - 1) + j]
  <2>1. OwnValues(c, k)
    BY MadeValues, Zenon DEF ValuesFit
  <2> QED BY <1>4, <2>1, Zenon DEF OwnValues
<1> QED BY <1>2, <1>5, <1>6, Zenon DEF Found

-----------------------------------------------------------------------------
(* Where the pieces of a list of pairs stand.                              *)

PairsPart(c) == Part(c, "PK_AMOUNT_PAIRS", ValuesOf(c, 2))

PairsParts(c) == ClosedParts(c.n, c.count, ValuesOf(c, 2))

\* The position behind the first q pieces of the list.
PieceAt(c, q) ==
    ParamAt(c, 1) + (IF q = 2 * c.n + 2 THEN Len(PairsPart(c))
                                        ELSE Len(Joins(Ends(PairsParts(c)))[q]))

\* One of the pieces that have an end, and the last one.
IsPiece(c, q) ==
    /\ Stands(PieceAt(c, q - 1), PairsParts(c)[q])
    /\ EndParam(PieceAt(c, q - 1) + Len(PairsParts(c)[q])) = PieceAt(c, q)

LEMMA PiecesLaid ==
    ASSUME Buffered, NEW c, ArePairs(c, ValuesOf(c, 2)), ParamAt(c, 1) \in Nat,
           Stands(ParamAt(c, 1), PairsPart(c))
    PROVE  /\ PieceAt(c, 0) = ParamAt(c, 1)
           /\ \A q \in 0 .. 2 * c.n + 2 : PieceAt(c, q) \in Nat /\ PieceAt(c, q) <= size
           /\ \A q \in 1 .. 2 * c.n + 1 : IsPiece(c, q)
           /\ Stands(PieceAt(c, 2 * c.n + 1), ValuesOf(c, 2)[2 * c.n + 1])
           /\ PieceAt(c, 2 * c.n + 1) + Len(ValuesOf(c, 2)[2 * c.n + 1]) = PieceAt(c, 2 * c.n + 2)
<1> DEFINE n == c.n
           v == ValuesOf(c, 2)
           parts == PairsParts(c)
           from == ParamAt(c, 1)
           last == v[2 * n + 1]
           upTo == Joins(Ends(parts))
<1>1. n \in Nat /\ n # 0 /\ size \in Nat /\ from \in Nat
  BY BytesRead DEF ArePairs
<1>2. /\ parts \in Seq(Seq(Nat)) /\ Len(parts) = 2 * n + 1
      /\ last \in Seq(Nat) /\ ClosedAll(parts) \in Seq(Nat)
      /\ PairsPart(c) = ClosedAll(parts) \o last
  BY PairsText2, Zenon DEF PairsParts, PairsPart, AreClosed
<1>3. Len(last) \in Nat /\ Len(ClosedAll(parts)) \in Nat
  BY <1>2
<1>4. /\ \A q : q # 2 * n + 2 => PieceAt(c, q) = from + Len(upTo[q])
      /\ PieceAt(c, 2 * n + 2) = from + Len(PairsPart(c))
  BY Zenon DEF PieceAt
<1>5. Len(ClosedAll(parts)) = Len(upTo[2 * n + 1])
  <2>1. ClosedAll(parts) = Concat(Ends(parts)) /\ Len(Ends(parts)) = Len(parts)
    BY <1>2, EndsFacts, Zenon
  <2> QED BY <1>2, <2>1, Zenon DEF Concat
<1> HIDE DEF v, parts, from, last, upTo
<1>6. Joint(from, PairsPart(c), ClosedAll(parts), last)
  BY <1>1, <1>2, StandsJoined, Zenon
<1>7. /\ Stands(from, ClosedAll(parts)) /\ Stands(from + Len(upTo[2 * n + 1]), last)
      /\ Len(PairsPart(c)) = Len(upTo[2 * n + 1]) + Len(last)
  <2>1. Stands(from, PairsPart(c))
    BY Zenon DEF from
  <2> QED BY <1>5, <1>6, <2>1, Zenon DEF Joint
<1>8. /\ Len(upTo[0]) = 0
      /\ \A k \in 0 .. Len(parts) : Len(upTo[k]) \in Nat /\ from + Len(upTo[k]) <= size
      /\ \A k \in 1 .. Len(parts) :
             /\ Stands(from + Len(upTo[k - 1]), parts[k])
             /\ EndParam(from + Len(upTo[k - 1]) + Len(parts[k])) = from + Len(upTo[k])
  BY <1>1, <1>2, <1>7, ClosedStand, Zenon DEF upTo
<1>9. \A q \in 1 .. 2 * n + 1 : IsPiece(c, q)
  <2>1. TAKE q \in 1 .. 2 * n + 1
  <2>2. q # 2 * n + 2 /\ q - 1 # 2 * n + 2 /\ q \in 1 .. Len(parts)
    BY <1>1, <1>2, SMTT(30)
  <2>3. /\ Stands(from + Len(upTo[q - 1]), parts[q])
        /\ EndParam(from + Len(upTo[q - 1]) + Len(parts[q])) = from + Len(upTo[q])
    BY <1>8, <2>2
  <2>4. PieceAt(c, q - 1) = from + Len(upTo[q - 1]) /\ PieceAt(c, q) = from + Len(upTo[q])
    BY <1>4, <2>2
  <2> QED BY <2>3, <2>4, Zenon DEF IsPiece, parts
<1>10. /\ 2 * n + 1 # 2 * n + 2 /\ 0 # 2 * n + 2 /\ 2 * n + 1 \in 0 .. Len(parts)
  BY <1>1, <1>2
<1>11. PieceAt(c, 2 * n + 1) = from + Len(upTo[2 * n + 1]) /\ Len(upTo[2 * n + 1]) \in Nat
  BY <1>4, <1>8, <1>10
<1>12. PieceAt(c, 2 * n + 1) + Len(last) = PieceAt(c, 2 * n + 2) /\ PieceAt(c, 2 * n + 2) \in Nat
  <2> DEFINE a == Len(upTo[2 * n + 1])
             l == Len(last)
  <2>1. /\ a \in Nat /\ l \in Nat /\ PieceAt(c, 2 * n + 1) = from + a
        /\ PieceAt(c, 2 * n + 2) = from + (a + l)
    BY <1>3, <1>4, <1>7, <1>11, Zenon
  <2> HIDE DEF a, l
  <2> QED BY <1>1, <2>1 DEF l
<1>13. PieceAt(c, 2 * n + 2) <= size
  <2>1. PieceAt(c, 2 * n + 1) + Len(last) <= size
    BY <1>7, <1>11, Zenon DEF Stands
  <2> QED BY <1>12, <2>1, Zenon
<1>14. \A q \in 0 .. 2 * n + 2 : PieceAt(c, q) \in Nat /\ PieceAt(c, q) <= size
  <2>1. TAKE q \in 0 .. 2 * n + 2
  <2>2. CASE q = 2 * n + 2
    BY <1>12, <1>13, <2>2
  <2>3. CASE q # 2 * n + 2
    <3>1. q \in 0 .. Len(parts)
      <4>1. q \in 0 .. 2 * n + 1
        <5>1. n \in Nat /\ q \in 0 .. 2 * n + 2 /\ q # 2 * n + 2
          BY <1>1, <2>1, <2>3
        <5> HIDE DEF n
        <5> QED BY <5>1
      <4> QED BY <1>2, <4>1, Zenon
    <3>2. Len(upTo[q]) \in Nat /\ from + Len(upTo[q]) <= size /\ PieceAt(c, q) = from + Len(upTo[q])
      BY <1>4, <1>8, <2>3, <3>1
    <3> DEFINE x == Len(upTo[q])
    <3> HIDE DEF x
    <3>3. x \in Nat /\ from + x <= size /\ PieceAt(c, q) = from + x
      BY <3>2 DEF x
    <3> QED BY <1>1, <3>3
  <2> QED BY <2>2, <2>3
<1>15. PieceAt(c, 0) = from
  <2>1. PieceAt(c, 0) = from + 0
    BY <1>4, <1>8, <1>10
  <2> QED BY <1>1, <2>1
<1>16. Stands(PieceAt(c, 2 * n + 1), last)
  BY <1>7, <1>11, Zenon
<1> QED BY <1>9, <1>12, <1>14, <1>15, <1>16, Zenon DEF last, from, v

-----------------------------------------------------------------------------

\* A call with a list of pairs, and where that stands.
Peers(c) ==
    /\ c.signature = <<"ADDR", "PK_AMOUNT_PAIRS">>
    /\ c.n \in Nat /\ c.n # 0 /\ Len(c.values) = 2 * c.n + 2
    /\ ArePairs(c, ValuesOf(c, 2))
    /\ \A j \in 1 .. 2 * c.n + 1 : ValuesOf(c, 2)[j] = c.values[1 + j]
    /\ ParamAt(c, 1) \in Nat /\ Stands(ParamAt(c, 1), PairsPart(c))
    /\ Closed(PieceAt(c, 2 * c.n + 2)) = ParamAt(c, 2) /\ Found(ParamAt(c, 2))

LEMMA PeersLaid ==
    ASSUME Buffered, NEW contract \in Contracts, NEW method \in Methods(contract), NEW c,
           MadeFor(c, contract, method), Carries(c), type = c.type,
           NEW k \in 1 .. Len(c.signature), c.signature[k] = "PK_AMOUNT_PAIRS"
    PROVE  Peers(c) /\ k = 2 /\ FirstOf(c, 1) = 1
<1>1. /\ k = 2 /\ Len(c.signature) = 2 /\ c.signature = <<"ADDR", "PK_AMOUNT_PAIRS">>
      /\ FirstOf(c, 1) = 1 /\ Len(c.values) = 2 * c.n + 2 /\ ArePairs(c, ValuesOf(c, 2))
  BY PairsMade, Zenon
<1>2. c.n \in Nat /\ c.n # 0
  BY <1>1, Zenon DEF ArePairs
<1>3. ~IsList(c)
  BY <1>1 DEF IsList
<1>4. Worded(c) /\ Texts(c)
  BY <1>3, MadeWorded, MadeTexts, Zenon
<1>5. 2 \in 1 .. Len(c.signature) /\ 2 - 1 = 1 /\ c.signature[2] = "PK_AMOUNT_PAIRS"
  BY <1>1
<1>6. /\ ParamAt(c, 1) \in Nat /\ ParamAt(c, 2) <= size /\ Stands(ParamAt(c, 1), PairsPart(c))
      /\ Closed(ParamAt(c, 1) + Len(PairsPart(c))) = ParamAt(c, 2)
  <2>1. LET part == Part(c, c.signature[2], ValuesOf(c, 2))
            at   == ParamAt(c, 2 - 1)
        IN  /\ at \in Nat /\ ParamAt(c, 2) <= size /\ Stands(at, part)
            /\ Closed(at + Len(part)) = ParamAt(c, 2)
    BY <1>4, <1>5, ParamStandsAt, Zenon
  <2> QED BY <1>5, <2>1, Zenon DEF PairsPart
<1>7. PieceAt(c, 2 * c.n + 2) = ParamAt(c, 1) + Len(PairsPart(c))
  BY Zenon DEF PieceAt
<1>8. \A j \in 1 .. 2 * c.n + 1 : ValuesOf(c, 2)[j] = c.values[1 + j]
  <2>1. Len(Entries(c.signature[2], c.n)) = 2 * c.n + 1
    <3>1. c.signature[2] # "TRANSFER_STATE_LIST"
      BY <1>5
    <3> QED BY <1>5, <3>1, ParamValues, Zenon
  <2>2. OwnValues(c, 2)
    BY <1>5, MadeValues, Zenon DEF ValuesFit
  <2> QED BY <1>1, <1>5, <2>1, <2>2, Zenon DEF OwnValues
<1> QED BY <1>1, <1>2, <1>6, <1>7, <1>8, Zenon DEF Peers, Found

LEMMA PeersPieces ==
    ASSUME Buffered, NEW c, Peers(c)
    PROVE  /\ PieceAt(c, 0) = ParamAt(c, 1)
           /\ \A q \in 0 .. 2 * c.n + 2 : PieceAt(c, q) \in Nat /\ PieceAt(c, q) <= size
           /\ \A q \in 1 .. 2 * c.n + 1 : IsPiece(c, q)
           /\ Stands(PieceAt(c, 2 * c.n + 1), ValuesOf(c, 2)[2 * c.n + 1])
           /\ PieceAt(c, 2 * c.n + 1) + Len(ValuesOf(c, 2)[2 * c.n + 1]) = PieceAt(c, 2 * c.n + 2)
           /\ AreClosed(PairsParts(c), c.n, c.count, ValuesOf(c, 2))
           /\ PairsParts(c) \in Seq(Seq(Nat))
<1>1. /\ ArePairs(c, ValuesOf(c, 2)) /\ ParamAt(c, 1) \in Nat
      /\ Stands(ParamAt(c, 1), PairsPart(c))
  BY Zenon DEF Peers
<1>2. AreClosed(PairsParts(c), c.n, c.count, ValuesOf(c, 2)) /\ PairsParts(c) \in Seq(Seq(Nat))
  BY <1>1, PairsText2, Zenon DEF PairsParts
<1> QED BY <1>1, <1>2, PiecesLaid, Zenon

LEMMA FirstPiece ==
    ASSUME Buffered, NEW c, Peers(c)
    PROVE  LET at == ParamAt(c, 1)
           IN  /\ at \in Nat /\ IsAmount(at, c.n) /\ PairsCount(at) = c.n
               /\ convert_param_to_uint64_le(Slice(at, parse_amount(at) - at))
               /\ EndParam(parse_amount(at)) = PieceAt(c, 1) /\ Found(PieceAt(c, 1))
               /\ Pointed(AmountEntry(at)) = c.values[2]
<1> DEFINE at == ParamAt(c, 1)
           v == ValuesOf(c, 2)
<1>1. at \in Nat /\ c.n \in Nat /\ c.n # 0 /\ v[1] \in AmountForms(c.n)
  BY Zenon DEF Peers, ArePairs
<1>2. 1 \in 1 .. 2 * c.n + 1 /\ 1 \in 0 .. 2 * c.n + 2 /\ 1 - 1 = 0 /\ 1 + 1 = 2
  BY <1>1
<1>3. /\ PieceAt(c, 0) = at /\ IsPiece(c, 1) /\ PairsParts(c)[1] = v[1]
      /\ PieceAt(c, 1) <= size
  BY <1>2, PeersPieces, Zenon DEF AreClosed
<1>4. Stands(at, v[1]) /\ EndParam(at + Len(v[1])) = PieceAt(c, 1)
  BY <1>2, <1>3, Zenon DEF IsPiece
<1>5. /\ IsAmount(at, c.n) /\ PairsCount(at) = c.n
      /\ convert_param_to_uint64_le(Slice(at, parse_amount(at) - at))
      /\ parse_amount(at) = at + Len(v[1]) /\ Pointed(AmountEntry(at)) = v[1]
  BY <1>1, <1>4, FormStands, Zenon
<1>6. v[1] = c.values[2]
  BY <1>2, Zenon DEF Peers
<1> QED BY <1>1, <1>3, <1>4, <1>5, <1>6, Zenon DEF Found

LEMMA KeyPiece ==
    ASSUME Buffered, NEW c, Peers(c), NEW k \in 1 .. c.n
    PROVE  LET at == PieceAt(c, k)
           IN  /\ EndParam(parse_pk(at)) = PieceAt(c, k + 1) /\ Found(PieceAt(c, k + 1))
               /\ Pointed(KeyEntry(at)) = c.values[2 + k]
<1> DEFINE at == PieceAt(c, k)
           v == ValuesOf(c, 2)
<1>1. c.n \in Nat /\ IsValue("PUBKEY", v[1 + k])
  BY DEF Peers, ArePairs
<1>2. /\ 1 + k \in 1 .. 2 * c.n + 1 /\ k \in 0 .. 2 * c.n + 2 /\ k + 1 \in 0 .. 2 * c.n + 2
      /\ (1 + k) - 1 = k /\ 1 + k = k + 1 /\ 1 + (1 + k) = 2 + k
  BY <1>1
<1>3. /\ at \in Nat /\ IsPiece(c, 1 + k) /\ PairsParts(c)[1 + k] = WithLength(v[1 + k])
      /\ PieceAt(c, k + 1) <= size
  BY <1>2, PeersPieces, Zenon DEF AreClosed
<1>4. Stands(at, WithLength(v[1 + k])) /\ EndParam(at + Len(WithLength(v[1 + k]))) = PieceAt(c, k + 1)
  BY <1>2, <1>3, Zenon DEF IsPiece
<1>5. v[1 + k] \in Seq(Nat) /\ Len(v[1 + k]) = 2 * COMPRESSED_KEY_LEN
  <2>1. v[1 + k] \in Seq(Bytes) /\ Len(v[1 + k]) = 2 * COMPRESSED_KEY_LEN
    BY <1>1, Zenon DEF IsValue
  <2> QED BY <2>1, BytesAreNumbers, Zenon
<1>6. /\ parse_pk(at) = at + Len(WithLength(v[1 + k])) /\ Pointed(KeyEntry(at)) = v[1 + k]
  BY <1>3, <1>4, <1>5, KeyStands, Zenon
<1>7. v[1 + k] = c.values[2 + k]
  BY <1>2, Zenon DEF Peers
<1> QED BY <1>3, <1>4, <1>6, <1>7, Zenon DEF Found

LEMMA CountPiece ==
    ASSUME Buffered, NEW c, Peers(c)
    PROVE  /\ EndParam(parse_check_amount(PieceAt(c, c.n + 1), c.n)) = PieceAt(c, c.n + 2)
           /\ Found(PieceAt(c, c.n + 2))
<1> DEFINE at == PieceAt(c, c.n + 1)
           n == c.n
<1>1. n \in Nat /\ n # 0 /\ c.count \in AmountForms(n)
  BY Zenon DEF Peers, ArePairs
<1>2. /\ n + 2 \in 1 .. 2 * n + 1 /\ n + 1 \in 0 .. 2 * n + 2 /\ n + 2 \in 0 .. 2 * n + 2
      /\ (n + 2) - 1 = n + 1
  BY <1>1
<1>3. /\ at \in Nat /\ IsPiece(c, n + 2) /\ PairsParts(c)[n + 2] = c.count
      /\ PieceAt(c, n + 2) <= size
  BY <1>2, PeersPieces, Zenon DEF AreClosed
<1>4. Stands(at, c.count) /\ EndParam(at + Len(c.count)) = PieceAt(c, n + 2)
  BY <1>2, <1>3, Zenon DEF IsPiece
<1>5. parse_check_amount(at, n) = at + Len(c.count)
  BY <1>1, <1>3, <1>4, FormStands, Zenon
<1> QED BY <1>3, <1>4, <1>5, Zenon DEF Found

LEMMA AmountPiece ==
    ASSUME Buffered, NEW c, Peers(c), NEW k \in 1 .. c.n
    PROVE  LET at   == PieceAt(c, c.n + 1 + k)
               next == IF k # c.n THEN EndParam(parse_amount(at)) ELSE parse_amount(at)
           IN  /\ at \in Nat /\ next = PieceAt(c, c.n + 2 + k) /\ Found(next)
               /\ Pointed(AmountEntry(at)) = c.values[c.n + 2 + k]
<1> DEFINE n == c.n
           at == PieceAt(c, n + 1 + k)
           v == ValuesOf(c, 2)
<1>1. n \in Nat /\ n # 0 /\ IsValue("AMOUNT", v[1 + n + k])
  BY DEF Peers, ArePairs
<1>2. /\ n + 1 + k \in 0 .. 2 * n + 2 /\ n + 2 + k \in 0 .. 2 * n + 2
      /\ 1 + n + k \in 1 .. 2 * n + 1 /\ n + 2 + k = 1 + (1 + n + k) /\ 1 + n + k = n + 1 + k
  BY <1>1
<1>3. at \in Nat /\ PieceAt(c, n + 2 + k) <= size
  BY <1>2, PeersPieces, Zenon
<1>4. IsAmountText(v[1 + n + k])
  BY <1>1 DEF IsValue, IsAmountText
<1>5. v[1 + n + k] = c.values[n + 2 + k]
  BY <1>2, Zenon DEF Peers
<1>6. CASE k # n
  <2>1. n + 2 + k \in 1 .. 2 * n + 1 /\ (n + 2 + k) - 1 = n + 1 + k /\ k \in 1 .. n - 1
    BY <1>1, <1>6
  <2>2. IsPiece(c, n + 2 + k) /\ PairsParts(c)[n + 2 + k] = v[n + 1 + k]
    BY <2>1, PeersPieces, Zenon DEF AreClosed
  <2>3. Stands(at, v[1 + n + k]) /\ EndParam(at + Len(v[1 + n + k])) = PieceAt(c, n + 2 + k)
    BY <1>2, <2>1, <2>2, Zenon DEF IsPiece
  <2>4. parse_amount(at) = at + Len(v[1 + n + k]) /\ Pointed(AmountEntry(at)) = v[1 + n + k]
    BY <1>3, <1>4, <2>3, AmountStands, Zenon
  <2> QED BY <1>3, <1>5, <1>6, <2>3, <2>4, Zenon DEF Found
<1>7. CASE k = n
  <2>1. n + 1 + k = 2 * n + 1 /\ n + 2 + k = 2 * n + 2 /\ 1 + n + k = 2 * n + 1
    BY <1>1, <1>7
  <2>2. Stands(at, v[1 + n + k]) /\ at + Len(v[1 + n + k]) = PieceAt(c, n + 2 + k)
    BY <2>1, PeersPieces, Zenon
  <2>3. parse_amount(at) = at + Len(v[1 + n + k]) /\ Pointed(AmountEntry(at)) = v[1 + n + k]
    BY <1>3, <1>4, <2>2, AmountStands, Zenon
  <2> QED BY <1>3, <1>5, <1>7, <2>2, <2>3, Zenon DEF Found
<1> QED BY <1>6, <1>7

-----------------------------------------------------------------------------
(* Where the transfers of a list stand.                                    *)

\* The position behind the first j transfers.
StateAt(c, j) == Start + Len(Joins(StateTexts(c))[j])

LEMMA StatesLaid ==
    ASSUME Buffered, NEW contract \in Contracts, NEW method \in Methods(contract), NEW c,
           MadeFor(c, contract, method), IsList(c), Carries(c)
    PROVE  /\ c.n \in Nat /\ StateAt(c, 0) = Start /\ Len(c.values) = 3 * c.n
           /\ \A j \in 0 .. c.n : StateAt(c, j) \in Nat /\ StateAt(c, j) <= size
           /\ \A j \in 1 .. c.n :
                  /\ Stands(StateAt(c, j - 1), StateTexts(c)[j])
                  /\ StateAt(c, j) = StateAt(c, j - 1) + Len(StateTexts(c)[j])
           /\ Stands(StateAt(c, c.n), c.count) /\ c.count \in AmountForms(c.n)
           /\ Stands(StateAt(c, c.n) + Len(c.count), OPCODE_PACK)
           /\ StateAt(c, c.n) + Len(c.count) + 1 = NameAt(c)
<1> DEFINE parts == StateTexts(c)
           all == Concat(parts)
           t == c.count
           u2 == all \o t
           u3 == u2 \o OPCODE_PACK
           n == c.n
<1>1. /\ c.type = "NATIVE_CONTRACT" /\ n \in Nat /\ Len(c.values) = 3 * n
      /\ t \in AmountForms(n) /\ parts \in Seq(Seq(Nat)) /\ Len(parts) = n
      /\ ParamsCode(c) = u3
  BY ListMade
<1>2. Worded(c)
  BY MadeWorded, Zenon
<1>3. c.type # "WASMVM_CONTRACT"
  BY <1>1
<1>4. /\ all \in Seq(Nat) /\ t \in Seq(Nat) /\ OPCODE_PACK \in Seq(Nat)
      /\ Start \in Nat /\ size \in Nat
  BY <1>1, FormText, ConcatText, ConstantTexts, StartNat, BytesRead, Zenon
<1>5. Stands(Start, u3)
  <2>1. Stands(Start, ParamsCode(c))
    BY <1>1, <1>2, NativeLaid, Zenon
  <2> QED BY <1>1, <2>1, Zenon
<1>6. NameAt(c) = Start + Len(u3)
  BY <1>1, <1>3, Zenon DEF NameAt
<1>7. Len(OPCODE_PACK) = 1
  BY ConstantLengths
<1>8. Len(all) = Len(Joins(parts)[n])
  BY <1>1, Zenon DEF Concat
<1> HIDE DEF all, t, u2, u3, parts
<1>9. Joint(Start, u2, all, t)
  BY <1>4, StandsJoined, Zenon DEF u2
<1>10. u2 \in Seq(Nat) /\ Len(u2) = Len(all) + Len(t)
  BY <1>9, Zenon DEF Joint
<1>11. Joint(Start, u3, u2, OPCODE_PACK)
  BY <1>4, <1>10, StandsJoined, Zenon DEF u3
<1>12. Len(u3) = Len(u2) + 1
  BY <1>7, <1>11, Zenon DEF Joint
<1>13. Stands(Start, all) /\ Stands(Start + Len(all), t) /\ Stands(Start + Len(u2), OPCODE_PACK)
  BY <1>5, <1>9, <1>11, Zenon DEF Joint
<1>14. /\ Len(Joins(parts)[0]) = 0
       /\ \A k \in 0 .. Len(parts) : Len(Joins(parts)[k]) \in Nat
       /\ \A k \in 1 .. Len(parts) :
              /\ Stands(Start + Len(Joins(parts)[k - 1]), parts[k])
              /\ parts[k] \in Seq(Nat) /\ Len(parts[k]) \in Nat
              /\ Len(Joins(parts)[k]) = Len(Joins(parts)[k - 1]) + Len(parts[k])
       /\ \A k \in 0 .. Len(parts) : Start + Len(Joins(parts)[k]) <= size
  <2>1. Stands(Start, Concat(parts))
    BY <1>13, Zenon DEF all
  <2> QED BY <1>1, <1>4, <2>1, JoinsStand, Zenon
<1>15. \A j : StateAt(c, j) = Start + Len(Joins(parts)[j])
  BY Zenon DEF StateAt, parts
<1>16. StateAt(c, 0) = Start
  <2>1. StateAt(c, 0) = Start + 0
    BY <1>14, <1>15, Zenon
  <2> QED BY <1>4, <2>1
<1>17. \A j \in 0 .. n : StateAt(c, j) \in Nat /\ StateAt(c, j) <= size
  <2>1. TAKE j \in 0 .. n
  <2> DEFINE x == Len(Joins(parts)[j])
  <2>2. x \in Nat /\ Start + x <= size /\ StateAt(c, j) = Start + x
    BY <1>1, <1>14, <1>15, Zenon
  <2> HIDE DEF x
  <2> QED BY <1>4, <2>2
<1>18. \A j \in 1 .. n :
           /\ Stands(StateAt(c, j - 1), parts[j])
           /\ StateAt(c, j) = StateAt(c, j - 1) + Len(parts[j])
  <2>1. TAKE j \in 1 .. n
  <2> DEFINE x == Len(Joins(parts)[j])
             y == Len(Joins(parts)[j - 1])
             l == Len(parts[j])
  <2>2. /\ Stands(Start + y, parts[j]) /\ x = y + l /\ l \in Nat
        /\ StateAt(c, j) = Start + x /\ StateAt(c, j - 1) = Start + y
    BY <1>1, <1>14, <1>15, Zenon
  <2>3. y \in Nat
    <3>1. j - 1 \in 0 .. Len(parts)
      BY <1>1
    <3> QED BY <1>14, <3>1
  <2> HIDE DEF x, y
  <2>4. Stands(StateAt(c, j - 1), parts[j])
    BY <2>2, Zenon
  <2> HIDE DEF l
  <2>5. StateAt(c, j) = StateAt(c, j - 1) + l
    BY <1>4, <2>2, <2>3
  <2> QED BY <2>4, <2>5, Zenon DEF l
<1> DEFINE a == Len(all)
           k == Len(t)
           b == Len(u2)
<1>19. a \in Nat /\ k \in Nat /\ b = a + k /\ NameAt(c) = Start + (b + 1)
  <2>1. Len(all) \in Nat /\ Len(t) \in Nat
    BY <1>4
  <2> QED BY <1>6, <1>10, <1>12, <2>1, Zenon
<1>20. StateAt(c, n) = Start + a
  BY <1>8, <1>15, Zenon
<1> HIDE DEF a, k, b
<1>21. StateAt(c, n) + k = Start + b /\ Start + b + 1 = NameAt(c) /\ StateAt(c, n) + k + 1 = NameAt(c)
  BY <1>4, <1>19, <1>20
<1>22. Stands(StateAt(c, n), t) /\ Stands(StateAt(c, n) + k, OPCODE_PACK)
  BY <1>13, <1>20, <1>21, Zenon DEF a, b
<1> QED BY <1>1, <1>16, <1>17, <1>18, <1>21, <1>22, Zenon DEF parts, t, k

\* A transfer of the list, and the number behind the last one.
LEMMA TransferLaid ==
    ASSUME Buffered, NEW contract \in Contracts, NEW method \in Methods(contract), NEW c,
           MadeFor(c, contract, method), IsList(c), Carries(c), NEW j \in 1 .. c.n
    PROVE  LET at == StateAt(c, j - 1)
           IN  /\ Byte(at) = OPCODE_ST_BEGIN[1]
               /\ StateEnd(at) = StateAt(c, j) /\ Found(StateAt(c, j))
               /\ \A m \in 1 .. 3 : Pointed(StateEntries(at)[m]) = c.values[3 * (j - 1) + m]
<1> DEFINE at == StateAt(c, j - 1)
           v == StateValuesOf(c, j)
           part == StateTexts(c)[j]
<1>1. c.n \in Nat
  BY ListIs, Zenon
<1>2. j - 1 \in 0 .. c.n /\ j \in 0 .. c.n
  BY <1>1
<1>3. /\ at \in Nat /\ StateAt(c, j) <= size /\ Stands(at, part)
      /\ StateAt(c, j) = at + Len(part)
  BY <1>2, StatesLaid, Zenon
<1>4. /\ IsState(v) /\ part = Part(c, "TRANSFER_STATE", v)
      /\ \A m \in 1 .. 3 : v[m] = c.values[3 * (j - 1) + m]
  <2>1. TransferFits(c, j)
    BY TransferIs, Zenon
  <2> QED BY <2>1, Zenon DEF TransferFits
<1>5. Stands(at, Part(c, "TRANSFER_STATE", v))
  BY <1>3, <1>4, Zenon
<1> HIDE DEF at, v, part
<1>6. /\ StateEnd(at) = at + Len(Part(c, "TRANSFER_STATE", v))
      /\ \A m \in 1 .. 3 : Pointed(StateEntries(at)[m]) = v[m]
      /\ Byte(at) = OPCODE_ST_BEGIN[1]
  BY <1>3, <1>4, <1>5, StateStands
<1> QED BY <1>3, <1>4, <1>6, Zenon DEF Found, at

LEMMA TransfersEnd ==
    ASSUME Buffered, NEW contract \in Contracts, NEW method \in Methods(contract), NEW c,
           MadeFor(c, contract, method), IsList(c), Carries(c)
    PROVE  LET at == StateAt(c, c.n)
           IN  /\ Byte(at) # OPCODE_ST_BEGIN[1]
               /\ parse_check_constant(parse_check_amount(at, c.n), OPCODE_PACK) = NameAt(c)
               /\ Found(NameAt(c))
<1> DEFINE at == StateAt(c, c.n)
           t == c.count
<1>1. c.n \in Nat /\ t # << 0 >>
  BY ListMade
<1>2. c.n \in 0 .. c.n
  BY <1>1
<1>3. /\ at \in Nat /\ Stands(at, t) /\ t \in AmountForms(c.n)
      /\ Stands(at + Len(t), OPCODE_PACK) /\ at + Len(t) + 1 = NameAt(c)
  BY <1>2, StatesLaid, Zenon
<1>4. /\ parse_check_amount(at, c.n) = at + Len(t) /\ t \in Seq(Nat) /\ Len(t) \in Nat
  BY <1>1, <1>3, FormStands, Zenon
<1>5. t[1] # 0 /\ t # <<>>
  <2>1. IsAmountText(t) /\ (t # << 0 >> => t[1] # 0)
    BY <1>1, <1>3, FormReads, Zenon
  <2> QED BY <1>1, <2>1, Zenon DEF IsAmountText
<1> HIDE DEF at, t
<1>6. Byte(at) = t[1]
  <2>1. 1 \in 1 .. Len(t)
    BY <1>4, <1>5
  <2> QED BY <1>3, <2>1, Zenon DEF Stands, Byte
<1>7. OPCODE_ST_BEGIN[1] = 0
  BY DEF OPCODE_ST_BEGIN
<1>8. at + Len(t) \in Nat /\ Len(OPCODE_PACK) = 1 /\ OPCODE_PACK \in Seq(Nat)
  BY <1>3, <1>4, ConstantLengths, ConstantTexts
<1>9. /\ parse_check_constant(at + Len(t), OPCODE_PACK) = at + Len(t) + Len(OPCODE_PACK)
      /\ Found(at + Len(t) + Len(OPCODE_PACK))
  BY <1>3, <1>8, ConstantStands, Zenon
<1> QED BY <1>3, <1>4, <1>5, <1>6, <1>7, <1>8, <1>9, Zenon DEF at

-----------------------------------------------------------------------------
(* How far a call has been read.                                           *)

\* The type and the name are the call's.
HeadIs(c) ==
    /\ stage \in CallStages => type = c.type
    /\ stage \in NameStages => name = Name(NameAt(c))

\* The entries are the call's values.
Valued(c) == \A k \in DOMAIN params : Content(k) = c.values[k + 1]

\* The cursor is where the next part of the call stands.
AtParams(c) == stage = "params" => offset = ParamAt(c, Done) /\ cur = FirstOf(c, Done)

AtPieces(c) == stage \in {"keys", "amounts"} => num = c.n /\ offset = PieceAt(c, PiecesRead)

AtStates(c) == stage = "transfers" => i <= c.n /\ offset = StateAt(c, i)

\* A call that is known has been read as it was made, and nothing has been refused.
KnownSoFar(c) ==
    /\ stage \notin Statuses \ {"PARSING_OK"}
    /\ HeadIs(c) /\ Valued(c)
    /\ AtParams(c) /\ AtPieces(c) /\ AtStates(c)
    /\ Accepted => cur = Len(c.values)

\* One that is not known is not refused for anything else.
BlindSoFar(c) == stage \in AtStart \cup {"PARSING_TX_NOT_DEFINED"} /\ HeadIs(c)

\* What a call's places depend on stays with the transaction.
LEMMA PlacesStay ==
    ASSUME buf' = buf, NEW c
    PROVE  /\ NameAt(c)' = NameAt(c) /\ TailAt(c)' = TailAt(c)
           /\ Name(NameAt(c))' = Name(NameAt(c))
           /\ (Carries(c)' <=> Carries(c))
           /\ \A k : ParamAt(c, k)' = ParamAt(c, k)
           /\ \A j : StateAt(c, j)' = StateAt(c, j)
           /\ \A q : PieceAt(c, q)' = PieceAt(c, q)
<1>1. Start' = Start /\ size' = size
  BY SameBuffer
<1>2. Behind20' = Behind20
  BY <1>1 DEF Behind20
<1>3. NameAt(c)' = NameAt(c)
  BY <1>1, <1>2 DEF NameAt
<1>4. TailAt(c)' = TailAt(c)
  BY <1>3 DEF TailAt
<1>5. Name(NameAt(c))' = Name(NameAt(c))
  BY <1>3 DEF Name, Byte
<1>6. Carries(c)' <=> Carries(c)
  BY DEF Carries, Framed, tx_type, Byte, GasInRange, gas_price, gas_limit, Slice, size,
         PayloadAt, DeclaredPayload, Payload
<1>7. ParamsFrom(c)' = ParamsFrom(c)
  BY <1>1, <1>4 DEF ParamsFrom
<1>8. \A k : ParamAt(c, k)' = ParamAt(c, k)
  BY <1>7 DEF ParamAt
<1>9. \A j : StateAt(c, j)' = StateAt(c, j)
  BY <1>1 DEF StateAt
<1>10. \A q : PieceAt(c, q)' = PieceAt(c, q)
  BY <1>8 DEF PieceAt
<1> QED BY <1>3, <1>4, <1>5, <1>6, <1>8, <1>9, <1>10

LEMMA ValuedStays ==
    ASSUME buf' = buf, params' = params, NEW c, Valued(c)
    PROVE  Valued(c)'
BY DEF Valued, Content, Slice

LEMMA ValuedGrows ==
    ASSUME IInv, buf' = buf, NEW c, Valued(c), NEW n \in Nat, DOMAIN params = 0 .. n - 1,
           NEW entries, NEW m \in Nat, Len(entries) = m, Write(n, entries),
           \A k \in 1 .. m : Pointed(entries[k]) = c.values[n + k]
    PROVE  Valued(c)'
<1>1. Extended(n, entries, m)
  BY WrittenKeeps
<1> SUFFICES ASSUME NEW k \in DOMAIN params'
             PROVE  Content(k)' = c.values[k + 1]
  BY DEF Valued
<1>2. k \in 0 .. n + m - 1
  BY <1>1 DEF Extended
<1>3. CASE k \in 0 .. n - 1
  <2>1. params'[k] = params[k] /\ k \in DOMAIN params
    BY <1>1, <1>3 DEF Extended
  <2>2. Content(k)' = Content(k)
    BY <2>1 DEF Content, Slice
  <2> QED BY <2>1, <2>2 DEF Valued
<1>4. CASE k \notin 0 .. n - 1
  <2> DEFINE j == k - n + 1
  <2>1. j \in 1 .. m /\ n + j - 1 = k /\ n + j = k + 1
    BY <1>2, <1>4
  <2>2. params'[k] = entries[j]
    BY <1>1, <2>1 DEF Extended
  <2>3. Content(k)' = Pointed(entries[j])
    BY <2>2 DEF Content, Pointed, Slice
  <2> QED BY <2>1, <2>3
<1> QED BY <1>3, <1>4

\* The call that is carried is the one that is named.
LEMMA CarriedIsNamed ==
    ASSUME Buffered, HInv, NEW c, Worded(c), Carries(c), HeadIs(c), stage \in NameStages
    PROVE  Names(c) /\ type = c.type /\ name = Name(NameAt(c))
<1>1. CallFound /\ type = c.type /\ name = Name(NameAt(c))
  BY DEF HInv, CallHeld, HeadIs, NameStages
<1> QED BY <1>1, CalledIs

-----------------------------------------------------------------------------
(* From the header to the method, for any call.                            *)

\* One step further, whatever the call.
LEMMA HeadReads ==
    ASSUME InBuffers, IInv, HInv, NEW c, Worded(c), Carries(c), HeadIs(c),
           Header \/ PayloadSize \/ Contract \/ WasmMethod \/ Method
    PROVE  /\ stage' \in {"payload", "contract", "method", "lookup"}
           /\ buf' = buf /\ params' = params /\ HeadIs(c)'
<1>1. Buffered /\ PayloadInv
  BY DEF IInv
<1>2. CASE Header
  <2>1. Skip("payload", HeaderLength)
    BY <1>1, <1>2, HeaderReads
  <2> QED BY <2>1 DEF Skip, GoTo, list, HeadIs, NameStages, CallStages
<1>3. CASE PayloadSize
  <2>1. Skip("contract", Start)
    BY <1>1, <1>3, PayloadReads
  <2> QED BY <2>1 DEF Skip, GoTo, list, HeadIs, NameStages, CallStages
<1>4. CASE Contract
  <2>1. type' = c.type /\ stage' = "method" /\ UNCHANGED <<buf, name, list, loop>>
    BY <1>1, <1>4, ContractReads
  <2> QED BY <2>1 DEF list, HeadIs, NameStages, CallStages
<1>5. CASE WasmMethod \/ Method
  <2>1. stage = "method" /\ type = c.type
    BY <1>5 DEF WasmMethod, Method, HeadIs, CallStages
  <2>2. PICK next : SetMethod(NameAt(c), next)
    BY <1>5, <2>1, MethodReads, WasmMethodReads
  <2>3. /\ buf' = buf /\ params' = params /\ stage' = "lookup" /\ type' = type
        /\ name' = Name(NameAt(c))
    BY <2>2 DEF SetMethod, GoTo, list
  <2> QED BY <2>1, <2>3, PlacesStay DEF HeadIs
<1> QED BY <1>2, <1>3, <1>4, <1>5

\* Without a step to another stage, or with one that keeps them, the type and the
\* name stay the call's.
LEMMA HeadStays ==
    ASSUME SameCall, NEW c, HeadIs(c), stage \in NameStages
    PROVE  HeadIs(c)'
<1>1. type = c.type /\ name = Name(NameAt(c))
  BY DEF HeadIs, NameStages
<1>2. buf' = buf /\ type' = type /\ name' = name
  BY DEF SameCall
<1> QED BY <1>1, <1>2, PlacesStay DEF HeadIs

-----------------------------------------------------------------------------
(* The parameters of a known call, one after the other.                    *)

LEMMA KnownHere ==
    ASSUME IInv, HInv, NEW contract \in Contracts, NEW method \in Methods(contract), NEW c,
           MadeFor(c, contract, method), Carries(c), KnownSoFar(c), stage \in NameStages
    PROVE  /\ Buffered /\ Worded(c) /\ Names(c) /\ type = c.type /\ name = Name(NameAt(c))
           /\ TheContract = contract /\ TheMethod = method /\ KnownMethod # {}
           /\ Sig = c.signature /\ (IsTransferList <=> IsList(c))
           /\ AddressOf[TheContract] = c.address /\ NameOf[TheMethod] = c.method
<1>1. Buffered /\ HeadIs(c)
  BY DEF IInv, KnownSoFar
<1>2. Worded(c)
  BY MadeWorded
<1>3. Names(c) /\ type = c.type /\ name = Name(NameAt(c))
  BY <1>1, <1>2, CarriedIsNamed
<1> QED BY <1>1, <1>2, <1>3, KnownIs

LEMMA SoFar ==
    ASSUME SameCall, NEW c, KnownSoFar(c), stage \in NameStages, stage' \in NameStages,
           Valued(c)', AtParams(c)', AtPieces(c)', AtStates(c)',
           Accepted' => cur' = Len(c.values)
    PROVE  KnownSoFar(c)'
<1>1. HeadIs(c)'
  BY HeadStays DEF KnownSoFar
<1>2. stage' \notin Statuses \ {"PARSING_OK"}
  BY DEF NameStages, CallStages, Statuses
<1> QED BY <1>1, <1>2 DEF KnownSoFar

LEMMA StartTransfersReads ==
    ASSUME IInv, HInv, NEW contract \in Contracts, NEW method \in Methods(contract), NEW c,
           MadeFor(c, contract, method), Carries(c), KnownSoFar(c), StartTransfers
    PROVE  KnownSoFar(c)'
<1>1. /\ stage = "lookup" /\ IsTransferList /\ stage' = "transfers" /\ offset' = offset
      /\ i' = 0 /\ buf' = buf /\ params' = params /\ SameCall
  BY DEF StartTransfers, GoTo, call, list, SameCall
<1>2. stage \in NameStages /\ stage' \in NameStages
  BY <1>1 DEF NameStages, CallStages
<1>3. Buffered /\ IsList(c)
  BY <1>1, <1>2, KnownHere
<1>4. offset = Start
  BY <1>1 DEF HInv, CallHeld, IsTransferList, Native, Wasm
<1>5. StateAt(c, 0) = Start /\ c.n \in Nat
  BY <1>3, StatesLaid
<1>6. StateAt(c, 0)' = StateAt(c, 0)
  BY <1>1, PlacesStay
<1>7. Valued(c)'
  BY <1>1, ValuedStays DEF KnownSoFar
<1>8. AtStates(c)'
  BY <1>1, <1>4, <1>5, <1>6 DEF AtStates
<1>9. AtParams(c)' /\ AtPieces(c)' /\ ~Accepted'
  BY <1>1 DEF AtParams, AtPieces, Accepted
<1> QED BY <1>1, <1>2, <1>7, <1>8, <1>9, SoFar

\* In front of the parameters.
LEMMA ParamsBegin ==
    ASSUME Buffered, NEW c, Carries(c), Worded(c), Texts(c), type = c.type, HInv, stage = "lookup"
    PROVE  LET at == IF Native THEN parse_check_constant(offset, OPCODE_ST_BEGIN) ELSE offset
           IN  at = ParamsFrom(c) /\ Found(at)
<1>1. Around(c)
  BY AroundHolds
<1>2. offset = IF Wasm THEN parse_method_name(Behind20 + 1) ELSE Start
  BY DEF HInv, CallHeld
<1>3. Start \in Nat /\ size \in Nat
  BY StartNat, BytesRead
<1>4. CASE Native
  <2>1. c.type = "NATIVE_CONTRACT" /\ offset = Start
    BY <1>2, <1>4 DEF Native, Wasm
  <2>2. Stands(Start, OPCODE_ST_BEGIN) /\ ParamsFrom(c) = Start + 3
    BY <1>1, <2>1 DEF Around, ParamsFrom
  <2>3. OPCODE_ST_BEGIN \in Seq(Nat) /\ Len(OPCODE_ST_BEGIN) = 3
    BY ConstantTexts, ConstantLengths
  <2>4. /\ parse_check_constant(Start, OPCODE_ST_BEGIN) = Start + Len(OPCODE_ST_BEGIN)
        /\ Found(Start + Len(OPCODE_ST_BEGIN))
    BY <1>3, <2>2, <2>3, ConstantStands
  <2> QED BY <1>4, <2>1, <2>2, <2>3, <2>4, Zenon
<1>5. CASE Wasm
  <2>1. c.type = "WASMVM_CONTRACT" /\ ~Native
    BY <1>5 DEF Native, Wasm
  <2>2. /\ NameAt(c) = Behind20 + 1 /\ NameAt(c) \in Nat
        /\ Stands(NameAt(c), WithLength(c.method)) /\ TailAt(c) \in Nat
    BY <2>1, WasmLaid, SMTT(30)
  <2>3. c.method \in Seq(Nat) /\ Len(c.method) \in 1 .. 255
    BY WordsText
  <2>4. parse_method_name(NameAt(c)) = TailAt(c) /\ Found(TailAt(c))
    BY <2>2, <2>3, NameStands, Zenon DEF TailAt
  <2>5. ParamsFrom(c) = TailAt(c)
    BY <2>1 DEF ParamsFrom
  <2>6. offset = parse_method_name(NameAt(c))
    BY <1>2, <1>5, <2>2, Zenon
  <2> QED BY <2>1, <2>4, <2>5, <2>6, Zenon
<1>6. CASE ~Native /\ ~Wasm
  <2>1. ParamsFrom(c) = Start /\ offset = Start
    BY <1>2, <1>6 DEF ParamsFrom, Native, Wasm
  <2>2. Start <= size
    BY PayloadStands
  <2> QED BY <1>6, <2>1, <2>2 DEF Found
<1> QED BY <1>4, <1>5, <1>6

LEMMA StartParamsReads ==
    ASSUME IInv, HInv, NEW contract \in Contracts, NEW method \in Methods(contract), NEW c,
           MadeFor(c, contract, method), Carries(c), KnownSoFar(c), StartParams
    PROVE  KnownSoFar(c)'
<1> DEFINE at == IF Native THEN parse_check_constant(offset, OPCODE_ST_BEGIN) ELSE offset
<1>1. stage = "lookup" /\ ~IsTransferList
  BY DEF StartParams
<1>2. stage \in NameStages
  BY <1>1 DEF NameStages, CallStages
<1>3. /\ Buffered /\ Worded(c) /\ type = c.type /\ ~IsList(c) /\ KnownMethod # {}
      /\ Sig = c.signature
  BY <1>1, <1>2, KnownHere
<1>4. Texts(c)
  BY <1>3, MadeTexts
<1>5. at = ParamsFrom(c) /\ Found(at)
  BY <1>1, <1>3, <1>4, ParamsBegin
<1>6. /\ todo' = Sig /\ stage' = "params" /\ offset' = at
      /\ UNCHANGED <<buf, call, params, cur, num, i>>
  BY <1>3, <1>5 DEF StartParams, GoTo, Sig, Refuse, Stop
<1>7. SameCall /\ buf' = buf
  BY <1>6 DEF SameCall, call
<1>8. Sig' = Sig /\ Len(c.signature) \in Nat
  BY <1>7, SameTable, MadeSizes
<1>9. Done' = 0
  BY <1>3, <1>6, <1>8 DEF Done
<1>10. ParamAt(c, 0)' = ParamAt(c, 0) /\ ParamAt(c, 0) = ParamsFrom(c)
  BY <1>3, <1>4, <1>7, PlacesStay, FirstParamAt
<1>11. cur = 0 /\ FirstOf(c, 0) = 0
  BY <1>1, MadeSizes DEF IInv, ParamsInv
<1>12. AtParams(c)'
  BY <1>5, <1>6, <1>9, <1>10, <1>11 DEF AtParams
<1>13. Valued(c)'
  BY <1>6, ValuedStays DEF KnownSoFar
<1>14. AtStates(c)' /\ AtPieces(c)' /\ ~Accepted' /\ stage' \in NameStages
  BY <1>6 DEF AtStates, AtPieces, Accepted, NameStages, CallStages
<1> QED BY <1>2, <1>7, <1>12, <1>13, <1>14, SoFar

-----------------------------------------------------------------------------

\* What is known in front of a parameter.
LEMMA AtKnownParam ==
    ASSUME IInv, KInv, HInv, NEW contract \in Contracts, NEW method \in Methods(contract), NEW c,
           MadeFor(c, contract, method), Carries(c), KnownSoFar(c), stage = "params", todo # <<>>,
           NEW k, k = Done + 1
    PROVE  /\ Buffered /\ type = c.type /\ ~IsList(c) /\ stage \in NameStages
           /\ k \in 1 .. Len(c.signature) /\ Len(c.signature) \in Nat
           /\ Head(todo) = c.signature[k] /\ k - 1 = Done
           /\ offset = ParamAt(c, k - 1) /\ cur = FirstOf(c, k - 1) /\ cur \in Nat
           /\ DOMAIN params = 0 .. cur - 1
           /\ Len(Entries(c.signature[k], c.n)) \in Nat
           /\ FirstOf(c, k) = cur + Len(Entries(c.signature[k], c.n))
           /\ FirstOf(c, k) <= Len(c.values) /\ Len(c.values) <= PARAMETERS_MAX_NUM
           /\ Len(c.values) \in Nat /\ PARAMETERS_MAX_NUM \in Nat
<1>1. stage \in NameStages
  BY DEF NameStages, CallStages
<1>2. /\ Buffered /\ type = c.type /\ Sig = c.signature /\ (IsTransferList <=> IsList(c))
  BY <1>1, KnownHere
<1>3. Done \in Nat /\ Done + 1 \in 1 .. Len(Sig) /\ Sig[Done + 1] = Head(todo) /\ Len(Sig) \in Nat
      /\ cur \in Nat
  BY AtParamHeld
<1>4. ~IsTransferList
  BY AtParamKinds DEF AtSignature
<1>5. k - 1 = Done
  BY <1>3
<1>6. offset = ParamAt(c, k - 1) /\ cur = FirstOf(c, k - 1)
  BY <1>5 DEF KnownSoFar, AtParams
<1>7. k \in 1 .. Len(c.signature) /\ Head(todo) = c.signature[k] /\ Len(c.signature) \in Nat
  BY <1>2, <1>3
<1>8. /\ Len(Entries(c.signature[k], c.n)) \in Nat
      /\ FirstOf(c, k) = FirstOf(c, k - 1) + Len(Entries(c.signature[k], c.n))
      /\ FirstOf(c, k) <= Len(c.values) /\ Len(c.values) <= PARAMETERS_MAX_NUM
      /\ Len(c.values) \in Nat
  <2>1. k \in 0 .. Len(c.signature)
    BY <1>7
  <2> QED BY <1>7, <2>1, MadeSizes
<1>9. DOMAIN params = 0 .. cur - 1
  <2>1. Working /\ Written = cur
    BY DEF Working, Statuses, Written
  <2> QED BY <2>1, EntriesWritten
<1> QED BY <1>1, <1>2, <1>3, <1>4, <1>5, <1>6, <1>7, <1>8, <1>9, SizeAssumption

\* A parameter has been read.
LEMMA NextKnownParam ==
    ASSUME IInv, KInv, HInv, NEW c, KnownSoFar(c), stage = "params", stage' = "params", SameCall,
           todo # <<>>, todo' = Tail(todo), NEW k, k = Done + 1,
           offset' = ParamAt(c, k), cur' = FirstOf(c, k), Valued(c)'
    PROVE  KnownSoFar(c)'
<1>1. buf' = buf /\ Sig' = Sig
  BY SameTable
<1>2. Len(todo) \in Nat /\ Len(Sig) \in Nat /\ Len(todo') = Len(todo) - 1
  <2>1. todo \in Seq(ParameterTypes)
    BY DEF IInv, TypeInv
  <2>2. Len(Sig) \in Nat
    BY AtParamHeld
  <2>3. Len(Tail(todo)) = Len(todo) - 1 /\ Len(todo) \in Nat
    BY <2>1
  <2> QED BY <2>2, <2>3
<1>3. Done' = k
  BY <1>1, <1>2 DEF Done
<1>4. ParamAt(c, k)' = ParamAt(c, k)
  BY <1>1, PlacesStay
<1>5. AtParams(c)'
  BY <1>3, <1>4 DEF AtParams
<1>6. /\ AtPieces(c)' /\ AtStates(c)' /\ ~Accepted' /\ stage \in NameStages
      /\ stage' \in NameStages
  BY DEF AtPieces, AtStates, Accepted, NameStages, CallStages
<1> QED BY <1>5, <1>6, SoFar

LEMMA SimpleParamReads ==
    ASSUME IInv, KInv, HInv, NEW contract \in Contracts, NEW method \in Methods(contract), NEW c,
           MadeFor(c, contract, method), Carries(c), KnownSoFar(c), SimpleParam
    PROVE  KnownSoFar(c)'
<1> DEFINE kind  == Head(todo)
           next  == Closed(SimpleEnd(kind, offset))
           entry == SimpleEntry(kind, offset)
           k     == Done + 1
<1>1. kind \in SimpleKinds /\ stage = "params" /\ todo # <<>>
  BY DEF SimpleParam, NextIs
<1>2. /\ Buffered /\ type = c.type /\ ~IsList(c)
      /\ k \in 1 .. Len(c.signature) /\ kind = c.signature[k]
      /\ offset = ParamAt(c, k - 1) /\ cur = FirstOf(c, k - 1) /\ cur \in Nat
      /\ DOMAIN params = 0 .. cur - 1
      /\ FirstOf(c, k) = cur + Len(Entries(c.signature[k], c.n))
      /\ FirstOf(c, k) <= Len(c.values) /\ Len(c.values) <= PARAMETERS_MAX_NUM
      /\ Len(c.values) \in Nat /\ PARAMETERS_MAX_NUM \in Nat
  BY <1>1, AtKnownParam
<1>3. Len(Entries(kind, c.n)) = 1
  BY <1>1 DEF SimpleKinds, Entries
<1>4. next = ParamAt(c, k) /\ Found(next) /\ Pointed(entry) = c.values[cur + 1]
  <2>1. c.signature[k] \in SimpleKinds
    BY <1>1, <1>2
  <2>2. /\ Closed(SimpleEnd(c.signature[k], ParamAt(c, k - 1))) = ParamAt(c, k)
        /\ Found(ParamAt(c, k))
        /\ Pointed(SimpleEntry(c.signature[k], ParamAt(c, k - 1))) = c.values[FirstOf(c, k - 1) + 1]
    BY <1>2, <2>1, SimpleLaid
  <2> HIDE DEF k
  <2> QED BY <1>2, <2>2, Zenon
<1>5. HasRoom
  <2>1. FirstOf(c, k) = cur + 1
    BY <1>2, <1>3, Zenon
  <2> HIDE DEF k
  <2> QED BY <1>2, <2>1 DEF HasRoom
<1>6. /\ Write(cur, <<entry>>) /\ cur' = cur + 1 /\ todo' = Tail(todo)
      /\ stage' = "params" /\ offset' = next /\ UNCHANGED <<buf, call, num, i>>
  BY <1>4, <1>5 DEF SimpleParam, GoTo
<1>7. SameCall /\ buf' = buf
  BY <1>6 DEF SameCall, call
<1>8. cur' = FirstOf(c, k) /\ offset' = ParamAt(c, k)
  BY <1>2, <1>3, <1>4, <1>6
<1>9. Valued(c)'
  <2> DEFINE entries == <<entry>>
  <2>1. Write(cur, entries) /\ Len(entries) = 1 /\ entries[1] = entry /\ 1 \in Nat
    BY <1>6
  <2>2. Valued(c)
    BY DEF KnownSoFar
  <2> HIDE DEF entries, entry, k, kind, next
  <2>3. \A j \in 1 .. 1 : Pointed(entries[j]) = c.values[cur + j]
    BY <1>4, <2>1
  <2> QED BY <1>2, <1>7, <2>1, <2>2, <2>3, ValuedGrows
<1> HIDE DEF kind, next, entry, k
<1> QED BY <1>1, <1>6, <1>7, <1>8, <1>9, NextKnownParam DEF k

LEMMA OntIdReads ==
    ASSUME IInv, KInv, HInv, NEW contract \in Contracts, NEW method \in Methods(contract), NEW c,
           MadeFor(c, contract, method), Carries(c), KnownSoFar(c), OntId
    PROVE  KnownSoFar(c)'
<1> DEFINE next == Closed(parse_ont_id(offset))
           k    == Done + 1
<1>1. Head(todo) = "ONTID" /\ stage = "params" /\ todo # <<>>
  BY DEF OntId, NextIs
<1>2. /\ Buffered /\ type = c.type /\ ~IsList(c)
      /\ k \in 1 .. Len(c.signature) /\ Head(todo) = c.signature[k] /\ Len(c.signature) \in Nat
      /\ offset = ParamAt(c, k - 1) /\ cur = FirstOf(c, k - 1) /\ cur \in Nat
      /\ FirstOf(c, k) = cur + Len(Entries(c.signature[k], c.n))
      /\ Len(c.values) <= PARAMETERS_MAX_NUM
      /\ Len(c.values) \in Nat /\ PARAMETERS_MAX_NUM \in Nat
  BY <1>1, AtKnownParam
<1>3. c.signature[k] = "ONTID" /\ Len(Entries("ONTID", c.n)) = 0 /\ Len(Entries("AMOUNT", c.n)) = 1
  BY <1>1, <1>2 DEF Entries
<1>4. next = ParamAt(c, k) /\ Found(next)
  BY <1>2, <1>3, IdentityLaid
<1> HIDE DEF k
<1>5. FirstOf(c, k) = cur
  BY <1>2, <1>3
<1>6. HasRoom
  <2>1. k + 1 \in 1 .. Len(c.signature) /\ c.signature[k + 1] = "AMOUNT"
    <3>1. c.signature = Signature(contract, method)
      BY MadeSizes
    <3> QED BY <1>2, <1>3, <3>1, IdentityFollowed
  <2>2. k + 1 \in 0 .. Len(c.signature) /\ (k + 1) - 1 = k
    BY <1>2, <2>1
  <2>3. /\ FirstOf(c, k + 1) = FirstOf(c, (k + 1) - 1) + Len(Entries(c.signature[k + 1], c.n))
        /\ FirstOf(c, k + 1) <= Len(c.values)
    BY <2>1, <2>2, MadeSizes
  <2>4. FirstOf(c, k + 1) = cur + 1
    BY <1>3, <1>5, <2>1, <2>2, <2>3
  <2> QED BY <1>2, <2>3, <2>4, SMTT(30) DEF HasRoom
<1>7. /\ todo' = Tail(todo) /\ stage' = "params" /\ offset' = next
      /\ UNCHANGED <<buf, call, params, cur, num, i>>
  BY <1>4, <1>6 DEF OntId, GoTo
<1>8. SameCall /\ buf' = buf
  BY <1>7 DEF SameCall, call
<1>9. Valued(c)'
  BY <1>7, ValuedStays DEF KnownSoFar
<1> QED BY <1>1, <1>4, <1>5, <1>7, <1>8, <1>9, NextKnownParam DEF k

LEMMA TransferStateParamReads ==
    ASSUME IInv, KInv, HInv, NEW contract \in Contracts, NEW method \in Methods(contract), NEW c,
           MadeFor(c, contract, method), Carries(c), KnownSoFar(c), TransferStateParam
    PROVE  KnownSoFar(c)'
<1> DEFINE next    == Closed(StateEnd(offset))
           entries == StateEntries(offset)
           k       == Done + 1
<1>1. Head(todo) = "TRANSFER_STATE" /\ stage = "params" /\ todo # <<>>
  BY DEF TransferStateParam, NextIs
<1>2. /\ Buffered /\ type = c.type /\ ~IsList(c)
      /\ k \in 1 .. Len(c.signature) /\ Head(todo) = c.signature[k]
      /\ offset = ParamAt(c, k - 1) /\ cur = FirstOf(c, k - 1) /\ cur \in Nat
      /\ DOMAIN params = 0 .. cur - 1
      /\ FirstOf(c, k) = cur + Len(Entries(c.signature[k], c.n))
      /\ FirstOf(c, k) <= Len(c.values) /\ Len(c.values) <= PARAMETERS_MAX_NUM
      /\ Len(c.values) \in Nat /\ PARAMETERS_MAX_NUM \in Nat
  BY <1>1, AtKnownParam
<1>3. c.signature[k] = "TRANSFER_STATE" /\ Len(Entries("TRANSFER_STATE", c.n)) = 3
  BY <1>1, <1>2, TripleIs DEF Entries
<1>4. /\ next = ParamAt(c, k) /\ Found(next)
      /\ \A j \in 1 .. 3 : Pointed(entries[j]) = c.values[cur + j]
  <2>1. /\ Closed(StateEnd(ParamAt(c, k - 1))) = ParamAt(c, k) /\ Found(ParamAt(c, k))
        /\ \A j \in 1 .. 3 :
               Pointed(StateEntries(ParamAt(c, k - 1))[j]) = c.values[FirstOf(c, k - 1) + j]
    BY <1>2, <1>3, StateLaid, ZenonT(30)
  <2> HIDE DEF k
  <2> QED BY <1>2, <2>1, Zenon
<1>5. Len(entries) = 3
  BY DEF StateEntries
<1> HIDE DEF k, next, entries
<1>6. FirstOf(c, k) = cur + 3
  BY <1>2, <1>3
<1>7. HasRoom /\ RoomForState
  BY <1>2, <1>6 DEF HasRoom, RoomForState
<1>8. /\ Write(cur, entries) /\ cur' = cur + 3 /\ todo' = Tail(todo)
      /\ stage' = "params" /\ offset' = next /\ UNCHANGED <<buf, call, num, i>>
  BY <1>4, <1>7 DEF TransferStateParam, GoTo, next, entries
<1>9. SameCall /\ buf' = buf
  BY <1>8 DEF SameCall, call
<1>10. Valued(c)'
  <2>1. Valued(c) /\ 3 \in Nat
    BY DEF KnownSoFar
  <2> QED BY <1>2, <1>4, <1>5, <1>8, <1>9, <2>1, ValuedGrows
<1> QED BY <1>1, <1>4, <1>6, <1>8, <1>9, <1>10, NextKnownParam DEF k

LEMMA ListParamReads ==
    ASSUME IInv, KInv, HInv, NEW contract \in Contracts, NEW method \in Methods(contract), NEW c,
           MadeFor(c, contract, method), Carries(c), KnownSoFar(c), ListParam
    PROVE  FALSE
<1> DEFINE k == Done + 1
<1>1. Head(todo) = "TRANSFER_STATE_LIST" /\ stage = "params" /\ todo # <<>>
  BY DEF ListParam, NextIs
<1>2. ~IsList(c) /\ k \in 1 .. Len(c.signature) /\ Head(todo) = c.signature[k]
  BY <1>1, AtKnownParam
<1> QED BY <1>1, <1>2, MadeTexts

-----------------------------------------------------------------------------
(* The list of pairs of a known call.                                      *)

\* Twice the number of pairs, and two, fit a word and the array.
LEMMA PairsCountFits ==
    ASSUME NEW n \in Nat, n # 0, 2 * n + 2 <= PARAMETERS_MAX_NUM
    PROVE  (n * 2 + 1 + 1) % UINT64 = 2 * n + 2 /\ 1 < PARAMETERS_MAX_NUM
<1> DEFINE m == 2 * n + 2
<1>1. m \in Nat /\ n * 2 + 1 + 1 = m /\ 1 < m
  OBVIOUS
<1>2. PARAMETERS_MAX_NUM \in Nat /\ UINT64 \in Nat
  BY SizeAssumption, WordAssumption
<1> HIDE DEF m
<1>3. m <= PARAMETERS_MAX_NUM
  BY DEF m
<1>4. m < UINT64
  BY <1>1, <1>2, <1>3, CapacityAssumption
<1>5. m % UINT64 = m
  BY <1>1, <1>2, <1>4, SmallRemainder
<1> QED BY <1>1, <1>2, <1>3, <1>5 DEF m

LEMMA StartPairsReads ==
    ASSUME IInv, KInv, HInv, NEW contract \in Contracts, NEW method \in Methods(contract), NEW c,
           MadeFor(c, contract, method), Carries(c), KnownSoFar(c), StartPairs
    PROVE  KnownSoFar(c)'
<1> DEFINE at == ParamAt(c, 1)
<1>1. Head(todo) = "PK_AMOUNT_PAIRS" /\ stage = "params" /\ todo # <<>>
  BY DEF StartPairs, NextIs
<1>2. Done = 1 /\ cur = 1
  BY AtPairs DEF StartPairs
<1>3. /\ Buffered /\ type = c.type /\ 2 \in 1 .. Len(c.signature)
      /\ c.signature[2] = "PK_AMOUNT_PAIRS" /\ DOMAIN params = 0 .. 1 - 1
      /\ Len(c.values) <= PARAMETERS_MAX_NUM
  <2>1. PICK k : k = Done + 1
    OBVIOUS
  <2>2. k = 2
    BY <1>2, <2>1
  <2>3. /\ Buffered /\ type = c.type /\ k \in 1 .. Len(c.signature)
        /\ Head(todo) = c.signature[k] /\ DOMAIN params = 0 .. cur - 1
        /\ Len(c.values) <= PARAMETERS_MAX_NUM
    BY <1>1, <2>1, AtKnownParam
  <2> QED BY <1>1, <1>2, <2>2, <2>3, Zenon
<1>4. Peers(c)
  BY <1>3, PeersLaid
<1>5. c.n \in Nat /\ c.n # 0 /\ Len(c.values) = 2 * c.n + 2
  BY <1>4 DEF Peers
<1>6. offset = at
  BY <1>1, <1>2 DEF KnownSoFar, AtParams
<1>7. /\ PairsCount(at) = c.n
      /\ convert_param_to_uint64_le(Slice(at, parse_amount(at) - at))
      /\ EndParam(parse_amount(at)) = PieceAt(c, 1) /\ Found(PieceAt(c, 1))
      /\ Pointed(AmountEntry(at)) = c.values[2]
  BY <1>3, <1>4, FirstPiece, Zenon
<1>8. (c.n * 2 + 1 + 1) % UINT64 = 2 * c.n + 2 /\ 1 < PARAMETERS_MAX_NUM
  BY <1>3, <1>5, PairsCountFits
<1> HIDE DEF at
<1>9. HasRoom /\ PairsFit(offset)
  <2>1. (PairsCount(at) * 2 + 1 + cur) % UINT64 <= PARAMETERS_MAX_NUM
    BY <1>2, <1>3, <1>5, <1>7, <1>8
  <2> QED BY <1>2, <1>5, <1>6, <1>7, <1>8, <2>1 DEF HasRoom, PairsFit
<1>10. /\ Write(cur, <<AmountEntry(offset)>>) /\ num' = PairsCount(offset) /\ i' = 1
       /\ stage' = "keys" /\ offset' = EndParam(parse_amount(offset))
       /\ UNCHANGED <<buf, call, cur, todo>>
  BY <1>9 DEF StartPairs, GoTo
<1>11. SameCall /\ buf' = buf
  BY <1>10 DEF SameCall, call
<1>12. AtPieces(c)'
  <2>1. PiecesRead' = 1
    BY <1>10 DEF PiecesRead
  <2>2. num' = c.n /\ offset' = PieceAt(c, 1) /\ PieceAt(c, 1)' = PieceAt(c, 1)
    BY <1>6, <1>7, <1>10, <1>11, PlacesStay
  <2> QED BY <2>1, <2>2 DEF AtPieces
<1>13. Valued(c)'
  <2> DEFINE entry == AmountEntry(offset)
             entries == <<entry>>
  <2>1. /\ Write(1, entries) /\ Len(entries) = 1 /\ entries[1] = entry /\ 1 \in Nat
        /\ Pointed(entry) = c.values[2]
    BY <1>2, <1>6, <1>7, <1>10
  <2>2. Valued(c)
    BY DEF KnownSoFar
  <2> HIDE DEF entries, entry
  <2>3. \A j \in 1 .. 1 : Pointed(entries[j]) = c.values[1 + j]
    BY <2>1
  <2> QED BY <1>3, <1>11, <2>1, <2>2, <2>3, ValuedGrows
<1>14. /\ AtParams(c)' /\ AtStates(c)' /\ ~Accepted'
       /\ stage \in NameStages /\ stage' \in NameStages
  BY <1>1, <1>10 DEF AtParams, AtStates, Accepted, NameStages, CallStages
<1> QED BY <1>11, <1>12, <1>13, <1>14, SoFar

\* What is known in the list.
LEMMA AtKnownPeers ==
    ASSUME IInv, KInv, HInv, NEW contract \in Contracts, NEW method \in Methods(contract), NEW c,
           MadeFor(c, contract, method), Carries(c), KnownSoFar(c), stage \in {"keys", "amounts"}
    PROVE  /\ Buffered /\ Peers(c) /\ cur = 1 /\ num = c.n /\ num \in Nat /\ num # 0
           /\ i \in Nat /\ 1 <= i /\ i <= num + 1
           /\ offset = PieceAt(c, PiecesRead) /\ Valued(c) /\ stage \in NameStages
           /\ stage = "keys" => DOMAIN params = 0 .. (1 + i) - 1
           /\ stage = "amounts" => DOMAIN params = 0 .. (1 + num + i) - 1
           /\ FirstOf(c, 2) = 2 * num + 2 /\ Len(c.values) = 2 * num + 2
           /\ Sig = c.signature /\ Len(Sig) = 2
<1>1. stage \in NameStages
  BY DEF NameStages, CallStages
<1>2. Buffered /\ type = c.type /\ Sig = c.signature
  BY <1>1, KnownHere
<1>3. /\ Sig = <<"ADDR", "PK_AMOUNT_PAIRS">> /\ cur = 1 /\ num \in Nat /\ i \in Nat /\ 1 <= i
      /\ i <= num + 1
      /\ stage = "keys" => DOMAIN params = 0 .. (1 + i) - 1
      /\ stage = "amounts" => DOMAIN params = 0 .. (1 + num + i) - 1
  BY AtPeers
<1>4. Len(Sig) = 2 /\ 2 \in 1 .. Len(c.signature) /\ c.signature[2] = "PK_AMOUNT_PAIRS"
  BY <1>2, <1>3
<1>5. Peers(c)
  BY <1>2, <1>4, PeersLaid
<1>6. num = c.n /\ offset = PieceAt(c, PiecesRead) /\ Valued(c)
  BY DEF KnownSoFar, AtPieces
<1>7. c.n # 0 /\ Len(c.values) = 2 * c.n + 2
  BY <1>5 DEF Peers
<1>8. FirstOf(c, 2) = Len(c.values)
  <2>1. FirstOf(c, Len(c.signature)) = Len(c.values)
    BY MadeSizes
  <2> QED BY <1>2, <1>4, <2>1
<1> QED BY <1>1, <1>2, <1>3, <1>4, <1>5, <1>6, <1>7, <1>8

\* A piece of the list has been read, perhaps to an entry.
LEMMA NextKnownPiece ==
    ASSUME NEW c, KnownSoFar(c), stage \in {"keys", "amounts"}, stage' \in {"keys", "amounts"},
           SameCall, num' = num, num = c.n,
           NEW q, PiecesRead' = q, offset' = PieceAt(c, q), Valued(c)'
    PROVE  KnownSoFar(c)'
<1>1. PieceAt(c, q)' = PieceAt(c, q)
  BY PlacesStay DEF SameCall
<1>2. AtPieces(c)'
  BY <1>1 DEF AtPieces
<1>3. /\ AtParams(c)' /\ AtStates(c)' /\ ~Accepted'
      /\ stage \in NameStages /\ stage' \in NameStages
  BY DEF AtParams, AtStates, Accepted, NameStages, CallStages
<1> QED BY <1>2, <1>3, SoFar

\* The entry of a piece.
LEMMA PieceValued ==
    ASSUME IInv, buf' = buf, NEW c, Valued(c), NEW n \in Nat, DOMAIN params = 0 .. n - 1,
           NEW entry, Pointed(entry) = c.values[n + 1], Write(n, <<entry>>)
    PROVE  Valued(c)'
<1> DEFINE entries == <<entry>>
<1>1. Write(n, entries) /\ Len(entries) = 1 /\ entries[1] = entry /\ 1 \in Nat
  OBVIOUS
<1> HIDE DEF entries
<1>2. \A j \in 1 .. 1 : Pointed(entries[j]) = c.values[n + j]
  BY <1>1
<1> QED BY <1>1, <1>2, ValuedGrows

LEMMA PairKeyReads ==
    ASSUME IInv, KInv, HInv, NEW contract \in Contracts, NEW method \in Methods(contract), NEW c,
           MadeFor(c, contract, method), Carries(c), KnownSoFar(c), PairKey
    PROVE  KnownSoFar(c)'
<1> DEFINE entry == KeyEntry(offset)
<1>1. stage = "keys" /\ i <= num
  BY DEF PairKey
<1>2. /\ Buffered /\ Peers(c) /\ cur = 1 /\ num = c.n /\ num \in Nat /\ i \in Nat /\ 1 <= i
      /\ offset = PieceAt(c, PiecesRead) /\ Valued(c) /\ DOMAIN params = 0 .. (1 + i) - 1
  BY <1>1, AtKnownPeers
<1>3. offset = PieceAt(c, i) /\ i \in 1 .. c.n
  BY <1>1, <1>2 DEF PiecesRead
<1>4. /\ EndParam(parse_pk(offset)) = PieceAt(c, i + 1) /\ Found(PieceAt(c, i + 1))
      /\ Pointed(entry) = c.values[2 + i]
  <2>1. /\ EndParam(parse_pk(PieceAt(c, i))) = PieceAt(c, i + 1) /\ Found(PieceAt(c, i + 1))
        /\ Pointed(KeyEntry(PieceAt(c, i))) = c.values[2 + i]
    BY <1>2, <1>3, KeyPiece, Zenon
  <2> QED BY <1>3, <2>1, Zenon
<1> HIDE DEF entry
<1>5. /\ Write(cur + i, <<entry>>) /\ i' = i + 1 /\ stage' = "keys"
      /\ offset' = PieceAt(c, i + 1) /\ UNCHANGED <<buf, call, cur, todo, num>>
  BY <1>4 DEF PairKey, GoTo, Refuse, Stop, entry
<1>6. SameCall /\ buf' = buf /\ num' = num /\ PiecesRead' = i + 1
  BY <1>5 DEF SameCall, call, PiecesRead
<1>7. Valued(c)'
  <2>1. cur + i = 1 + i /\ 1 + i \in Nat /\ 2 + i = (1 + i) + 1
    BY <1>2
  <2>2. Write(1 + i, <<entry>>) /\ Pointed(entry) = c.values[(1 + i) + 1]
    BY <1>4, <1>5, <2>1, Zenon
  <2> QED BY <1>2, <1>6, <2>1, <2>2, PieceValued
<1> QED BY <1>1, <1>2, <1>5, <1>6, <1>7, NextKnownPiece

LEMMA RepeatedCountReads ==
    ASSUME IInv, KInv, HInv, NEW contract \in Contracts, NEW method \in Methods(contract), NEW c,
           MadeFor(c, contract, method), Carries(c), KnownSoFar(c), RepeatedCount
    PROVE  KnownSoFar(c)'
<1>1. stage = "keys" /\ i > num
  BY DEF RepeatedCount
<1>2. /\ Buffered /\ Peers(c) /\ num = c.n /\ num \in Nat /\ i \in Nat /\ i <= num + 1
      /\ offset = PieceAt(c, PiecesRead)
  BY <1>1, AtKnownPeers
<1>3. i = num + 1 /\ offset = PieceAt(c, c.n + 1)
  BY <1>1, <1>2 DEF PiecesRead
<1>4. /\ EndParam(parse_check_amount(offset, num)) = PieceAt(c, c.n + 2)
      /\ Found(PieceAt(c, c.n + 2))
  BY <1>2, <1>3, CountPiece, Zenon
<1>5. /\ i' = 1 /\ stage' = "amounts" /\ offset' = PieceAt(c, c.n + 2)
      /\ UNCHANGED <<buf, call, list, num>>
  BY <1>4 DEF RepeatedCount, GoTo, Refuse, Stop
<1>6. SameCall /\ buf' = buf /\ num' = num /\ params' = params
  BY <1>5 DEF SameCall, call, list
<1>7. PiecesRead' = c.n + 2
  BY <1>2, <1>5, <1>6 DEF PiecesRead
<1>8. Valued(c)'
  BY <1>6, ValuedStays DEF KnownSoFar
<1> QED BY <1>1, <1>2, <1>5, <1>6, <1>7, <1>8, NextKnownPiece

LEMMA PairAmountReads ==
    ASSUME IInv, KInv, HInv, NEW contract \in Contracts, NEW method \in Methods(contract), NEW c,
           MadeFor(c, contract, method), Carries(c), KnownSoFar(c), PairAmount
    PROVE  KnownSoFar(c)'
<1> DEFINE entry == AmountEntry(offset)
           end   == parse_amount(offset)
           next  == IF i # num THEN EndParam(end) ELSE end
<1>1. stage = "amounts" /\ i <= num
  BY DEF PairAmount
<1>2. /\ Buffered /\ Peers(c) /\ cur = 1 /\ num = c.n /\ num \in Nat /\ i \in Nat /\ 1 <= i
      /\ offset = PieceAt(c, PiecesRead) /\ Valued(c) /\ DOMAIN params = 0 .. (1 + num + i) - 1
  BY <1>1, AtKnownPeers
<1>3. offset = PieceAt(c, c.n + 1 + i) /\ i \in 1 .. c.n
  BY <1>1, <1>2 DEF PiecesRead
<1>4. /\ next = PieceAt(c, c.n + 2 + i) /\ Found(next)
      /\ Pointed(entry) = c.values[c.n + 2 + i]
  <2> DEFINE at == PieceAt(c, c.n + 1 + i)
             to == IF i # c.n THEN EndParam(parse_amount(at)) ELSE parse_amount(at)
  <2>1. /\ to = PieceAt(c, c.n + 2 + i) /\ Found(to)
        /\ Pointed(AmountEntry(at)) = c.values[c.n + 2 + i]
    BY <1>2, <1>3, AmountPiece, Zenon
  <2>2. next = to /\ entry = AmountEntry(at)
    BY <1>2, <1>3, Zenon
  <2> HIDE DEF next, to, entry
  <2> QED BY <2>1, <2>2, Zenon
<1>5. /\ Write(cur + num + i, <<entry>>) /\ i' = i + 1 /\ stage' = "amounts"
      /\ offset' = next /\ UNCHANGED <<buf, call, cur, todo, num>>
  BY <1>4 DEF PairAmount, GoTo, Refuse, Stop
<1> HIDE DEF entry, next
<1>6. SameCall /\ buf' = buf /\ num' = num /\ PiecesRead' = c.n + 2 + i
  <2>1. stage' = "amounts" /\ stage' # "keys" /\ num' = num /\ i' = i + 1
    BY <1>5
  <2>2. PiecesRead' = num + 1 + (i + 1)
    BY <2>1, Zenon DEF PiecesRead
  <2>3. num + 1 + (i + 1) = num + 2 + i
    <3>1. num \in Nat /\ i \in Nat
      BY <1>2, Zenon
    <3> QED BY <3>1
  <2> QED BY <1>2, <1>5, <2>2, <2>3, Zenon DEF SameCall, call
<1>7. Valued(c)'
  <2> DEFINE n == 1 + num + i
  <2>1. cur + num + i = n /\ n \in Nat /\ c.n + 2 + i = n + 1
    BY <1>2
  <2> HIDE DEF n
  <2>2. Write(n, <<entry>>) /\ Pointed(entry) = c.values[n + 1]
    BY <1>4, <1>5, <2>1, Zenon
  <2>3. DOMAIN params = 0 .. n - 1
    BY <1>2 DEF n
  <2> QED BY <1>2, <1>6, <2>1, <2>2, <2>3, PieceValued
<1> QED BY <1>1, <1>2, <1>4, <1>5, <1>6, <1>7, NextKnownPiece

-----------------------------------------------------------------------------
(* The end of a known call.                                                *)

LEMMA EndPairsReads ==
    ASSUME IInv, KInv, HInv, NEW contract \in Contracts, NEW method \in Methods(contract), NEW c,
           MadeFor(c, contract, method), Carries(c), KnownSoFar(c), EndPairs
    PROVE  KnownSoFar(c)'
<1>1. stage = "amounts" /\ i > num
  BY DEF EndPairs
<1>2. /\ Buffered /\ Peers(c) /\ cur = 1 /\ num = c.n /\ num \in Nat /\ i \in Nat
      /\ i <= num + 1 /\ offset = PieceAt(c, PiecesRead) /\ Valued(c) /\ stage \in NameStages
      /\ FirstOf(c, 2) = 2 * num + 2 /\ Len(Sig) = 2
  BY <1>1, AtKnownPeers
<1>3. offset = PieceAt(c, 2 * c.n + 2)
  <2>1. PiecesRead = num + 1 + i
    BY <1>1 DEF PiecesRead
  <2>2. num + 1 + i = 2 * num + 2
    <3>1. num \in Nat /\ i \in Nat /\ i <= num + 1 /\ i > num
      BY <1>1, <1>2, Zenon
    <3> QED BY <3>1
  <2> QED BY <1>2, <2>1, <2>2, Zenon
<1>4. Closed(offset) = ParamAt(c, 2) /\ Found(ParamAt(c, 2))
  BY <1>2, <1>3, Zenon DEF Peers
<1>5. /\ cur' = cur + PairsEntries /\ todo' = Tail(todo) /\ stage' = "params"
      /\ offset' = ParamAt(c, 2) /\ UNCHANGED <<buf, call, params, num, i>>
  BY <1>4 DEF EndPairs, GoTo, Refuse, Stop
<1>6. SameCall /\ buf' = buf /\ params' = params
  BY <1>5 DEF SameCall, call
<1>7. cur' = FirstOf(c, 2)
  <2>1. cur' = 1 + (2 * num + 1) /\ num \in Nat
    BY <1>2, <1>5, Zenon DEF PairsEntries
  <2>2. 1 + (2 * num + 1) = 2 * num + 2
    BY <2>1
  <2> QED BY <1>2, <2>1, <2>2, Zenon
<1>8. Done' = 2
  <2>1. Sig' = Sig /\ todo \in Seq(ParameterTypes) /\ Len(todo) = 1
    BY <1>1, <1>6, SameTable, AtPair DEF IInv, TypeInv
  <2>2. Len(Tail(todo)) = 0
    BY <2>1
  <2>3. Done' = 2 - 0
    BY <1>2, <1>5, <2>1, <2>2 DEF Done
  <2> QED BY <2>3
<1>9. AtParams(c)'
  <2>1. ParamAt(c, 2)' = ParamAt(c, 2)
    BY <1>6, PlacesStay
  <2> QED BY <1>5, <1>7, <1>8, <2>1 DEF AtParams
<1>10. Valued(c)'
  BY <1>2, <1>6, ValuedStays
<1>11. AtPieces(c)' /\ AtStates(c)' /\ ~Accepted' /\ stage' \in NameStages
  BY <1>5 DEF AtPieces, AtStates, Accepted, NameStages, CallStages
<1> QED BY <1>2, <1>6, <1>9, <1>10, <1>11, SoFar

\* Behind the parameters the name and the constant part are all that follows.
LEMMA NameIsMeasured ==
    ASSUME Buffered, NEW c, Carries(c), Worded(c), c.type # "WASMVM_CONTRACT", type = c.type,
           name = Name(NameAt(c))
    PROVE  Measured(NameAt(c)) = "PARSING_OK"
<1>1. /\ NameAt(c) \in Nat /\ TailAt(c) \in Nat /\ size \in Nat /\ sEnd = TailAt(c)
      /\ TailAt(c) = NameAt(c) + 1 + Len(c.method) /\ Len(c.method) \in 1 .. 127
      /\ Stands(NameAt(c), WithLength(c.method))
  BY TailIs, SMTT(30)
<1>2. c.method \in Seq(Nat) /\ Len(c.method) \in 1 .. 255
  BY <1>1, WordsText
<1>3. Byte(NameAt(c)) = Len(c.method)
  BY <1>1, <1>2, NameStands, Zenon
<1>4. name.len = Len(c.method)
  BY <1>3 DEF Name
<1>5. ConstantLength \in Nat /\ ~Wasm
  BY ConstantPartLengths DEF ConstantLength, Wasm
<1> DEFINE at == NameAt(c)
           n == Len(c.method)
<1>6. at \in Nat /\ n \in Nat /\ size - ConstantLength = at + 1 + n /\ name.len = n
  <2>1. n \in Nat
    BY <1>1
  <2>2. size - ConstantLength = at + 1 + n
    BY <1>1, Zenon DEF sEnd
  <2> QED BY <1>1, <1>4, <2>1, <2>2, Zenon
<1> HIDE DEF at, n
<1>7. at + (n + 1 + ConstantLength) = size
  BY <1>1, <1>5, <1>6
<1>8. Measured(at) = "PARSING_OK"
  BY <1>5, <1>6, <1>7, Zenon DEF Measured
<1> QED BY <1>8, Zenon DEF at

LEMMA CloseReads ==
    ASSUME NEW c, KnownSoFar(c), stage \in NameStages, NEW at, Close(at), Found(at),
           Measured(at) = "PARSING_OK", cur = Len(c.values)
    PROVE  KnownSoFar(c)'
<1>1. Skip("PARSING_OK", at)
  BY DEF Close
<1>2. /\ stage' = "PARSING_OK" /\ buf' = buf /\ params' = params /\ cur' = cur /\ SameCall
  BY <1>1 DEF Skip, GoTo, call, list, SameCall
<1>3. Valued(c)'
  BY <1>2, ValuedStays DEF KnownSoFar
<1>4. AtParams(c)' /\ AtPieces(c)' /\ AtStates(c)' /\ stage' \in NameStages
  BY <1>2 DEF AtParams, AtPieces, AtStates, NameStages, CallStages
<1> QED BY <1>2, <1>3, <1>4, SoFar

\* The end of the parameters.
LEMMA ParamsEndAt ==
    ASSUME Buffered, NEW contract \in Contracts, NEW method \in Methods(contract), NEW c,
           MadeFor(c, contract, method), ~IsList(c), Carries(c), type = c.type,
           name = Name(NameAt(c)), NEW n, n = Len(c.signature)
    PROVE  LET last == LastAt(c)
               at == CASE Native -> parse_check_constant(last, OPCODE_ST_END)
                       [] Wasm   -> parse_check_constant(last, OPCODE_END)
                       [] OTHER  -> parse_check_constant(parse_check_amount(last, n), OPCODE_PACK)
           IN  Found(at) /\ Measured(at) = "PARSING_OK"
<1> DEFINE last == LastAt(c)
           at == CASE Native -> parse_check_constant(last, OPCODE_ST_END)
                   [] Wasm   -> parse_check_constant(last, OPCODE_END)
                   [] OTHER  -> parse_check_constant(parse_check_amount(last, n), OPCODE_PACK)
<1>1. Worded(c) /\ Texts(c) /\ c.type \in ContractTypes
  BY MadeWorded, MadeTexts DEF MadeFor
<1>2. Around(c) /\ last \in Nat /\ size \in Nat
  BY <1>1, AroundHolds, BytesRead DEF Around
<1>3. CASE c.type = "NATIVE_CONTRACT"
  <2>1. Native /\ ~Wasm /\ c.type # "WASMVM_CONTRACT"
    BY <1>3 DEF Native, Wasm
  <2>2. Stands(last, OPCODE_ST_END) /\ last + 1 = NameAt(c)
    BY <1>2, <1>3, Zenon DEF Around
  <2>3. OPCODE_ST_END \in Seq(Nat) /\ Len(OPCODE_ST_END) = 1
    BY ConstantTexts, ConstantLengths
  <2> HIDE DEF last
  <2>4. /\ parse_check_constant(last, OPCODE_ST_END) = last + Len(OPCODE_ST_END)
        /\ Found(last + Len(OPCODE_ST_END))
    BY <1>2, <2>2, <2>3, ConstantStands, Zenon
  <2>5. at = NameAt(c) /\ Found(NameAt(c))
    BY <2>1, <2>2, <2>3, <2>4, Zenon
  <2> QED BY <1>1, <2>1, <2>5, NameIsMeasured, Zenon DEF last
<1>4. CASE c.type = "NEOVM_CONTRACT"
  <2>1. ~Native /\ ~Wasm /\ c.type # "WASMVM_CONTRACT"
    BY <1>4 DEF Native, Wasm
  <2>2. /\ Stands(last, c.total) /\ Stands(last + Len(c.total), OPCODE_PACK)
        /\ last + Len(c.total) + 1 = NameAt(c)
    BY <1>2, <1>4, ZenonT(30) DEF Around
  <2>3. c.total \in AmountForms(n) /\ n \in Nat
    BY <1>4, MadeSizes DEF MadeFor
  <2> DEFINE k == Len(c.total)
  <2> HIDE DEF last
  <2>4. parse_check_amount(last, n) = last + k /\ c.total \in Seq(Nat) /\ k \in Nat
    BY <1>2, <2>2, <2>3, FormStands, Zenon
  <2>5. OPCODE_PACK \in Seq(Nat) /\ Len(OPCODE_PACK) = 1
    BY ConstantTexts, ConstantLengths
  <2>6. Stands(last + k, OPCODE_PACK) /\ last + k + 1 = NameAt(c)
    BY <2>2, Zenon
  <2> HIDE DEF k
  <2>7. last + k \in Nat
    BY <1>2, <2>4
  <2>8. /\ parse_check_constant(last + k, OPCODE_PACK) = last + k + Len(OPCODE_PACK)
        /\ Found(last + k + Len(OPCODE_PACK))
    BY <2>5, <2>6, <2>7, ConstantStands, Zenon
  <2>9. at = NameAt(c) /\ Found(NameAt(c))
    BY <2>1, <2>4, <2>5, <2>6, <2>8, Zenon
  <2> QED BY <1>1, <2>1, <2>9, NameIsMeasured, Zenon DEF last
<1>5. CASE c.type = "WASMVM_CONTRACT"
  <2>1. Wasm /\ ~Native
    BY <1>5 DEF Native, Wasm
  <2>2. Stands(last, OPCODE_END) /\ last + 1 = size
    BY <1>2, <1>5, Zenon DEF Around
  <2>3. OPCODE_END \in Seq(Nat) /\ Len(OPCODE_END) = 1
    BY ConstantTexts, ConstantLengths
  <2> HIDE DEF last
  <2>4. /\ parse_check_constant(last, OPCODE_END) = last + Len(OPCODE_END)
        /\ Found(last + Len(OPCODE_END))
    BY <1>2, <2>2, <2>3, ConstantStands, Zenon
  <2>5. at = size /\ Found(size)
    BY <2>1, <2>2, <2>3, <2>4, Zenon
  <2>6. size + 0 = size
    BY <1>2
  <2>7. Measured(size) = "PARSING_OK"
    BY <2>1, <2>6, Zenon DEF Measured
  <2> QED BY <2>5, <2>7, Zenon DEF last
<1> QED BY <1>1, <1>3, <1>4, <1>5, SMTT(30) DEF ContractTypes

LEMMA EndParamsReads ==
    ASSUME IInv, KInv, HInv, NEW contract \in Contracts, NEW method \in Methods(contract), NEW c,
           MadeFor(c, contract, method), Carries(c), KnownSoFar(c), EndParams
    PROVE  KnownSoFar(c)'
<1>1. stage = "params" /\ todo = <<>> /\ stage \in NameStages
  BY DEF EndParams, NameStages, CallStages
<1>2. /\ Buffered /\ type = c.type /\ name = Name(NameAt(c)) /\ Sig = c.signature
      /\ (IsTransferList <=> IsList(c))
  BY <1>1, KnownHere
<1>3. ~IsList(c) /\ Len(Sig) \in Nat
  BY <1>1, <1>2, AtParamKinds DEF AtSignature
<1>4. Done = Len(Sig)
  BY <1>1, <1>3 DEF Done
<1>5. offset = LastAt(c) /\ cur = Len(c.values)
  <2>1. offset = ParamAt(c, Done) /\ cur = FirstOf(c, Done)
    BY <1>1 DEF KnownSoFar, AtParams
  <2>2. FirstOf(c, Len(c.signature)) = Len(c.values)
    BY MadeSizes
  <2> QED BY <1>2, <1>4, <2>1, <2>2, Zenon DEF LastAt
<1> DEFINE at == CASE Native -> parse_check_constant(LastAt(c), OPCODE_ST_END)
                   [] Wasm   -> parse_check_constant(LastAt(c), OPCODE_END)
                   [] OTHER  -> parse_check_constant(parse_check_amount(LastAt(c), Len(Sig)),
                                                     OPCODE_PACK)
<1>6. Found(at) /\ Measured(at) = "PARSING_OK"
  BY <1>2, <1>3, ParamsEndAt
<1>7. Close(at)
  BY <1>5, Zenon DEF EndParams, Sig
<1> HIDE DEF at
<1> QED BY <1>1, <1>5, <1>6, <1>7, CloseReads

-----------------------------------------------------------------------------
(* The transfers of a known call.                                          *)

LEMMA AtKnownTransfers ==
    ASSUME IInv, KInv, HInv, NEW contract \in Contracts, NEW method \in Methods(contract), NEW c,
           MadeFor(c, contract, method), Carries(c), KnownSoFar(c), stage = "transfers"
    PROVE  /\ Buffered /\ type = c.type /\ name = Name(NameAt(c)) /\ IsList(c)
           /\ stage \in NameStages
           /\ c.n \in Nat /\ i \in Nat /\ i <= c.n /\ offset = StateAt(c, i)
           /\ cur = 3 * i /\ DOMAIN params = 0 .. cur - 1
           /\ Len(c.values) = 3 * c.n /\ 3 * c.n <= PARAMETERS_MAX_NUM /\ Valued(c)
           /\ (MoreTransfers <=> i # c.n)
<1>1. stage \in NameStages
  BY DEF NameStages, CallStages
<1>2. /\ Buffered /\ type = c.type /\ name = Name(NameAt(c)) /\ (IsTransferList <=> IsList(c))
  BY <1>1, KnownHere
<1>3. IsTransferList /\ i \in Nat /\ cur = 3 * i /\ DOMAIN params = 0 .. cur - 1
  BY AtTransfers
<1>4. IsList(c)
  BY <1>2, <1>3
<1>5. c.n \in Nat /\ Len(c.values) = 3 * c.n
  BY <1>4, ListIs, Zenon
<1>6. Len(c.values) <= PARAMETERS_MAX_NUM
  BY MadeSizes
<1>7. i <= c.n /\ offset = StateAt(c, i) /\ Valued(c)
  BY DEF KnownSoFar, AtStates
<1>8. CASE i = c.n
  <2>1. Byte(StateAt(c, c.n)) # OPCODE_ST_BEGIN[1]
    BY <1>2, <1>4, TransfersEnd
  <2>2. ~MoreTransfers
    BY <1>7, <1>8, <2>1, Zenon DEF MoreTransfers
  <2> QED BY <1>1, <1>2, <1>3, <1>4, <1>5, <1>6, <1>7, <1>8, <2>2
<1>9. CASE i # c.n
  <2>1. i + 1 \in 1 .. c.n /\ (i + 1) - 1 = i
    BY <1>3, <1>5, <1>7, <1>9
  <2>2. Byte(StateAt(c, (i + 1) - 1)) = OPCODE_ST_BEGIN[1]
    BY <1>2, <1>4, <2>1, TransferLaid
  <2>3. MoreTransfers
    BY <1>7, <2>1, <2>2, Zenon DEF MoreTransfers
  <2> QED BY <1>1, <1>2, <1>3, <1>4, <1>5, <1>6, <1>7, <1>9, <2>3
<1> QED BY <1>8, <1>9

LEMMA TransferReads ==
    ASSUME IInv, KInv, HInv, NEW contract \in Contracts, NEW method \in Methods(contract), NEW c,
           MadeFor(c, contract, method), Carries(c), KnownSoFar(c), Transfer
    PROVE  KnownSoFar(c)'
<1> DEFINE entries == StateEntries(offset)
<1>1. stage = "transfers" /\ MoreTransfers
  BY DEF Transfer
<1>2. /\ Buffered /\ IsList(c) /\ stage \in NameStages
      /\ c.n \in Nat /\ i \in Nat /\ i <= c.n /\ offset = StateAt(c, i) /\ i # c.n
      /\ cur = 3 * i /\ DOMAIN params = 0 .. cur - 1 /\ 3 * c.n <= PARAMETERS_MAX_NUM /\ Valued(c)
  BY <1>1, AtKnownTransfers
<1>3. i + 1 \in 1 .. c.n /\ (i + 1) - 1 = i /\ i + 1 <= c.n /\ cur \in Nat
  BY <1>2
<1>4. /\ StateEnd(offset) = StateAt(c, i + 1) /\ Found(StateAt(c, i + 1))
      /\ \A m \in 1 .. 3 : Pointed(entries[m]) = c.values[cur + m]
  <2>1. /\ StateEnd(StateAt(c, (i + 1) - 1)) = StateAt(c, i + 1) /\ Found(StateAt(c, i + 1))
        /\ \A m \in 1 .. 3 : Pointed(StateEntries(StateAt(c, (i + 1) - 1))[m])
                                 = c.values[3 * ((i + 1) - 1) + m]
    BY <1>2, <1>3, TransferLaid, ZenonT(40)
  <2> QED BY <1>2, <1>3, <2>1, Zenon
<1>5. RoomForState
  <2>1. i \in Nat /\ c.n \in Nat /\ i + 1 <= c.n /\ cur = 3 * i /\ 3 * c.n <= PARAMETERS_MAX_NUM
        /\ PARAMETERS_MAX_NUM \in Nat
    BY <1>2, <1>3, SizeAssumption
  <2> QED BY <2>1 DEF RoomForState
<1>6. Len(entries) = 3
  BY DEF StateEntries
<1>7. /\ Write(cur, entries) /\ i' = i + 1 /\ stage' = "transfers" /\ offset' = StateAt(c, i + 1)
      /\ UNCHANGED <<buf, call, todo, num>>
  BY <1>4, <1>5 DEF Transfer, GoTo, Refuse, Stop
<1> HIDE DEF entries
<1>8. SameCall /\ buf' = buf
  BY <1>7 DEF SameCall, call
<1>9. Valued(c)'
  <2>1. 3 \in Nat
    OBVIOUS
  <2> QED BY <1>2, <1>3, <1>4, <1>6, <1>7, <1>8, <2>1, ValuedGrows
<1>10. AtStates(c)'
  BY <1>3, <1>7, <1>8, PlacesStay DEF AtStates
<1>11. AtParams(c)' /\ AtPieces(c)' /\ ~Accepted' /\ stage' \in NameStages
  BY <1>7 DEF AtParams, AtPieces, Accepted, NameStages, CallStages
<1> QED BY <1>2, <1>8, <1>9, <1>10, <1>11, SoFar

LEMMA EndTransfersReads ==
    ASSUME IInv, KInv, HInv, NEW contract \in Contracts, NEW method \in Methods(contract), NEW c,
           MadeFor(c, contract, method), Carries(c), KnownSoFar(c), EndTransfers
    PROVE  KnownSoFar(c)'
<1>1. stage = "transfers" /\ ~MoreTransfers
  BY DEF EndTransfers
<1>2. /\ Buffered /\ type = c.type /\ name = Name(NameAt(c)) /\ IsList(c) /\ stage \in NameStages
      /\ offset = StateAt(c, i) /\ i = c.n
      /\ cur = 3 * i /\ Len(c.values) = 3 * c.n
  BY <1>1, AtKnownTransfers
<1>3. /\ parse_check_constant(parse_check_amount(offset, i), OPCODE_PACK) = NameAt(c)
      /\ Found(NameAt(c))
  BY <1>2, TransfersEnd, Zenon
<1>4. Measured(NameAt(c)) = "PARSING_OK"
  <2>1. Worded(c) /\ c.type = "NATIVE_CONTRACT"
    BY <1>2, MadeWorded, ListIs, Zenon
  <2>2. c.type # "WASMVM_CONTRACT"
    BY <2>1
  <2> QED BY <1>2, <2>1, <2>2, NameIsMeasured
<1>5. Close(NameAt(c))
  BY <1>3, Zenon DEF EndTransfers
<1>6. cur = Len(c.values)
  BY <1>2, Zenon
<1> QED BY <1>2, <1>3, <1>4, <1>5, <1>6, CloseReads

-----------------------------------------------------------------------------
(* Every step.                                                             *)

LEMMA EarlyReads ==
    ASSUME InBuffers, IInv, HInv, NEW c, Worded(c), Carries(c), KnownSoFar(c),
           Header \/ PayloadSize \/ Contract \/ WasmMethod \/ Method
    PROVE  KnownSoFar(c)'
<1>1. /\ stage' \in {"payload", "contract", "method", "lookup"}
      /\ buf' = buf /\ params' = params /\ HeadIs(c)'
  BY HeadReads DEF KnownSoFar
<1>2. Valued(c)'
  BY <1>1, ValuedStays DEF KnownSoFar
<1>3. /\ AtParams(c)' /\ AtPieces(c)' /\ AtStates(c)' /\ ~Accepted'
      /\ stage' \notin Statuses \ {"PARSING_OK"}
  BY <1>1 DEF AtParams, AtPieces, AtStates, Accepted, Statuses
<1> QED BY <1>1, <1>2, <1>3 DEF KnownSoFar

LEMMA KnownStutters ==
    ASSUME NEW c, KnownSoFar(c), UNCHANGED vars
    PROVE  KnownSoFar(c)'
<1>1. /\ UNCHANGED <<buf, offset, stage, type, addr, name, params, cur, todo, num, i>>
      /\ SameCall /\ buf' = buf
  BY DEF vars, call, list, loop, SameCall
<1>2. Valued(c)'
  BY <1>1, ValuedStays DEF KnownSoFar
<1>3. /\ Name(NameAt(c))' = Name(NameAt(c))
      /\ \A k : ParamAt(c, k)' = ParamAt(c, k)
      /\ \A j : StateAt(c, j)' = StateAt(c, j)
      /\ \A q : PieceAt(c, q)' = PieceAt(c, q)
  BY <1>1, PlacesStay
<1>4. Done' = Done /\ PiecesRead' = PiecesRead
  BY <1>1, SameTable DEF Done, PiecesRead
<1>5. HeadIs(c)'
  BY <1>1, <1>3 DEF KnownSoFar, HeadIs
<1>6. AtParams(c)' /\ AtPieces(c)' /\ AtStates(c)'
  BY <1>1, <1>3, <1>4 DEF KnownSoFar, AtParams, AtPieces, AtStates
<1> QED BY <1>1, <1>2, <1>5, <1>6 DEF KnownSoFar, Accepted

LEMMA KnownReads ==
    ASSUME InBuffers, IInv, KInv, HInv, NEW c, WellMade(c), Carries(c), KnownSoFar(c), [Next]_vars
    PROVE  KnownSoFar(c)'
<1>1. PICK contract \in Contracts : \E method \in Methods(contract) : MadeFor(c, contract, method)
  BY DEF WellMade
<1>2. PICK method \in Methods(contract) : MadeFor(c, contract, method)
  BY <1>1
<1>3. Worded(c)
  BY <1>2, MadeWorded
<1>4. CASE Header \/ PayloadSize \/ Contract \/ WasmMethod \/ Method
  BY <1>3, <1>4, EarlyReads
<1>5. CASE StartTransfers
  BY <1>2, <1>5, StartTransfersReads
<1>6. CASE StartParams
  BY <1>2, <1>6, StartParamsReads
<1>7. CASE SimpleParam
  BY <1>2, <1>7, SimpleParamReads
<1>8. CASE OntId
  BY <1>2, <1>8, OntIdReads
<1>9. CASE TransferStateParam
  BY <1>2, <1>9, TransferStateParamReads
<1>10. CASE ListParam
  BY <1>2, <1>10, ListParamReads
<1>11. CASE StartPairs
  BY <1>2, <1>11, StartPairsReads
<1>12. CASE PairKey
  BY <1>2, <1>12, PairKeyReads
<1>13. CASE RepeatedCount
  BY <1>2, <1>13, RepeatedCountReads
<1>14. CASE PairAmount
  BY <1>2, <1>14, PairAmountReads
<1>15. CASE EndPairs
  BY <1>2, <1>15, EndPairsReads
<1>16. CASE EndParams
  BY <1>2, <1>16, EndParamsReads
<1>17. CASE Transfer
  BY <1>2, <1>17, TransferReads
<1>18. CASE EndTransfers
  BY <1>2, <1>18, EndTransfersReads
<1>19. CASE Ended \/ UNCHANGED vars
  BY <1>19, KnownStutters DEF Ended
<1> QED BY <1>4, <1>5, <1>6, <1>7, <1>8, <1>9, <1>10, <1>11, <1>12, <1>13, <1>14, <1>15, <1>16,
           <1>17, <1>18, <1>19 DEF Next

-----------------------------------------------------------------------------
(* Calls that are not known.                                               *)

LEMMA BlindTexts ==
    ASSUME NEW c, Blind(c)
    PROVE  Texts(c)
<1>1. \A k \in 1 .. Len(c.signature) : Part(c, c.signature[k], ValuesOf(c, k)) \in Seq(Nat)
  BY BytesAreNumbers DEF Blind
<1>2. c.type = "NEOVM_CONTRACT" => c.total \in Seq(Nat)
  BY BytesAreNumbers DEF Blind
<1>3. c.type \in ContractTypes /\ Len(c.signature) \in Nat /\ ~IsList(c)
  BY DEF Blind
<1> QED BY <1>1, <1>2, <1>3 DEF Texts

\* A call that is not known stops where the tables are consulted, and not before.
LEMMA BlindReads ==
    ASSUME InBuffers, IInv, HInv, NEW c, Blind(c), Carries(c), BlindSoFar(c), [Next]_vars
    PROVE  BlindSoFar(c)'
<1>1. Worded(c) /\ Texts(c) /\ HeadIs(c) /\ stage \in AtStart \cup {"PARSING_TX_NOT_DEFINED"}
  BY BlindWorded, BlindTexts DEF BlindSoFar
<1>2. CASE Header \/ PayloadSize \/ Contract \/ WasmMethod \/ Method
  <2>1. stage' \in {"payload", "contract", "method", "lookup"} /\ HeadIs(c)'
    BY <1>1, <1>2, HeadReads
  <2> QED BY <2>1 DEF BlindSoFar, AtStart
<1>3. CASE stage = "lookup" /\ (StartTransfers \/ StartParams)
  <2>1. Buffered /\ stage \in NameStages
    BY <1>3 DEF IInv, NameStages, CallStages
  <2>2. Names(c) /\ type = c.type
    BY <1>1, <2>1, CarriedIsNamed
  <2>3. KnownMethod = {} /\ ~IsTransferList
    BY <2>2, BlindIs
  <2> DEFINE at == IF Native THEN parse_check_constant(offset, OPCODE_ST_BEGIN) ELSE offset
  <2>4. Found(at)
    BY <1>1, <1>3, <2>1, <2>2, ParamsBegin
  <2>5. stage' = "PARSING_TX_NOT_DEFINED"
    BY <1>3, <2>3, <2>4 DEF StartTransfers, StartParams, Stop
  <2>6. HeadIs(c)'
    BY <2>5 DEF HeadIs, NameStages, CallStages
  <2> QED BY <2>5, <2>6 DEF BlindSoFar
<1>4. CASE UNCHANGED vars
  <2>1. UNCHANGED <<buf, stage, type, name>>
    BY <1>4 DEF vars, call
  <2>2. Name(NameAt(c))' = Name(NameAt(c))
    BY <2>1, PlacesStay
  <2>3. HeadIs(c)'
    BY <1>1, <2>1, <2>2 DEF HeadIs
  <2> QED BY <1>1, <2>1, <2>3 DEF BlindSoFar
<1>5. CASE Ended
  BY <1>4, <1>5 DEF Ended
<1>6. stage \notin {"params", "keys", "amounts", "transfers"}
  BY <1>1 DEF AtStart
<1>7. ~(\/ SimpleParam \/ OntId \/ TransferStateParam \/ ListParam \/ StartPairs \/ PairKey
        \/ RepeatedCount \/ PairAmount \/ EndPairs \/ EndParams \/ Transfer \/ EndTransfers)
  BY <1>6 DEF SimpleParam, OntId, TransferStateParam, ListParam, StartPairs, NextIs, PairKey,
              RepeatedCount, PairAmount, EndPairs, EndParams, Transfer, EndTransfers
<1>8. StartTransfers \/ StartParams => stage = "lookup"
  BY DEF StartTransfers, StartParams
<1> QED BY <1>2, <1>3, <1>4, <1>5, <1>7, <1>8 DEF Next

-----------------------------------------------------------------------------
(* The theorems.                                                           *)

\* Every call that the transaction carries is read as it should be, so far.
RInv ==
    /\ InBuffers
    /\ \A c \in KnownCalls : Carries(c) => KnownSoFar(c)
    /\ \A c \in BlindCalls : Carries(c) => BlindSoFar(c)

LEMMA InitReads == Init => RInv
<1> SUFFICES ASSUME Init
             PROVE  RInv
  OBVIOUS
<1>1. /\ buf \in Buffers /\ stage = "header" /\ params = <<>>
  BY DEF Init
<1>2. \A c : HeadIs(c) /\ AtParams(c) /\ AtPieces(c) /\ AtStates(c)
  BY <1>1 DEF HeadIs, AtParams, AtPieces, AtStates, NameStages, CallStages
<1>3. \A c : Valued(c)
  <2>1. DOMAIN params = {}
    BY <1>1
  <2> QED BY <2>1 DEF Valued
<1>4. \A c : KnownSoFar(c) /\ BlindSoFar(c)
  BY <1>1, <1>2, <1>3 DEF KnownSoFar, BlindSoFar, Statuses, Accepted, AtStart
<1> QED BY <1>1, <1>4 DEF RInv, InBuffers

\* The transaction is never written.
LEMMA BufferStays ==
    ASSUME [Next]_vars
    PROVE  buf' = buf
<1>1. CASE \/ Header \/ PayloadSize \/ Contract \/ WasmMethod \/ Method
           \/ StartTransfers \/ StartParams
  BY <1>1 DEF Header, PayloadSize, Contract, WasmMethod, Method, StartTransfers, StartParams,
              SetContract, SetMethod, Skip, Refuse, Stop
<1>2. CASE SimpleParam \/ OntId \/ TransferStateParam \/ ListParam \/ Transfer
  BY <1>2 DEF SimpleParam, OntId, TransferStateParam, ListParam, Transfer, Refuse, Stop
<1>3. CASE StartPairs \/ PairKey \/ RepeatedCount \/ PairAmount \/ EndPairs
  BY <1>3 DEF StartPairs, PairKey, RepeatedCount, PairAmount, EndPairs, Refuse, Stop
<1>4. CASE EndParams \/ EndTransfers
  BY <1>4 DEF EndParams, EndTransfers, Close, Skip, Refuse, Stop
<1>5. CASE Ended \/ UNCHANGED vars
  BY <1>5 DEF Ended, vars
<1> QED BY <1>1, <1>2, <1>3, <1>4, <1>5 DEF Next

\* Every step reads what is due.
LEMMA StepReads ==
    ASSUME IInv, KInv, HInv, RInv, [Next]_vars
    PROVE  RInv'
<1>1. buf' = buf
  BY BufferStays
<1>2. \A c : Carries(c)' <=> Carries(c)
  BY <1>1, PlacesStay
<1>3. InBuffers /\ InBuffers'
  BY <1>1 DEF RInv, InBuffers
<1>4. \A c \in KnownCalls : Carries(c) => KnownSoFar(c)'
  BY <1>3, KnownReads, KnownCallsAssumption DEF RInv
<1>5. \A c \in BlindCalls : Carries(c) => BlindSoFar(c)'
  BY <1>3, BlindReads, BlindCallsAssumption DEF RInv
<1> QED BY <1>2, <1>3, <1>4, <1>5 DEF RInv

\* Nothing that has been read of a call that the transaction carries is anything
\* but the call's, and the cursor is where its next piece stands
\* (deserialize.c 133 to 494, parse.c 31 to 271).
THEOREM ReadingIsDue == Spec => []RInv
<1>1. IInv /\ KInv /\ HInv /\ RInv /\ [Next]_vars => RInv'
  BY StepReads
<1> QED BY <1>1, InitReads, Invariance, ReadingInvariance, FindingInvariance, PTL DEF Spec

\* At the end nothing of the call is left to be read.
LEMMA KnownIsAccepted ==
    ASSUME IInv, KInv, HInv, NEW c, WellMade(c), Carries(c), KnownSoFar(c), stage \in Statuses
    PROVE  /\ Accepted
           /\ type = c.type /\ Values = c.values
           /\ AddressOf[TheContract] = c.address /\ NameOf[TheMethod] = c.method
<1>1. PICK contract \in Contracts : \E method \in Methods(contract) : MadeFor(c, contract, method)
  BY DEF WellMade
<1>2. PICK method \in Methods(contract) : MadeFor(c, contract, method)
  BY <1>1
<1>3. Accepted /\ stage \in NameStages
  BY DEF KnownSoFar, Accepted, NameStages, CallStages
<1>4. type = c.type /\ AddressOf[TheContract] = c.address /\ NameOf[TheMethod] = c.method
  BY <1>2, <1>3, KnownHere
<1>5. cur = Len(c.values) /\ Valued(c) /\ DOMAIN params = 0 .. cur - 1
  BY <1>3 DEF KnownSoFar, KInv, AllRead
<1>6. c.values \in Seq(Seq(Bytes)) /\ cur \in Nat
  BY <1>2, <1>5, MadeSizes
<1>7. \A k \in 1 .. cur : Content(k - 1) = c.values[k]
  <2>1. TAKE k \in 1 .. cur
  <2>2. k - 1 \in 0 .. cur - 1 /\ (k - 1) + 1 = k
    BY <1>6
  <2>3. Content(k - 1) = c.values[(k - 1) + 1]
    BY <1>5, <2>2, Zenon DEF Valued
  <2> QED BY <2>2, <2>3, Zenon
<1>8. c.values = [k \in 1 .. cur |-> c.values[k]]
  BY <1>5, <1>6
<1>9. Values = [k \in 1 .. cur |-> c.values[k]]
  BY <1>7, Zenon DEF Values
<1> QED BY <1>3, <1>4, <1>8, <1>9, Zenon

LEMMA AllKnownAccepted == IInv /\ KInv /\ HInv /\ RInv => KnownCallsAccepted
<1> SUFFICES ASSUME IInv, KInv, HInv, RInv, stage \in Statuses, NEW c \in Carried(KnownPairs)
             PROVE  /\ Accepted
                    /\ type = c.type /\ Values = c.values
                    /\ AddressOf[TheContract] = c.address /\ NameOf[TheMethod] = c.method
  BY Zenon DEF KnownCallsAccepted
<1>1. c \in KnownCalls /\ Carries(c)
  BY CarriedIs, Zenon DEF KnownPairs
<1>2. WellMade(c) /\ KnownSoFar(c)
  BY <1>1, KnownCallsAssumption DEF RInv
<1> QED BY <1>1, <1>2, KnownIsAccepted

LEMMA AllBlindRecognised == RInv => BlindCallsRecognised
<1> SUFFICES ASSUME RInv, stage \in Statuses, NEW c \in Carried(BlindPairs)
             PROVE  stage = "PARSING_TX_NOT_DEFINED"
  BY DEF BlindCallsRecognised
<1>1. c \in BlindCalls /\ Carries(c)
  BY CarriedIs, Zenon DEF BlindPairs
<1>2. BlindSoFar(c)
  BY <1>1 DEF RInv
<1> QED BY <1>2 DEF BlindSoFar, AtStart, Statuses

\* transaction_deserialize (deserialize.c 449 to 494) refuses no transaction with
\* a call of a known contract and method that is made of values in the form of
\* the tables, however long its amounts and names, however many its pairs or
\* transfers, and however their number is written; what it leaves in
\* method.parameters are these values, in their order.
THEOREM KnownCallsGetThrough == Spec => []KnownCallsAccepted
<1>1. IInv /\ KInv /\ HInv /\ RInv => KnownCallsAccepted
  BY AllKnownAccepted
<1> QED BY <1>1, Invariance, ReadingInvariance, FindingInvariance, ReadingIsDue, PTL

\* Of a contract or a method that is not in the tables it finds the end of the
\* parameters and the name, whatever the parameters are, and returns
\* PARSING_TX_NOT_DEFINED, as the comment on transaction_deserialize_params
\* says: the call can be signed blindly (deserialize.c 226 to 333 and 362 to 428).
THEOREM BlindCallsGetThrough == Spec => []BlindCallsRecognised
<1>1. RInv => BlindCallsRecognised
  BY AllBlindRecognised
<1> QED BY <1>1, ReadingIsDue, PTL
=============================================================================
