---------------------------- MODULE OntAppProofs ----------------------------
(***************************************************************************)
(* Proofs about the command session (OntApp.tla), for every set of blocks  *)
(* and paths, every buffer size and every chunk size.                      *)
(***************************************************************************)
EXTENDS OntApp, TLAPS

USE DEF RequestTypes, Verdicts
-----------------------------------------------------------------------------
(* Typing.                                                                 *)

\* The values handlers and callbacks assign have the types of the state.
LEMMA ConstantTypes ==
    /\ NoRequest = [kind |-> "none", path |-> NoPath, body |-> <<>>]
    /\ Zeroed \in Contexts
    /\ Zeroed.raw = <<>> /\ Zeroed.params = {} /\ Zeroed.member = "none"
    /\ Silent \in Replies
    /\ \A type \in {"off", "home"} : Page(type) \in Screens
    /\ \A confirm \in BOOLEAN : StatusPage(confirm) \in Screens
    /\ \A request \in Requests, blind \in BOOLEAN : Review(request, blind) \in Screens
  BY DEF NoRequest, Request, Zeroed, Contexts, NoDigest, Digest, Silent, Replies, Page,
         Screens, StatusPage, Review, Requests

LEMMA PathStatusType ==
  ASSUME NEW path \in Paths
  PROVE  PathStatus(path) \in {"SW_WRONG_DATA_LENGTH", "SW_INVALID_PATH", "SW_OK"}
  BY DEF PathStatus

\* A chunk is a non-empty sequence of blocks, and appending it keeps a sequence.
LEMMA ChunkType ==
  ASSUME NEW data \in Chunks
  PROVE  data \in Seq(Symbols) /\ Len(data) > 0
<1>1. PICK n \in 1 .. MaxLc : data \in [1 .. n -> Symbols]
  BY DEF Chunks
<1>2. n \in Nat /\ n > 0
  BY SizeAssumption
<1>3. data \in Seq(Symbols)
  BY <1>1, <1>2
<1>4. Len(data) = n
  BY <1>1, <1>2, <1>3
<1> QED
  BY <1>2, <1>3, <1>4

LEMMA NewRequestType ==
  ASSUME NEW req_type \in RequestTypes, NEW path \in Paths
  PROVE  /\ NewRequest(req_type, path) \in Contexts
         /\ NewRequest(req_type, path).req_type = req_type
         /\ NewRequest(req_type, path).path = path
         /\ NewRequest(req_type, path).state = "STATE_NONE"
         /\ NewRequest(req_type, path).raw = <<>>
         /\ NewRequest(req_type, path).params = {}
         /\ NewRequest(req_type, path).member = "none"
<1>1. Zeroed \in Contexts /\ Zeroed.raw = <<>> /\ Zeroed.params = {} /\ Zeroed.member = "none"
  BY ConstantTypes
<1>2. Zeroed.state = "STATE_NONE"
  BY DEF Zeroed
<1>3. NewRequest(req_type, path) \in Contexts
  BY <1>1 DEF NewRequest, Contexts
<1> QED
  BY <1>1, <1>2, <1>3 DEF NewRequest, Contexts

LEMMA ReceivedType ==
  ASSUME ctx \in Contexts, NEW data \in Seq(Symbols),
         NEW member \in {"tx_info", "msg_info"}
  PROVE  /\ Received(member, data) \in Contexts
         /\ Received(member, data) = [ctx EXCEPT !.member = member, !.raw = ctx.raw \o data]
         /\ Received(member, data).raw = ctx.raw \o data
         /\ ctx.raw \in Seq(Symbols)
         /\ ctx.raw \o data \in Seq(Symbols)
         /\ Len(ctx.raw \o data) = Len(ctx.raw) + Len(data)
<1>1. ctx.raw \in Seq(Symbols)
  BY DEF Contexts
<1>2. ctx.raw \o data \in Seq(Symbols) /\ Len(ctx.raw \o data) = Len(ctx.raw) + Len(data)
  BY <1>1
<1>3. Received(member, data) \in Contexts
  BY <1>1, <1>2 DEF Received, Contexts
<1>4. Received(member, data).raw = ctx.raw \o data
  BY DEF Received, Contexts
<1> QED
  BY <1>1, <1>2, <1>3, <1>4 DEF Received
-----------------------------------------------------------------------------
(* The inductive invariant.                                                *)

\* Every parse that filled parameters since the context was last cleared read
\* a complete transaction that is a prefix of what has been uploaded.
OwnParameters(c) ==
    \A p \in c.params :
        /\ p # <<>>
        /\ Len(p) <= Len(c.raw)
        /\ \A i \in 1 .. Len(p) : p[i] = c.raw[i]
        /\ Deserialize(p) \in {"PARSING_OK", "PARSING_BYTECODE_WRONG"}

MemberMatches(c) ==
    /\ c.member \in {"none", "pk_info"} => c.raw = <<>>
    /\ c.member = "pk_info"  => c.req_type = "CONFIRM_ADDRESS"
    /\ c.member = "tx_info"  => c.req_type = "CONFIRM_TRANSACTION"
    /\ c.member = "msg_info" => c.req_type = "CONFIRM_MESSAGE"

GoodContext(c) ==
    c \in Contexts /\ FitsBuffers(c) /\ MemberMatches(c) /\ OwnParameters(c)

\* request, shown as a blind review or not, is what the context c holds.
ReviewOf(c, request, blind) ==
    /\ request.kind = c.req_type
    /\ request.path = c.path
    /\ request.body = c.raw
    /\ c.req_type # "CONFIRM_ADDRESS" =>
           /\ c.state = "STATE_PARSED"
           /\ c.m_hash = Digest(c.req_type, c.raw)
    /\ c.req_type = "CONFIRM_TRANSACTION" =>
           c.params = IF blind THEN {} ELSE {c.raw}

\* What goes with each phase and each kind of page.
SessionShape ==
    /\ phase = "off" <=> screen.type = "off"
    /\ phase = "menu" => screen.type = "home"
    /\ phase = "ready" => nvm.initialized
    /\ ~nvm.initialized => ~nvm.blind_signed_allowed
    /\ screen.type = "review" =>
           /\ screen.request \in Requests
           /\ ~screen.success
           /\ ReviewOf(ctx, screen.request, screen.blind)
    /\ screen.type # "review" => screen.request = NoRequest /\ ~screen.blind
    /\ screen.type = "home" => ~screen.success

IndInv ==
    /\ TypeOK
    /\ GoodContext(ctx)
    /\ AnswerOwed
    /\ SessionShape
    /\ BlindReviewAllowed
    /\ SwitchShowsSetting
-----------------------------------------------------------------------------
(* What a command does: it leaves a good context, and either answers or    *)
(* opens a review of what that context holds.                              *)

Answers ==
    /\ UNCHANGED screen
    /\ pending' = FALSE
    /\ reply' \in Replies
    /\ reply'.data \in Addresses \cup {NoRequest}

Opens ==
    \E request \in Requests, blind \in BOOLEAN :
        /\ Show(request, blind)
        /\ ReviewOf(ctx', request, blind)
        /\ blind => nvm.blind_signed_allowed

Effect == GoodContext(ctx') /\ (Answers \/ Opens)

LEMMA FailAnswers ==
  ASSUME NEW sw \in DocumentedWords \cup {"cx_err_t"}, Fail(sw)
  PROVE  Answers
  BY DEF Fail, io_send_sw, Send, Answers, Replies

LEMMA GoodState ==
  ASSUME NEW c, GoodContext(c),
         NEW state \in {"STATE_NONE", "STATE_PARSED", "STATE_APPROVED"}
  PROVE  GoodContext([c EXCEPT !.state = state])
<1> DEFINE d == [c EXCEPT !.state = state]
<1>1. d \in Contexts
  BY DEF GoodContext, Contexts
<1>2. d.req_type = c.req_type /\ d.raw = c.raw /\ d.params = c.params /\ d.member = c.member
  BY DEF GoodContext, Contexts
<1> QED
  BY <1>1, <1>2 DEF GoodContext, FitsBuffers, MemberMatches, OwnParameters

LEMMA GoodDigest ==
  ASSUME NEW c, GoodContext(c), NEW kind \in RequestTypes
  PROVE  LET d == [c EXCEPT !.state = "STATE_PARSED", !.m_hash = Digest(kind, c.raw)]
         IN  /\ GoodContext(d)
             /\ d.state = "STATE_PARSED" /\ d.m_hash = Digest(kind, c.raw)
             /\ d.req_type = c.req_type /\ d.raw = c.raw
             /\ d.params = c.params /\ d.path = c.path
<1> DEFINE d == [c EXCEPT !.state = "STATE_PARSED", !.m_hash = Digest(kind, c.raw)]
<1>1. c \in Contexts /\ c.raw \in Seq(Symbols)
  BY DEF GoodContext, Contexts
<1>2. d \in Contexts
  BY <1>1 DEF Contexts, Digest
<1>3. /\ d.req_type = c.req_type /\ d.raw = c.raw /\ d.params = c.params
      /\ d.member = c.member /\ d.path = c.path
      /\ d.state = "STATE_PARSED" /\ d.m_hash = Digest(kind, c.raw)
  BY <1>1 DEF Contexts
<1> QED
  BY <1>2, <1>3 DEF GoodContext, FitsBuffers, MemberMatches, OwnParameters

LEMMA GoodNewRequest ==
  ASSUME NEW req_type \in RequestTypes, NEW path \in Paths
  PROVE  GoodContext(NewRequest(req_type, path))
<1>1. Len(<<>>) = 0
  OBVIOUS
<1> QED
  BY <1>1, NewRequestType, SizeAssumption
     DEF GoodContext, FitsBuffers, MemberMatches, OwnParameters

LEMMA DisplayAddressEffect ==
  ASSUME NEW c, GoodContext(c), c.raw = <<>>, ui_display_address(c)
  PROVE  Effect
<1>1. CASE c.req_type # "CONFIRM_ADDRESS" \/ c.state # "STATE_NONE"
  BY <1>1, GoodState, FailAnswers DEF ui_display_address, Effect, DocumentedWords
<1>2. CASE c.req_type = "CONFIRM_ADDRESS" /\ c.state = "STATE_NONE"
  <2>1. ctx' = c
    BY <1>2 DEF ui_display_address
  <2>2. CASE Fail("SW_DISPLAY_ADDRESS_FAIL")
    BY <2>1, <2>2, FailAnswers DEF Effect, DocumentedWords
  <2>3. CASE Show(PublicKey(c), FALSE)
    <3>1. c.path \in Paths \cup {NoPath}
      BY DEF GoodContext, Contexts
    <3>2. PublicKey(c) \in Requests
      BY <3>1 DEF PublicKey, Request, Requests
    <3>3. ReviewOf(c, PublicKey(c), FALSE)
      BY <1>2 DEF ReviewOf, PublicKey, Request
    <3> QED
      BY <2>1, <2>3, <3>2, <3>3 DEF Effect, Opens
  <2> QED
    BY <1>2, <2>2, <2>3 DEF ui_display_address
<1> QED
  BY <1>1, <1>2

LEMMA DisplayTransactionEffect ==
  ASSUME NEW c, GoodContext(c), NEW is_blind \in BOOLEAN,
         is_blind => nvm.blind_signed_allowed,
         c.m_hash = Digest("CONFIRM_TRANSACTION", c.raw),
         c.params = IF is_blind THEN {} ELSE {c.raw},
         ui_display_transaction(c, is_blind)
  PROVE  Effect
<1>1. CASE c.req_type # "CONFIRM_TRANSACTION" \/ c.state # "STATE_PARSED"
  BY <1>1, GoodState, FailAnswers DEF ui_display_transaction, Effect, DocumentedWords
<1>2. CASE c.req_type = "CONFIRM_TRANSACTION" /\ c.state = "STATE_PARSED"
  <2> DEFINE request == Request("CONFIRM_TRANSACTION", c.path, c.raw)
  <2>1. ctx' = c
    BY <1>2 DEF ui_display_transaction
  <2>2. CASE Fail("SW_DISPLAY_ADDRESS_FAIL")
    BY <2>1, <2>2, FailAnswers DEF Effect, DocumentedWords
  <2>3. CASE Fail("SW_INVALID_TRANSACTION")
    BY <2>1, <2>3, FailAnswers DEF Effect, DocumentedWords
  <2>4. CASE Show(request, is_blind)
    <3>1. c.path \in Paths \cup {NoPath} /\ c.raw \in Seq(Symbols)
      BY DEF GoodContext, Contexts
    <3>2. request \in Requests
      BY <3>1 DEF Request, Requests
    <3>3. ReviewOf(c, request, is_blind)
      BY <1>2 DEF ReviewOf, Request
    <3> QED
      BY <2>1, <2>4, <3>2, <3>3 DEF Effect, Opens
  <2> QED
    BY <1>2, <2>2, <2>3, <2>4 DEF ui_display_transaction
<1> QED
  BY <1>1, <1>2

LEMMA DisplayMessageEffect ==
  ASSUME NEW c, GoodContext(c), c.m_hash = Digest("CONFIRM_MESSAGE", c.raw),
         ui_display_message(c)
  PROVE  Effect
<1>1. CASE c.req_type # "CONFIRM_MESSAGE" \/ c.state # "STATE_PARSED"
  BY <1>1, GoodState, FailAnswers DEF ui_display_message, Effect, DocumentedWords
<1>2. CASE c.req_type = "CONFIRM_MESSAGE" /\ c.state = "STATE_PARSED"
  <2> DEFINE request == Request("CONFIRM_MESSAGE", c.path, c.raw)
  <2>1. ctx' = c
    BY <1>2 DEF ui_display_message
  <2>2. CASE Fail("SW_DISPLAY_ADDRESS_FAIL")
    BY <2>1, <2>2, FailAnswers DEF Effect, DocumentedWords
  <2>3. CASE Fail("SW_PERSONAL_MSG_PARSING_FAIL")
    BY <2>1, <2>3, FailAnswers DEF Effect, DocumentedWords
  <2>4. CASE Show(request, FALSE)
    <3>1. c.path \in Paths \cup {NoPath} /\ c.raw \in Seq(Symbols)
      BY DEF GoodContext, Contexts
    <3>2. request \in Requests
      BY <3>1 DEF Request, Requests
    <3>3. ReviewOf(c, request, FALSE)
      BY <1>2 DEF ReviewOf, Request
    <3> QED
      BY <2>1, <2>4, <3>2, <3>3 DEF Effect, Opens
  <2> QED
    BY <1>2, <2>2, <2>3, <2>4 DEF ui_display_message
<1> QED
  BY <1>1, <1>2
-----------------------------------------------------------------------------
(* The handlers' effects.                                                  *)

LEMMA GetPublicKeyEffect ==
  ASSUME NEW path \in Paths, NEW display \in BOOLEAN,
         handler_get_public_key(path, display)
  PROVE  Effect
<1> DEFINE c == NewRequest("CONFIRM_ADDRESS", path)
           k == [c EXCEPT !.member = "pk_info"]
<1>1. GoodContext(c) /\ c.raw = <<>> /\ c.params = {} /\ c.path = path
      /\ c.req_type = "CONFIRM_ADDRESS" /\ c \in Contexts
  BY GoodNewRequest, NewRequestType
<1>2. k \in Contexts
  BY <1>1 DEF Contexts
<1>3. k.raw = <<>> /\ k.params = {} /\ k.path = path /\ k.req_type = "CONFIRM_ADDRESS"
      /\ k.member = "pk_info"
  BY <1>1 DEF Contexts
<1>4. GoodContext(k)
  BY <1>2, <1>3 DEF GoodContext, FitsBuffers, MemberMatches, OwnParameters
<1>5. CASE ctx' = c /\ Fail(PathStatus(path))
  BY <1>1, <1>5, PathStatusType, FailAnswers DEF Effect, DocumentedWords
<1>6. CASE ctx' = c /\ Fail("cx_err_t")
  BY <1>1, <1>6, FailAnswers DEF Effect
<1>7. CASE ui_display_address(k)
  BY <1>3, <1>4, <1>7, DisplayAddressEffect
<1>8. CASE ctx' = k /\ Send("SW_OK", PublicKey(k)) /\ UNCHANGED screen
  <2>1. PublicKey(k) \in Addresses /\ PublicKey(k) \in Requests
    BY <1>3 DEF PublicKey, Request, Addresses, Requests
  <2>2. reply' \in Replies /\ reply'.data = PublicKey(k)
    BY <1>8, <2>1 DEF Send, Replies, DocumentedWords
  <2> QED
    BY <1>4, <1>8, <2>1, <2>2 DEF Effect, Answers, Send
<1> QED
  BY <1>5, <1>6, <1>7, <1>8 DEF handler_get_public_key

LEMMA StartUploadEffect ==
  ASSUME NEW req_type \in RequestTypes, NEW path \in Paths, StartUpload(req_type, path)
  PROVE  Effect
  BY GoodNewRequest, PathStatusType, FailAnswers DEF StartUpload, Effect, DocumentedWords

\* Appending a chunk to the upload it belongs to keeps the context good, and
\* the parses made so far are still parses of its beginning.
LEMMA GoodReceived ==
  ASSUME GoodContext(ctx), NEW data \in Chunks,
         NEW member \in {"tx_info", "msg_info"},
         \/ /\ member = "tx_info" /\ ctx.req_type = "CONFIRM_TRANSACTION"
            /\ HasRoom(data, MAX_TRANSACTION_LEN)
         \/ /\ member = "msg_info" /\ ctx.req_type = "CONFIRM_MESSAGE"
            /\ HasRoom(data, MAX_MESSAGE_LEN)
  PROVE  /\ GoodContext(Received(member, data))
         /\ Received(member, data).raw # <<>>
         /\ Received(member, data).params = ctx.params
         /\ Received(member, data).req_type = ctx.req_type
<1> DEFINE c == Received(member, data)
<1>1. ctx \in Contexts /\ data \in Seq(Symbols) /\ Len(data) > 0
  BY ChunkType DEF GoodContext
<1>2. /\ c \in Contexts /\ c.raw = ctx.raw \o data
      /\ ctx.raw \in Seq(Symbols) /\ c.raw \in Seq(Symbols)
      /\ Len(c.raw) = Len(ctx.raw) + Len(data)
  BY <1>1, ReceivedType
<1>3. c.params = ctx.params /\ c.req_type = ctx.req_type /\ c.member = member
  BY <1>1 DEF Received, Contexts
<1>4. c.raw # <<>>
  BY <1>1, <1>2
<1>5. FitsBuffers(c)
  BY <1>2, <1>3 DEF FitsBuffers, HasRoom
<1>6. MemberMatches(c)
  BY <1>3 DEF MemberMatches
<1>7. OwnParameters(c)
  <2> SUFFICES ASSUME NEW p \in ctx.params
               PROVE  /\ p # <<>> /\ Len(p) <= Len(c.raw)
                      /\ \A i \in 1 .. Len(p) : p[i] = c.raw[i]
                      /\ Deserialize(p) \in {"PARSING_OK", "PARSING_BYTECODE_WRONG"}
    BY <1>3 DEF OwnParameters
  <2>1. /\ p # <<>> /\ Len(p) <= Len(ctx.raw)
        /\ \A i \in 1 .. Len(p) : p[i] = ctx.raw[i]
        /\ Deserialize(p) \in {"PARSING_OK", "PARSING_BYTECODE_WRONG"}
    BY DEF GoodContext, OwnParameters
  <2>2. p \in Seq(Symbols)
    BY <1>1 DEF Contexts
  <2>3. \A i \in 1 .. Len(ctx.raw) : c.raw[i] = ctx.raw[i]
    <3> DEFINE raw == ctx.raw
    <3>1. raw \in Seq(Symbols) /\ c.raw = raw \o data
      BY <1>2
    <3> HIDE DEF raw
    <3>2. \A i \in 1 .. Len(raw) : (raw \o data)[i] = raw[i]
      BY <1>1, <3>1
    <3> QED
      BY <3>1, <3>2 DEF raw
  <2>4. Len(p) \in Nat /\ Len(ctx.raw) \in Nat /\ Len(data) \in Nat
    BY <1>1, <1>2, <2>2
  <2>5. Len(p) <= Len(c.raw)
    BY <1>2, <2>1, <2>4
  <2>6. ASSUME NEW i \in 1 .. Len(p)
        PROVE  p[i] = c.raw[i]
    <3>1. i \in 1 .. Len(ctx.raw)
      BY <2>1, <2>4
    <3> QED
      BY <2>1, <2>3, <3>1
  <2> QED
    BY <2>1, <2>5, <2>6
<1> QED
  BY <1>2, <1>3, <1>4, <1>5, <1>6, <1>7 DEF GoodContext

\* When the upload has the length its header declares, no earlier part of it
\* was parsed far enough to fill a parameter: it had the same header.
LEMMA OneParse ==
  ASSUME NEW c, GoodContext(c), c.raw # <<>>, LengthFits(c.raw), NEW p \in c.params
  PROVE  p = c.raw
<1>1. p \in Seq(Symbols) /\ c.raw \in Seq(Symbols)
  BY DEF GoodContext, Contexts
<1>2. /\ p # <<>> /\ Len(p) <= Len(c.raw)
      /\ \A i \in 1 .. Len(p) : p[i] = c.raw[i]
      /\ Deserialize(p) \in {"PARSING_OK", "PARSING_BYTECODE_WRONG"}
  BY DEF GoodContext, OwnParameters
<1>3. LengthFits(p)
  BY <1>2 DEF Deserialize
<1>4. Head(p) = Head(c.raw)
  BY <1>1, <1>2
<1>5. Len(p) = Len(c.raw)
  BY <1>3, <1>4 DEF LengthFits
<1> QED
  BY <1>1, <1>2, <1>5

\* Parsing records the upload among the parses, and leaves no other one.
LEMMA GoodParsed ==
  ASSUME NEW c, GoodContext(c), c.raw # <<>>
  PROVE  LET d == [c EXCEPT !.params = @ \cup ParametersWritten(c.raw)]
         IN  /\ GoodContext(d)
             /\ d.raw = c.raw /\ d.req_type = c.req_type /\ d.path = c.path
             /\ Deserialize(c.raw) = "PARSING_OK" => d.params = {c.raw}
             /\ Deserialize(c.raw) = "PARSING_TX_NOT_DEFINED" => d.params = {}
<1> DEFINE d == [c EXCEPT !.params = @ \cup ParametersWritten(c.raw)]
<1>1. c \in Contexts /\ c.raw \in Seq(Symbols) /\ c.params \subseteq Seq(Symbols)
  BY DEF GoodContext, Contexts
<1>2. ParametersWritten(c.raw) \subseteq {c.raw}
  BY DEF ParametersWritten
<1>3. c.params \cup ParametersWritten(c.raw) \in SUBSET Seq(Symbols)
  BY <1>1, <1>2
<1>4. d \in Contexts
  BY <1>1, <1>3 DEF Contexts
<1>5. /\ d.raw = c.raw /\ d.req_type = c.req_type /\ d.path = c.path /\ d.member = c.member
      /\ d.params = c.params \cup ParametersWritten(c.raw)
  BY <1>1 DEF Contexts
<1>6. OwnParameters(d)
  <2> SUFFICES ASSUME NEW p \in d.params
               PROVE  /\ p # <<>> /\ Len(p) <= Len(d.raw)
                      /\ \A i \in 1 .. Len(p) : p[i] = d.raw[i]
                      /\ Deserialize(p) \in {"PARSING_OK", "PARSING_BYTECODE_WRONG"}
    BY DEF OwnParameters
  <2>1. CASE p \in c.params
    BY <1>5, <2>1 DEF GoodContext, OwnParameters
  <2>2. CASE p \in ParametersWritten(c.raw)
    BY <1>1, <1>5, <2>2 DEF ParametersWritten
  <2> QED
    BY <1>5, <2>1, <2>2
<1>7. GoodContext(d)
  BY <1>4, <1>5, <1>6 DEF GoodContext, FitsBuffers, MemberMatches
<1>8. CASE Deserialize(c.raw) = "PARSING_OK"
  <2>1. LengthFits(c.raw)
    BY <1>8 DEF Deserialize
  <2>2. ParametersWritten(c.raw) = {c.raw}
    BY <1>8 DEF ParametersWritten
  <2> QED
    BY <1>5, <1>7, <1>8, <2>1, <2>2, OneParse
<1>9. CASE Deserialize(c.raw) = "PARSING_TX_NOT_DEFINED"
  <2>1. LengthFits(c.raw)
    BY <1>9 DEF Deserialize
  <2>2. ParametersWritten(c.raw) = {}
    BY <1>9 DEF ParametersWritten
  <2>3. c.params = {}
    BY <1>9, <2>1, OneParse DEF GoodContext, OwnParameters
  <2> QED
    BY <1>5, <1>7, <1>9, <2>2, <2>3
<1> QED
  BY <1>5, <1>7, <1>8, <1>9

LEMMA HashAndDisplayEffect ==
  ASSUME NEW c, GoodContext(c), NEW is_blind \in BOOLEAN,
         is_blind => nvm.blind_signed_allowed,
         c.params = IF is_blind THEN {} ELSE {c.raw},
         handler_hash_tx_and_display_tx(c, is_blind)
  PROVE  Effect
<1> DEFINE d == [c EXCEPT !.state = "STATE_PARSED",
                          !.m_hash = Digest("CONFIRM_TRANSACTION", c.raw)]
<1>1. CASE ctx' = c /\ Fail("SW_HASH_FAIL")
  BY <1>1, FailAnswers DEF Effect, DocumentedWords
<1>2. CASE ui_display_transaction(d, is_blind)
  <2>1. /\ GoodContext(d) /\ d.m_hash = Digest("CONFIRM_TRANSACTION", c.raw)
        /\ d.raw = c.raw /\ d.params = c.params
    BY GoodDigest
  <2> HIDE DEF d
  <2> QED
    BY <1>2, <2>1, DisplayTransactionEffect
<1> QED
  BY <1>1, <1>2 DEF handler_hash_tx_and_display_tx

LEMMA LastTxChunkEffect ==
  ASSUME GoodContext(ctx), nvm.blind_signed_allowed \in BOOLEAN,
         NEW data \in Chunks, LastTxChunk(data)
  PROVE  Effect
<1> DEFINE received == Received("tx_info", data)
           parsed == [received EXCEPT !.params = @ \cup ParametersWritten(received.raw)]
           status == Deserialize(received.raw)
<1>1. ctx.req_type = "CONFIRM_TRANSACTION" /\ HasRoom(data, MAX_TRANSACTION_LEN)
  BY DEF LastTxChunk, ExpectsTransaction
<1>2. GoodContext(received) /\ received.raw # <<>>
  BY <1>1, GoodReceived
<1>3. /\ GoodContext(parsed) /\ parsed.raw = received.raw
      /\ status = "PARSING_OK" => parsed.params = {parsed.raw}
      /\ status = "PARSING_TX_NOT_DEFINED" => parsed.params = {}
  BY <1>2, GoodParsed
<1>4. \/ ctx' = parsed /\ Fail("SW_TX_PARSING_FAIL")
      \/ /\ status = "PARSING_OK" \/ IsBlind(status)
         /\ handler_hash_tx_and_display_tx(parsed, IsBlind(status))
  BY DEF LastTxChunk
<1> HIDE DEF parsed, status
<1>5. CASE ctx' = parsed /\ Fail("SW_TX_PARSING_FAIL")
  BY <1>3, <1>5, FailAnswers DEF Effect, DocumentedWords
<1>6. CASE /\ status = "PARSING_OK" \/ IsBlind(status)
           /\ handler_hash_tx_and_display_tx(parsed, IsBlind(status))
  <2>1. IsBlind(status) \in BOOLEAN /\ (IsBlind(status) => nvm.blind_signed_allowed)
    BY DEF IsBlind
  <2>2. parsed.params = IF IsBlind(status) THEN {} ELSE {parsed.raw}
    BY <1>3, <1>6 DEF IsBlind
  <2> QED
    BY <1>3, <1>6, <2>1, <2>2, HashAndDisplayEffect
<1> QED
  BY <1>4, <1>5, <1>6

LEMMA LastMsgChunkEffect ==
  ASSUME GoodContext(ctx), NEW data \in Chunks, LastMsgChunk(data)
  PROVE  Effect
<1> DEFINE received == [Received("msg_info", data) EXCEPT !.state = "STATE_PARSED"]
           d == [received EXCEPT !.m_hash = Digest("CONFIRM_MESSAGE", received.raw)]
<1>1. ctx.req_type = "CONFIRM_MESSAGE" /\ HasRoom(data, MAX_MESSAGE_LEN)
  BY DEF LastMsgChunk, ExpectsMessage
<1>2. GoodContext(Received("msg_info", data))
  BY <1>1, GoodReceived
<1>3. GoodContext(received)
  BY <1>2, GoodState
<1>4. CASE ctx' = received /\ Fail("SW_HASH_FAIL")
  BY <1>3, <1>4, FailAnswers DEF Effect, DocumentedWords
<1>5. CASE ui_display_message(d)
  <2> HIDE DEF received
  <2>1. received \in Contexts /\ received.raw \in Seq(Symbols)
    BY <1>3 DEF GoodContext, Contexts
  <2>2. /\ d \in Contexts /\ d.m_hash = Digest("CONFIRM_MESSAGE", d.raw)
        /\ d.raw = received.raw /\ d.params = received.params
        /\ d.req_type = received.req_type /\ d.member = received.member
    BY <2>1 DEF Contexts, Digest
  <2>3. GoodContext(d)
    BY <1>3, <2>2 DEF GoodContext, FitsBuffers, MemberMatches, OwnParameters
  <2> HIDE DEF d
  <2> QED
    BY <1>5, <2>2, <2>3, DisplayMessageEffect
<1> QED
  BY <1>4, <1>5 DEF LastMsgChunk

LEMMA SignTxEffect ==
  ASSUME GoodContext(ctx), nvm.blind_signed_allowed \in BOOLEAN,
         NEW data \in Chunks, NEW more \in BOOLEAN, handler_sign_tx(data, more)
  PROVE  Effect
<1>1. CASE RefuseTxChunk(data)
  BY <1>1, FailAnswers DEF RefuseTxChunk, Effect, DocumentedWords
<1>2. CASE StoreTxChunk(data)
  BY <1>2, GoodReceived, FailAnswers
     DEF StoreTxChunk, ExpectsTransaction, Effect, DocumentedWords
<1>3. CASE LastTxChunk(data)
  BY <1>3, LastTxChunkEffect
<1> QED
  BY <1>1, <1>2, <1>3 DEF handler_sign_tx

LEMMA SignMessageEffect ==
  ASSUME GoodContext(ctx), NEW data \in Chunks, NEW more \in BOOLEAN,
         handler_sign_message(data, more)
  PROVE  Effect
<1>1. CASE RefuseMsgChunk(data)
  BY <1>1, FailAnswers DEF RefuseMsgChunk, Effect, DocumentedWords
<1>2. CASE StoreMsgChunk(data)
  BY <1>2, GoodReceived, FailAnswers
     DEF StoreMsgChunk, ExpectsMessage, Effect, DocumentedWords
<1>3. CASE LastMsgChunk(data)
  BY <1>3, LastMsgChunkEffect
<1> QED
  BY <1>1, <1>2, <1>3 DEF handler_sign_message

\* Every command the main loop handles.
LEMMA CommandEffect ==
  ASSUME IndInv, apdu_dispatcher
  PROVE  Handling /\ Effect
<1> USE DEF IndInv
<1>1. GoodContext(ctx) /\ nvm.blind_signed_allowed \in BOOLEAN
  BY DEF TypeOK
<1>2. CASE RefuseCommand
  <2>1. \E sw \in DocumentedWords : Fail(sw)
    BY <1>2 DEF RefuseCommand, DocumentedWords
  <2> QED
    BY <1>1, <1>2, <2>1, FailAnswers DEF RefuseCommand, Effect
<1>3. CASE GetVersion \/ GetAppName
  BY <1>1, <1>3, FailAnswers
     DEF GetVersion, GetAppName, handler_get_version, handler_get_app_name, Effect,
         DocumentedWords
<1>4. CASE GetPublicKey
  BY <1>4, GetPublicKeyEffect DEF GetPublicKey
<1>5. CASE SignTxFirstChunk \/ SignMessageFirstChunk
  BY <1>5, StartUploadEffect DEF SignTxFirstChunk, SignMessageFirstChunk
<1>6. CASE SignTxChunk
  BY <1>1, <1>6, SignTxEffect DEF SignTxChunk
<1>7. CASE SignMessageChunk
  BY <1>1, <1>7, SignMessageEffect DEF SignMessageChunk
<1> QED
  BY <1>2, <1>3, <1>4, <1>5, <1>6, <1>7 DEF apdu_dispatcher
-----------------------------------------------------------------------------
(* Invariance.                                                             *)

LEMMA CommandInv ==
  ASSUME IndInv, apdu_dispatcher
  PROVE  IndInv'
<1>1. Handling /\ Effect
  BY CommandEffect
<1>2. /\ phase = "ready" /\ phase' = phase /\ ~pending
      /\ nvm' = nvm /\ switch' = switch /\ GoodContext(ctx')
  BY <1>1 DEF Handling, Idle, Effect
<1>3. screen.type # "review" /\ screen.request = NoRequest /\ ~screen.blind
  BY <1>2 DEF IndInv, AnswerOwed, SessionShape
<1>4. CASE Answers
  <2>1. TypeOK'
    BY <1>2, <1>4 DEF IndInv, TypeOK, Answers, GoodContext
  <2>2. AnswerOwed' /\ SessionShape'
    BY <1>2, <1>3, <1>4 DEF IndInv, AnswerOwed, SessionShape, Answers
  <2>3. BlindReviewAllowed' /\ SwitchShowsSetting'
    BY <1>2, <1>4 DEF IndInv, BlindReviewAllowed, SwitchShowsSetting, Answers
  <2> QED
    BY <1>2, <2>1, <2>2, <2>3 DEF IndInv, GoodContext, FitsBuffers, MemberMatches,
       OwnParameters, Contexts
<1>5. CASE Opens
  <2>1. PICK request \in Requests, blind \in BOOLEAN :
             /\ screen' = Review(request, blind) /\ reply' = Silent /\ pending' = TRUE
             /\ ReviewOf(ctx', request, blind)
             /\ blind => nvm.blind_signed_allowed
    BY <1>5 DEF Opens, Show
  <2>2. /\ screen' \in Screens /\ screen'.type = "review" /\ screen'.request = request
        /\ screen'.blind = blind /\ ~screen'.success
    BY <2>1, ConstantTypes DEF Review
  <2>3. TypeOK'
    BY <1>2, <2>1, <2>2, ConstantTypes DEF IndInv, TypeOK, GoodContext
  <2>4. AnswerOwed' /\ SessionShape'
    BY <1>2, <2>1, <2>2 DEF IndInv, AnswerOwed, SessionShape
  <2>5. BlindReviewAllowed' /\ SwitchShowsSetting'
    <3>1. switch = nvm.blind_signed_allowed
      BY <1>2, <1>3 DEF IndInv, TypeOK, Screens, SwitchShowsSetting, SessionShape
    <3> QED
      BY <1>2, <2>1, <2>2, <3>1 DEF BlindReviewAllowed, SwitchShowsSetting
  <2> QED
    BY <1>2, <2>3, <2>4, <2>5 DEF IndInv
<1> QED
  BY <1>1, <1>4, <1>5 DEF Effect

\* What every answer to a review does to the screen and to the command.
LEMMA AnswerReviewEffect ==
  ASSUME IndInv, AnswerReview
  PROVE  /\ screen.type = "review" /\ phase = "ready"
         /\ phase' = phase /\ nvm' = nvm /\ pending' = FALSE
         /\ switch' = nvm.blind_signed_allowed
         /\ GoodContext(ctx') /\ reply' \in Replies
         /\ \/ screen' = StatusPage(TRUE) /\ reply'.data \in {screen.request, NoRequest}
            \/ screen' = StatusPage(FALSE) /\ reply'.data = NoRequest
<1>1. screen.type = "review"
  BY DEF AnswerReview, AnswerAddress, AnswerTransaction, AnswerMessage, Reviewing
<1>2. /\ phase = "ready" /\ switch = nvm.blind_signed_allowed
      /\ screen.request \in Requests
      /\ ReviewOf(ctx, screen.request, screen.blind) /\ GoodContext(ctx)
  BY <1>1 DEF IndInv, TypeOK, SessionShape, SwitchShowsSetting
<1>3. phase' = phase /\ nvm' = nvm
  BY DEF AnswerReview, AnswerAddress, AnswerTransaction, AnswerMessage, Answered
<1>4. ASSUME NEW sw \in DocumentedWords, NEW data \in Requests \cup {NoRequest}, Send(sw, data)
      PROVE  reply' \in Replies /\ reply'.data = data /\ pending' = FALSE
  BY <1>4 DEF Send, Replies
<1>5. ASSUME NEW sw \in DocumentedWords, io_send_sw(sw)
      PROVE  reply' \in Replies /\ reply'.data = NoRequest /\ pending' = FALSE
  BY <1>4, <1>5 DEF io_send_sw
<1>6. CASE AnswerAddress
  <2>1. PICK confirm \in BOOLEAN : validate_pubkey(confirm) /\ screen' = StatusPage(confirm)
    BY <1>6 DEF AnswerAddress, Answered
  <2>2. ctx' = ctx /\ switch' = switch
    BY <2>1 DEF validate_pubkey
  <2>3. ctx.req_type = "CONFIRM_ADDRESS" /\ ctx.raw = <<>>
    <3>1. ctx.req_type = "CONFIRM_ADDRESS"
      BY <1>2, <1>6 DEF AnswerAddress, Reviewing, ReviewOf
    <3>2. ctx.member \in {"none", "pk_info"}
      BY <1>2, <3>1 DEF GoodContext, MemberMatches, Contexts
    <3> QED
      BY <1>2, <3>1, <3>2 DEF GoodContext, MemberMatches
  <2>4. PublicKey(ctx) = screen.request
    BY <1>2, <2>3 DEF ReviewOf, PublicKey, Request, Requests
  <2>5. CASE confirm = TRUE
    BY <1>1, <1>2, <1>3, <1>4, <2>1, <2>2, <2>4, <2>5 DEF validate_pubkey, DocumentedWords
  <2>6. CASE confirm = FALSE
    BY <1>1, <1>2, <1>3, <1>5, <2>1, <2>2, <2>6 DEF validate_pubkey, DocumentedWords
  <2> QED
    BY <2>5, <2>6
<1>7. CASE AnswerTransaction \/ AnswerMessage
  <2>1. PICK confirm \in BOOLEAN : Conclude(confirm) /\ screen' = StatusPage(confirm)
    BY <1>7 DEF AnswerTransaction, AnswerMessage, Answered, validate_transaction,
       validate_personal_msg
  <2>2. switch' = nvm.blind_signed_allowed
    BY <1>2, <1>7 DEF AnswerTransaction, AnswerMessage, validate_transaction,
       validate_personal_msg
  <2>3. ctx.req_type \in {"CONFIRM_TRANSACTION", "CONFIRM_MESSAGE"}
    BY <1>2, <1>7 DEF AnswerTransaction, AnswerMessage, Reviewing, ReviewOf
  <2>4. Signature(ctx) = screen.request
    <3>1. ctx.m_hash.kind = ctx.req_type /\ ctx.m_hash.body = ctx.raw
      BY <1>2, <2>3 DEF ReviewOf, Digest
    <3> QED
      BY <1>2, <3>1 DEF ReviewOf, Signature, Request, Requests
  <2>5. GoodContext(ctx')
    BY <1>2, <2>1, GoodState DEF Conclude
  <2>6. CASE confirm = TRUE
    BY <1>1, <1>2, <1>3, <1>4, <1>5, <2>1, <2>2, <2>4, <2>5, <2>6
       DEF Conclude, DocumentedWords
  <2>7. CASE confirm = FALSE
    BY <1>1, <1>2, <1>3, <1>5, <2>1, <2>2, <2>5, <2>7 DEF Conclude, DocumentedWords
  <2> QED
    BY <2>6, <2>7
<1> QED
  BY <1>6, <1>7 DEF AnswerReview

LEMMA AnswerReviewInv ==
  ASSUME IndInv, AnswerReview
  PROVE  IndInv'
<1>1. /\ phase = "ready" /\ phase' = phase /\ nvm' = nvm /\ pending' = FALSE
      /\ switch' = nvm.blind_signed_allowed
      /\ GoodContext(ctx') /\ reply' \in Replies
      /\ \E confirm \in BOOLEAN : screen' = StatusPage(confirm)
  BY AnswerReviewEffect
<1>2. /\ screen' \in Screens /\ screen'.type = "status"
      /\ screen'.request = NoRequest /\ ~screen'.blind
  BY <1>1, ConstantTypes DEF StatusPage
<1>3. TypeOK'
  BY <1>1, <1>2 DEF IndInv, TypeOK, GoodContext
<1>4. AnswerOwed' /\ SessionShape' /\ BlindReviewAllowed' /\ SwitchShowsSetting'
  BY <1>1, <1>2
     DEF IndInv, AnswerOwed, SessionShape, BlindReviewAllowed, SwitchShowsSetting
<1> QED
  BY <1>1, <1>3, <1>4 DEF IndInv

LEMMA GoodZeroed == GoodContext(Zeroed)
<1>1. Len(<<>>) = 0
  OBVIOUS
<1>2. Zeroed.req_type = "CONFIRM_ADDRESS"
  BY DEF Zeroed
<1> QED
  BY <1>1, <1>2, ConstantTypes DEF GoodContext, FitsBuffers, MemberMatches, OwnParameters

LEMMA PageFields ==
  ASSUME NEW type
  PROVE  /\ Page(type).type = type /\ Page(type).request = NoRequest
         /\ ~Page(type).blind /\ ~Page(type).success
  BY DEF Page

\* The steps of the home page, of the power switch and of start-up.
LEMMA DeviceInv ==
  ASSUME IndInv, CloseStatus \/ controls_callback \/ Boot \/ InitStorage \/ Stop
  PROVE  IndInv'
<1> USE DEF IndInv
<1>1. CASE CloseStatus
  <2>1. /\ phase' = phase /\ ctx' = ctx /\ nvm' = nvm /\ pending' = pending
        /\ screen' = Page("home") /\ switch' = nvm.blind_signed_allowed
        /\ screen.type = "status" /\ reply' = Silent
    BY <1>1 DEF CloseStatus, ui_menu_main
  <2>2. TypeOK'
    BY <2>1, ConstantTypes DEF TypeOK
  <2>3. AnswerOwed' /\ SessionShape' /\ BlindReviewAllowed' /\ SwitchShowsSetting'
    BY <2>1, PageFields
       DEF AnswerOwed, SessionShape, BlindReviewAllowed, SwitchShowsSetting
  <2> QED
    BY <2>1, <2>2, <2>3
<1>2. CASE controls_callback
  <2>1. /\ phase' = phase /\ ctx' = ctx /\ screen' = screen /\ pending' = pending
        /\ phase = "ready" /\ screen.type = "home" /\ reply' = Silent
        /\ switch' = ~nvm.blind_signed_allowed
        /\ nvm' = [nvm EXCEPT !.blind_signed_allowed = ~nvm.blind_signed_allowed]
    BY <1>2 DEF controls_callback
  <2>2. /\ nvm' \in [blind_signed_allowed : BOOLEAN, initialized : BOOLEAN]
        /\ nvm'.blind_signed_allowed = ~nvm.blind_signed_allowed
        /\ nvm'.initialized = nvm.initialized
        /\ switch' \in BOOLEAN
    BY <2>1 DEF TypeOK
  <2>3. TypeOK'
    BY <2>1, <2>2, ConstantTypes DEF TypeOK
  <2>4. AnswerOwed' /\ SessionShape' /\ BlindReviewAllowed' /\ SwitchShowsSetting'
    BY <2>1, <2>2 DEF AnswerOwed, SessionShape, BlindReviewAllowed, SwitchShowsSetting
  <2> QED
    BY <2>1, <2>3, <2>4
<1>3. CASE Boot
  <2>1. /\ phase = "off" /\ phase' = "menu" /\ ctx' = ctx /\ nvm' = nvm /\ pending' = pending
        /\ screen' = Page("home") /\ switch' = nvm.blind_signed_allowed /\ reply' = Silent
    BY <1>3 DEF Boot, ui_menu_main
  <2>2. TypeOK'
    BY <2>1, ConstantTypes DEF TypeOK
  <2>3. AnswerOwed' /\ SessionShape' /\ BlindReviewAllowed' /\ SwitchShowsSetting'
    BY <2>1, PageFields
       DEF AnswerOwed, SessionShape, BlindReviewAllowed, SwitchShowsSetting
  <2> QED
    BY <2>1, <2>2, <2>3
<1>4. CASE InitStorage
  <2>1. /\ phase = "menu" /\ phase' = "ready" /\ ctx' = Zeroed /\ nvm' = InitialisedStorage
        /\ screen' = screen /\ switch' = switch /\ pending' = pending /\ reply' = Silent
    BY <1>4 DEF InitStorage
  <2>2. /\ nvm' \in [blind_signed_allowed : BOOLEAN, initialized : BOOLEAN]
        /\ nvm'.blind_signed_allowed = nvm.blind_signed_allowed
        /\ nvm'.initialized
    BY <2>1 DEF TypeOK, InitialisedStorage, SessionShape
  <2>3. TypeOK'
    BY <2>1, <2>2, ConstantTypes, GoodZeroed DEF TypeOK, GoodContext
  <2>4. screen.type = "home"
    BY <2>1 DEF SessionShape
  <2>5. AnswerOwed' /\ SessionShape' /\ BlindReviewAllowed' /\ SwitchShowsSetting'
    BY <2>1, <2>2, <2>4 DEF AnswerOwed, SessionShape, BlindReviewAllowed, SwitchShowsSetting
  <2> QED
    BY <2>1, <2>3, <2>5, GoodZeroed
<1>5. CASE Stop
  <2>1. /\ phase' = "off" /\ ctx' = Zeroed /\ screen' = Page("off") /\ nvm' = nvm
        /\ switch' = FALSE /\ pending' = FALSE /\ reply' = Silent
    BY <1>5 DEF Stop
  <2>2. TypeOK'
    BY <2>1, ConstantTypes, GoodZeroed DEF TypeOK, GoodContext
  <2>3. AnswerOwed' /\ SessionShape' /\ BlindReviewAllowed' /\ SwitchShowsSetting'
    BY <2>1, PageFields
       DEF AnswerOwed, SessionShape, BlindReviewAllowed, SwitchShowsSetting
  <2> QED
    BY <2>1, <2>2, <2>3, GoodZeroed
<1> QED
  BY <1>1, <1>2, <1>3, <1>4, <1>5

LEMMA InitInv ==
  ASSUME Init
  PROVE  IndInv
<1>1. TypeOK
  BY ConstantTypes, GoodZeroed DEF Init, TypeOK, GoodContext
<1>2. AnswerOwed /\ SessionShape /\ BlindReviewAllowed /\ SwitchShowsSetting
  BY PageFields
     DEF Init, AnswerOwed, SessionShape, BlindReviewAllowed, SwitchShowsSetting
<1> QED
  BY <1>1, <1>2, GoodZeroed DEF Init, IndInv

LEMMA NextInv ==
  ASSUME IndInv, [Next]_vars
  PROVE  IndInv'
<1>1. CASE apdu_dispatcher
  BY <1>1, CommandInv
<1>2. CASE AnswerReview
  BY <1>2, AnswerReviewInv
<1>3. CASE CloseStatus \/ controls_callback \/ Boot \/ InitStorage \/ Stop
  BY <1>3, DeviceInv
<1>4. CASE UNCHANGED vars
  BY <1>4 DEF vars, IndInv, TypeOK, GoodContext, OwnParameters, FitsBuffers, MemberMatches,
     AnswerOwed, SessionShape, ReviewOf, BlindReviewAllowed, SwitchShowsSetting
<1> QED
  BY <1>1, <1>2, <1>3, <1>4 DEF Next
-----------------------------------------------------------------------------
(* The theorems.                                                           *)

\* The inductive invariant holds in every reachable state.
LEMMA Invariance == Spec => []IndInv
<1>1. Init => IndInv
  BY InitInv
<1>2. IndInv /\ [Next]_vars => IndInv'
  BY NextInv
<1> QED
  BY <1>1, <1>2, PTL DEF Spec

\* What the inductive invariant says of a review.
LEMMA ReviewFacts ==
  ASSUME IndInv
  PROVE  ReviewMatchesContext /\ UnionMemberMatches /\ NoStaleParameters
<1>1. ReviewMatchesContext
  BY DEF IndInv, SessionShape, ReviewOf, ReviewMatchesContext
<1>2. UnionMemberMatches
  BY DEF IndInv, GoodContext, MemberMatches, UnionMemberMatches
<1>3. NoStaleParameters
  BY DEF IndInv, SessionShape, ReviewOf, NoStaleParameters
<1> QED
  BY <1>1, <1>2, <1>3

\* Every variable keeps its type, and no sequence of chunks overruns raw_tx or
\* raw_msg (sign_tx.c:60, sign_msg.c:55), whatever their capacities.
THEOREM TypeCorrect == Spec => []TypeOK
<1>1. IndInv => TypeOK
  BY DEF IndInv
<1> QED
  BY <1>1, Invariance, PTL

\* A command is left unanswered exactly while its review is on the screen
\* (the handlers' and choice callbacks' calls of io_send_*).
THEOREM AnswersOwed == Spec => []AnswerOwed
<1>1. IndInv => AnswerOwed
  BY DEF IndInv
<1> QED
  BY <1>1, Invariance, PTL

\* What the choice callbacks sign without looking (validate.c:36, validate.c:77)
\* is what the review shows, under the path it was opened for.
THEOREM ReviewsMatchContext == Spec => []ReviewMatchesContext
<1>1. IndInv => ReviewMatchesContext
  BY ReviewFacts
<1> QED
  BY <1>1, Invariance, PTL

\* The union in G_context is only read as the member it was written as
\* (types.h:80).
THEOREM UnionMembersMatch == Spec => []UnionMemberMatches
<1>1. IndInv => UnionMemberMatches
  BY ReviewFacts
<1> QED
  BY <1>1, Invariance, PTL

\* A review shows the parameters of its own transaction, although
\* method.parameters survives from one parse of an upload to the next: a second
\* complete parse would need a second transaction that extends the first and
\* declares the same length (deserialize.c:218).
THEOREM ParametersAreFresh == Spec => []NoStaleParameters
<1>1. IndInv => NoStaleParameters
  BY ReviewFacts
<1> QED
  BY <1>1, Invariance, PTL

\* No blind review without the setting (sign_tx.c:77), and the switch shows the
\* setting (menu_nbgl.c:82, menu_nbgl.c:91).
THEOREM BlindOnlyIfAllowed == Spec => [](BlindReviewAllowed /\ SwitchShowsSetting)
<1>1. IndInv => BlindReviewAllowed /\ SwitchShowsSetting
  BY DEF IndInv
<1> QED
  BY <1>1, Invariance, PTL

\* Also after power has failed before, while or after the storage is initialised,
\* the switch on the home page shows what is stored (menu_nbgl.c:82, app_main.c:51).
THEOREM SwitchIsTrue == Spec => []SwitchShowsSetting
  BY BlindOnlyIfAllowed, PTL
-----------------------------------------------------------------------------
\* Only the settings page changes the setting (menu_nbgl.c:72).
LEMMA SettingStep ==
  ASSUME IndInv, [Next]_vars,
         nvm'.blind_signed_allowed # nvm.blind_signed_allowed
  PROVE  /\ phase = "ready" /\ screen.type = "home" /\ ~pending
         /\ UNCHANGED <<phase, ctx, screen, pending>>
<1>1. CASE apdu_dispatcher
  <2>1. nvm' = nvm
    BY <1>1, CommandEffect DEF Handling
  <2> QED
    BY <2>1
<1>2. CASE AnswerReview
  <2>1. nvm' = nvm
    BY <1>2, AnswerReviewEffect
  <2> QED
    BY <2>1
<1>3. CASE controls_callback
  BY <1>3 DEF controls_callback, IndInv, AnswerOwed
<1>4. CASE CloseStatus \/ Boot \/ Stop
  BY <1>4 DEF CloseStatus, Boot, Stop
<1>5. CASE InitStorage
  BY <1>5 DEF InitStorage, InitialisedStorage, IndInv, TypeOK, SessionShape
<1>6. CASE UNCHANGED vars
  BY <1>6 DEF vars
<1> QED
  BY <1>1, <1>2, <1>3, <1>4, <1>5, <1>6 DEF Next

\* The blind-signing setting changes only by the user's hand on the home page,
\* with no command being handled and no review open.
THEOREM SettingIsTheUsers == Spec => SettingOnlyByUser
<1>1. IndInv /\ [Next]_vars =>
        [nvm'.blind_signed_allowed # nvm.blind_signed_allowed =>
           /\ phase = "ready" /\ screen.type = "home" /\ ~pending
           /\ UNCHANGED <<phase, ctx, screen, pending>>]_vars
  BY SettingStep
<1> QED
  BY <1>1, Invariance, PTL DEF Spec, SettingOnlyByUser
-----------------------------------------------------------------------------
(* The refinement of ClearSigning.                                         *)

ContractNext == [Contract!Next]_(Contract!vars)

LEMMA CommandRefines ==
  ASSUME IndInv, apdu_dispatcher
  PROVE  ContractNext
<1>1. Handling /\ Effect
  BY CommandEffect
<1>2. screen.request = NoRequest
  BY <1>1 DEF Handling, Idle, IndInv, AnswerOwed, SessionShape
<1>3. CASE Answers
  <2>1. screen'.request = NoRequest /\ UNCHANGED screen
        /\ reply'.data \in Addresses \cup {NoRequest}
    BY <1>2, <1>3 DEF Answers
  <2>2. screen'.success \in BOOLEAN
    BY <2>1 DEF IndInv, TypeOK, Screens
  <2>3. Contract!Export \/ Contract!Withhold
    BY <1>2, <2>1, <2>2 DEF Contract!Export, Contract!Withhold
  <2> QED
    BY <2>3 DEF ContractNext, Contract!Next
<1>4. CASE Opens
  <2>1. PICK request \in Requests, blind \in BOOLEAN : Show(request, blind)
    BY <1>4 DEF Opens
  <2>2. screen'.request = request /\ screen'.success = FALSE /\ reply'.data = NoRequest
    BY <2>1 DEF Show, Review, Silent
  <2>3. Contract!Ask
    BY <1>2, <2>2 DEF Contract!Ask
  <2> QED
    BY <2>3 DEF ContractNext, Contract!Next
<1> QED
  BY <1>1, <1>3, <1>4 DEF Effect

LEMMA AnswerRefines ==
  ASSUME IndInv, AnswerReview
  PROVE  ContractNext
<1>1. /\ screen.type = "review"
      /\ \/ screen' = StatusPage(TRUE) /\ reply'.data \in {screen.request, NoRequest}
         \/ screen' = StatusPage(FALSE) /\ reply'.data = NoRequest
  BY AnswerReviewEffect
<1>2. \A confirm \in BOOLEAN : /\ StatusPage(confirm).request = NoRequest
                              /\ StatusPage(confirm).success = confirm
  BY DEF StatusPage
<1>3. screen.request # NoRequest
  <2>1. screen.request \in Requests
    BY <1>1 DEF IndInv, SessionShape
  <2>2. screen.request.kind # "none" /\ NoRequest.kind = "none"
    BY <2>1, ConstantTypes DEF Requests
  <2> QED
    BY <2>2
<1>4. CASE screen' = StatusPage(TRUE) /\ reply'.data = screen.request
  <2>1. Contract!Approve
    BY <1>2, <1>3, <1>4 DEF Contract!Approve
  <2> QED
    BY <2>1 DEF ContractNext, Contract!Next
<1>5. ASSUME NEW confirm \in BOOLEAN, screen' = StatusPage(confirm), reply'.data = NoRequest
      PROVE  ContractNext
  <2>1. Contract!Withhold
    BY <1>2, <1>5 DEF Contract!Withhold
  <2> QED
    BY <2>1 DEF ContractNext, Contract!Next
<1> QED
  BY <1>1, <1>4, <1>5

LEMMA DeviceRefines ==
  ASSUME IndInv, CloseStatus \/ controls_callback \/ Boot \/ InitStorage \/ Stop
  PROVE  ContractNext
<1>1. reply'.data = NoRequest
  BY DEF CloseStatus, controls_callback, Boot, InitStorage, Stop, Silent
<1>2. CASE CloseStatus \/ Boot \/ Stop
  <2>1. screen'.request = NoRequest /\ screen'.success = FALSE
    BY <1>2 DEF CloseStatus, Boot, Stop, ui_menu_main, Page
  <2> QED
    BY <1>1, <2>1 DEF ContractNext, Contract!Next, Contract!Withhold
<1>3. CASE controls_callback \/ InitStorage
  <2>1. screen' = screen /\ screen.type = "home"
    BY <1>3 DEF controls_callback, InitStorage, IndInv, SessionShape
  <2>2. screen'.request = NoRequest /\ screen'.success \in BOOLEAN
    BY <2>1 DEF IndInv, SessionShape, TypeOK, Screens
  <2> QED
    BY <1>1, <2>2 DEF ContractNext, Contract!Next, Contract!Withhold
<1> QED
  BY <1>2, <1>3

\* The application implements the abstract promise: what it signs or exports
\* after a review is what it showed, and only when its user approved.
THEOREM KeepsSigningContract == Spec => SigningContract
<1>1. Init => Contract!Init
  BY PageFields DEF Init, Contract!Init, Silent, Page
<1>2. IndInv /\ [Next]_vars => ContractNext
  <2>1. IndInv /\ UNCHANGED vars => ContractNext
    BY DEF vars, ContractNext, Contract!vars
  <2> QED
    BY <2>1, CommandRefines, AnswerRefines, DeviceRefines DEF Next
<1> QED
  BY <1>1, <1>2, Invariance, PTL DEF Spec, SigningContract, Contract!Spec, ContractNext
=============================================================================
