------------------------------- MODULE OntApp -------------------------------
(***************************************************************************)
(* The command session of the Ontology application: the main loop, the     *)
(* APDU dispatcher, the five command handlers, the global request context  *)
(* G_context, the reviews they open and the choice callbacks that close    *)
(* them, the home page with its blind-signing switch, and the setting kept *)
(* in NVM across restarts.                                                 *)
(*                                                                         *)
(* Data.  A transaction or a message is a sequence of blocks (Symbols); a  *)
(* chunk is a non-empty sequence of them.  The first block of a            *)
(* transaction carries its header: the length it declares and whether the  *)
(* application knows, does not know or cannot read the contract call in    *)
(* it.  Hashes are modelled as injective.  Key derivation, hashing and     *)
(* signing are calls into the operating system that may fail.              *)
(*                                                                         *)
(* Interaction.  The operating system's transport delivers no command      *)
(* while the previous one has not been answered (pending), and runs user   *)
(* interface callbacks while the main loop waits for a command.            *)
(***************************************************************************)
EXTENDS Naturals, Sequences, FiniteSets

CONSTANTS
    Symbols,              \* blocks of transaction or message data
    Declared,             \* [Symbols -> Nat]: length declared by a header block
    Verdict,              \* [Symbols -> Verdicts]: parse of the rest behind it
    Displayable,          \* header blocks whose call has a display method
    MAX_TRANSACTION_LEN,  \* capacity of tx_info.raw_tx, in blocks
    MAX_MESSAGE_LEN,      \* capacity of msg_info.raw_msg, in blocks
    MaxLc,                \* blocks in one command
    P1_MAX,               \* largest chunk index the dispatcher accepts
    Paths,                \* BIP32 paths
    ValidPrefix,          \* those that start with 44'/1024' or 44'/888'
    CutPaths,             \* what an unreadable path field leaves in the context
    Derivable,            \* paths the operating system lets the app derive
    NoPath                \* the zeroed path of a fresh context

Verdicts == {"PARSING_OK", "PARSING_TX_NOT_DEFINED", "PARSING_BYTECODE_WRONG"}

ASSUME DataAssumption ==
    /\ Declared \in [Symbols -> Nat]
    /\ Verdict \in [Symbols -> Verdicts]
    /\ Displayable \subseteq Symbols

ASSUME SizeAssumption ==
    /\ MAX_TRANSACTION_LEN \in Nat /\ MAX_MESSAGE_LEN \in Nat
    /\ MaxLc \in Nat /\ P1_MAX \in Nat

ASSUME PathAssumption ==
    /\ ValidPrefix \subseteq Paths /\ CutPaths \subseteq Paths
    /\ Derivable \subseteq Paths /\ NoPath \notin Paths

VARIABLES
    phase,    \* "off", "menu" (home drawn, storage not initialised yet), "ready"
    ctx,      \* G_context, and which union member was last written
    screen,   \* what the device shows
    nvm,      \* N_storage
    switch,   \* switches[BLIND_SIGNNING_SWITCH_ID].initState
    pending,  \* a command has been received and not answered
    reply     \* what the last step sent to the host

vars == <<phase, ctx, screen, nvm, switch, pending, reply>>
-----------------------------------------------------------------------------
(* The state's types.                                                      *)

RequestTypes == {"CONFIRM_ADDRESS", "CONFIRM_TRANSACTION", "CONFIRM_MESSAGE"}

Request(kind, path, body) == [kind |-> kind, path |-> path, body |-> body]

Requests == [kind : RequestTypes, path : Paths \cup {NoPath}, body : Seq(Symbols)]

Addresses == [kind : {"CONFIRM_ADDRESS"}, path : Paths \cup {NoPath}, body : {<<>>}]

NoRequest == Request("none", NoPath, <<>>)

Digest(kind, body) == [kind |-> kind, body |-> body]

NoDigest == Digest("none", <<>>)

Zeroed ==   \* explicit_bzero(&G_context): both enumerations start at zero
    [state |-> "STATE_NONE", req_type |-> "CONFIRM_ADDRESS", path |-> NoPath,
     member |-> "none", raw |-> <<>>, params |-> {}, m_hash |-> NoDigest]

Page(type) == [type |-> type, blind |-> FALSE, request |-> NoRequest, success |-> FALSE]

Review(request, blind) ==
    [type |-> "review", blind |-> blind, request |-> request, success |-> FALSE]

StatusPage(confirm) ==
    [type |-> "status", blind |-> FALSE, request |-> NoRequest, success |-> confirm]

Silent == [sw |-> "none", data |-> NoRequest]

DocumentedWords == {
    "SW_OK", "SW_DENY", "SW_WRONG_P1P2", "SW_WRONG_DATA_LENGTH",
    "SW_INS_NOT_SUPPORTED", "SW_CLA_NOT_SUPPORTED", "SW_DISPLAY_ADDRESS_FAIL",
    "SW_WRONG_TX_LENGTH", "SW_TX_PARSING_FAIL", "SW_HASH_FAIL", "SW_BAD_STATE",
    "SW_SIGNATURE_FAIL", "SW_PERSONAL_MSG_PARSING_FAIL", "SW_INVALID_TRANSACTION",
    "SW_INVALID_PATH"}

Contexts ==
    [state : {"STATE_NONE", "STATE_PARSED", "STATE_APPROVED"},
     req_type : RequestTypes, path : Paths \cup {NoPath},
     member : {"none", "pk_info", "tx_info", "msg_info"},
     raw : Seq(Symbols), params : SUBSET Seq(Symbols),
     m_hash : [kind : RequestTypes \cup {"none"}, body : Seq(Symbols)]]

Screens ==
    [type : {"off", "home", "review", "status"}, blind : BOOLEAN,
     request : Requests \cup {NoRequest}, success : BOOLEAN]

Replies == [sw : DocumentedWords \cup {"none", "cx_err_t"}, data : Requests \cup {NoRequest}]
-----------------------------------------------------------------------------
(* Sending.  io_send_sw and io_send_response_pointer answer the command    *)
(* that is being handled; a review leaves it unanswered.                   *)

Send(sw, data) ==
    /\ reply' = [sw |-> sw, data |-> data]
    /\ pending' = FALSE

io_send_sw(sw) == Send(sw, NoRequest)

Show(request, blind) ==
    /\ screen' = Review(request, blind)
    /\ reply' = Silent
    /\ pending' = TRUE

Fail(sw) ==               \* an answer that opens no review
    /\ io_send_sw(sw)
    /\ UNCHANGED screen

\* The outcomes of deriving a key, or signing with it, on a path.
Derivation(path) == IF path \in Derivable THEN BOOLEAN ELSE {FALSE}
-----------------------------------------------------------------------------
(* What the handlers read and write in the context.                        *)

NewRequest(req_type, path) ==
    [Zeroed EXCEPT !.req_type = req_type, !.path = path]

PathStatus(path) ==       \* reading the path field, then is_valid_bip44_prefix
    CASE path \in CutPaths                        -> "SW_WRONG_DATA_LENGTH"
      [] path \notin CutPaths \cup ValidPrefix    -> "SW_INVALID_PATH"
      [] path \in ValidPrefix \ CutPaths          -> "SW_OK"

Received(member, data) == [ctx EXCEPT !.member = member, !.raw = @ \o data]

\* Fault: only what is already stored is compared with the capacity.
HasRoomBefore(data, capacity) == Len(ctx.raw) < capacity

HasRoom(data, capacity) == Len(ctx.raw) + Len(data) <= capacity

\* Fault: bytes behind the declared payload are tolerated.
LengthSuffices(raw) == Len(raw) >= Declared[Head(raw)]

\* transaction_deserialize: the length is checked before the call is looked
\* at, so that only a complete transaction writes method.parameters.
LengthFits(raw) == Len(raw) = Declared[Head(raw)]

Deserialize(raw) ==
    IF LengthFits(raw) THEN Verdict[Head(raw)] ELSE "PARSING_LENGTH_WRONG"

ParametersWritten(raw) ==
    IF Deserialize(raw) \in {"PARSING_OK", "PARSING_BYTECODE_WRONG"} THEN {raw} ELSE {}

\* Fault: the setting is not consulted.
IsBlindAlways(status) == status = "PARSING_TX_NOT_DEFINED"

IsBlind(status) == status = "PARSING_TX_NOT_DEFINED" /\ nvm.blind_signed_allowed

PublicKey(c) == Request("CONFIRM_ADDRESS", c.path, <<>>)

Signature(c) == Request(c.m_hash.kind, c.path, c.m_hash.body)
-----------------------------------------------------------------------------
(* Opening a review.  c is the context as the handler leaves it; the guard *)
(* on its request type and state is the code's.                            *)

ui_display_address(c) ==
    IF c.req_type # "CONFIRM_ADDRESS" \/ c.state # "STATE_NONE"
    THEN ctx' = [c EXCEPT !.state = "STATE_NONE"] /\ Fail("SW_BAD_STATE")
    ELSE /\ ctx' = c
         /\ \/ Fail("SW_DISPLAY_ADDRESS_FAIL")
            \/ Show(PublicKey(c), FALSE)

ui_display_transaction(c, is_blind) ==
    IF c.req_type # "CONFIRM_TRANSACTION" \/ c.state # "STATE_PARSED"
    THEN ctx' = [c EXCEPT !.state = "STATE_NONE"] /\ Fail("SW_BAD_STATE")
    ELSE /\ ctx' = c
         /\ \/ Fail("SW_DISPLAY_ADDRESS_FAIL")
            \/ /\ TRUE \in Derivation(c.path)
               /\ IF is_blind \/ Head(c.raw) \in Displayable
                  THEN Show(Request("CONFIRM_TRANSACTION", c.path, c.raw), is_blind)
                  ELSE Fail("SW_INVALID_TRANSACTION")

ui_display_message(c) ==
    IF c.req_type # "CONFIRM_MESSAGE" \/ c.state # "STATE_PARSED"
    THEN ctx' = [c EXCEPT !.state = "STATE_NONE"] /\ Fail("SW_BAD_STATE")
    ELSE /\ ctx' = c
         /\ \/ Fail("SW_DISPLAY_ADDRESS_FAIL")
            \/ /\ TRUE \in Derivation(c.path)
               /\ IF c.raw # <<>>           \* MessageView: every message fits
                  THEN Show(Request("CONFIRM_MESSAGE", c.path, c.raw), FALSE)
                  ELSE Fail("SW_PERSONAL_MSG_PARSING_FAIL")
-----------------------------------------------------------------------------
(* The command handlers.                                                   *)

handler_get_version == Fail("SW_OK") /\ UNCHANGED ctx

handler_get_app_name == Fail("SW_OK") /\ UNCHANGED ctx

handler_get_public_key(path, display) ==
    LET c == NewRequest("CONFIRM_ADDRESS", path)
        k == [c EXCEPT !.member = "pk_info"]
    IN  \/ /\ PathStatus(path) # "SW_OK"
           /\ ctx' = c
           /\ Fail(PathStatus(path))
        \/ /\ PathStatus(path) = "SW_OK"
           /\ FALSE \in Derivation(path)
           /\ ctx' = c
           /\ Fail("cx_err_t")              \* io_send_sw(error)
        \/ /\ PathStatus(path) = "SW_OK"
           /\ TRUE \in Derivation(path)
           /\ IF display
              THEN ui_display_address(k)
              ELSE ctx' = k /\ Send("SW_OK", PublicKey(k)) /\ UNCHANGED screen

\* Chunk 0 of SIGN_TX and of SIGN_MESSAGE: a new context and its path.  A path
\* that is refused stays in the context, whose request type is already set.
StartUpload(req_type, path) ==
    /\ ctx' = NewRequest(req_type, path)
    /\ Fail(PathStatus(path))

\* Fault: any signing request accepts transaction chunks.
ExpectsSigning == ctx.req_type # "CONFIRM_ADDRESS"

ExpectsTransaction == ctx.req_type = "CONFIRM_TRANSACTION"

ExpectsMessage == ctx.req_type = "CONFIRM_MESSAGE"

\* A later chunk that is not stored.
RefuseTxChunk(data) ==
    /\ \/ ~ExpectsTransaction /\ Fail("SW_BAD_STATE")
       \/ /\ ExpectsTransaction
          /\ ~HasRoom(data, MAX_TRANSACTION_LEN)
          /\ Fail("SW_WRONG_TX_LENGTH")
    /\ UNCHANGED ctx

RefuseMsgChunk(data) ==
    /\ \/ ~ExpectsMessage /\ Fail("SW_BAD_STATE")
       \/ /\ ExpectsMessage
          /\ ~HasRoom(data, MAX_MESSAGE_LEN)
          /\ Fail("SW_WRONG_DATA_LENGTH")
    /\ UNCHANGED ctx

StoreTxChunk(data) ==
    /\ ExpectsTransaction /\ HasRoom(data, MAX_TRANSACTION_LEN)
    /\ ctx' = Received("tx_info", data)
    /\ Fail("SW_OK")

StoreMsgChunk(data) ==
    /\ ExpectsMessage /\ HasRoom(data, MAX_MESSAGE_LEN)
    /\ ctx' = Received("msg_info", data)
    /\ Fail("SW_OK")

\* Fault: the hash does not cover the last chunk.
HashBeforeAppend(c, is_blind) ==
    \/ ctx' = c /\ Fail("SW_HASH_FAIL")
    \/ ui_display_transaction(
           [c EXCEPT !.state = "STATE_PARSED",
                     !.m_hash = Digest("CONFIRM_TRANSACTION", ctx.raw)], is_blind)

\* The last chunk: append, parse, hash and show.
handler_hash_tx_and_display_tx(c, is_blind) ==
    \/ ctx' = c /\ Fail("SW_HASH_FAIL")
    \/ ui_display_transaction(
           [c EXCEPT !.state = "STATE_PARSED",
                     !.m_hash = Digest("CONFIRM_TRANSACTION", c.raw)], is_blind)

LastTxChunk(data) ==
    LET received == Received("tx_info", data)
        parsed   == [received EXCEPT !.params = @ \cup ParametersWritten(received.raw)]
        status   == Deserialize(received.raw)
    IN  /\ ExpectsTransaction /\ HasRoom(data, MAX_TRANSACTION_LEN)
        /\ \/ /\ status # "PARSING_OK" /\ ~IsBlind(status)
              /\ ctx' = parsed
              /\ Fail("SW_TX_PARSING_FAIL")
           \/ /\ status = "PARSING_OK" \/ IsBlind(status)
              /\ handler_hash_tx_and_display_tx(parsed, IsBlind(status))

LastMsgChunk(data) ==
    LET received == [Received("msg_info", data) EXCEPT !.state = "STATE_PARSED"]
    IN  /\ ExpectsMessage /\ HasRoom(data, MAX_MESSAGE_LEN)
        /\ \/ ctx' = received /\ Fail("SW_HASH_FAIL")
           \/ ui_display_message(
                  [received EXCEPT !.m_hash = Digest("CONFIRM_MESSAGE", received.raw)])

handler_sign_tx(data, more) ==
    \/ RefuseTxChunk(data)
    \/ more /\ StoreTxChunk(data)
    \/ ~more /\ LastTxChunk(data)

handler_sign_message(data, more) ==
    \/ RefuseMsgChunk(data)
    \/ more /\ StoreMsgChunk(data)
    \/ ~more /\ LastMsgChunk(data)
-----------------------------------------------------------------------------
(* The dispatcher.                                                         *)

P1_START == 0
P2_LAST  == 0
P2_MORE  == 128

P1Values == 0 .. (P1_MAX + 1)            \* larger ones are refused alike
P2Values == {P2_LAST, P2_MORE, 1}        \* 1 stands for every other value

Instructions == {"GET_VERSION", "GET_APP_NAME", "GET_PUBLIC_KEY", "SIGN_TX", "SIGN_MESSAGE"}

Chunks == UNION {[1 .. n -> Symbols] : n \in 1 .. MaxLc}

AcceptsParameters(ins, p1, p2) ==
    CASE ins \in {"GET_VERSION", "GET_APP_NAME"} -> p1 = 0 /\ p2 = 0
      [] ins = "GET_PUBLIC_KEY"                  -> p1 <= 1 /\ p2 = 0
      [] ins \in {"SIGN_TX", "SIGN_MESSAGE"}     ->
             /\ p1 = P1_START => p2 = P2_MORE
             /\ p1 <= P1_MAX
             /\ p2 \in {P2_LAST, P2_MORE}

\* Fault: a command is handled although the previous one is unanswered.
NotWaiting == phase = "ready"

\* The main loop hands over one command at a time; no handler touches the
\* setting, its switch or the power.
Idle == phase = "ready" /\ ~pending

Handling == Idle /\ UNCHANGED <<phase, nvm, switch>>

\* Commands that reach no handler: unreadable (main loop), wrong class, unknown
\* instruction, wrong parameters, or no data where a handler needs some.
RefuseCommand ==
    /\ Handling
    /\ \/ \E sw \in {"SW_WRONG_DATA_LENGTH", "SW_CLA_NOT_SUPPORTED", "SW_INS_NOT_SUPPORTED"} :
              Fail(sw)
       \/ \E ins \in Instructions, p1 \in P1Values, p2 \in P2Values :
              ~AcceptsParameters(ins, p1, p2) /\ Fail("SW_WRONG_P1P2")
    /\ UNCHANGED ctx

GetVersion == Handling /\ handler_get_version

GetAppName == Handling /\ handler_get_app_name

GetPublicKey ==
    /\ Handling
    /\ \E p1 \in P1Values, p2 \in P2Values, path \in Paths :
           /\ AcceptsParameters("GET_PUBLIC_KEY", p1, p2)
           /\ handler_get_public_key(path, p1 = 1)

SignTxFirstChunk ==
    /\ Handling
    /\ \E p2 \in P2Values, path \in Paths :
           /\ AcceptsParameters("SIGN_TX", P1_START, p2)
           /\ StartUpload("CONFIRM_TRANSACTION", path)

SignMessageFirstChunk ==
    /\ Handling
    /\ \E p2 \in P2Values, path \in Paths :
           /\ AcceptsParameters("SIGN_MESSAGE", P1_START, p2)
           /\ StartUpload("CONFIRM_MESSAGE", path)

SignTxChunk ==
    /\ Handling
    /\ \E p1 \in P1Values \ {P1_START}, p2 \in P2Values, data \in Chunks :
           /\ AcceptsParameters("SIGN_TX", p1, p2)
           /\ handler_sign_tx(data, p2 = P2_MORE)

SignMessageChunk ==
    /\ Handling
    /\ \E p1 \in P1Values \ {P1_START}, p2 \in P2Values, data \in Chunks :
           /\ AcceptsParameters("SIGN_MESSAGE", p1, p2)
           /\ handler_sign_message(data, p2 = P2_MORE)

apdu_dispatcher ==
    \/ RefuseCommand
    \/ GetVersion
    \/ GetAppName
    \/ GetPublicKey
    \/ SignTxFirstChunk
    \/ SignMessageFirstChunk
    \/ SignTxChunk
    \/ SignMessageChunk
-----------------------------------------------------------------------------
(* The user's answer to a review: validate_* runs first, then the status   *)
(* page is shown.  Neither looks at the context's request type or state.   *)

Reviewing(kind) == screen.type = "review" /\ screen.request.kind = kind

\* Fault: a rejected address is not answered.
RejectAddressSilently(choice) ==
    /\ IF choice THEN Send("SW_OK", PublicKey(ctx)) ELSE UNCHANGED <<reply, pending>>
    /\ UNCHANGED <<ctx, switch>>

validate_pubkey(choice) ==
    /\ IF choice THEN Send("SW_OK", PublicKey(ctx)) ELSE io_send_sw("SW_DENY")
    /\ UNCHANGED <<ctx, switch>>

\* Signing, or refusing to; the same in validate_transaction and
\* validate_personal_msg.
Conclude(choice) ==
    \/ /\ choice
       /\ TRUE \in Derivation(ctx.path)
       /\ ctx' = [ctx EXCEPT !.state = "STATE_APPROVED"]
       /\ Send("SW_OK", Signature(ctx))
    \/ /\ choice
       /\ ctx' = [ctx EXCEPT !.state = "STATE_NONE"]
       /\ io_send_sw("SW_SIGNATURE_FAIL")
    \/ /\ ~choice
       /\ ctx' = [ctx EXCEPT !.state = "STATE_NONE"]
       /\ io_send_sw("SW_DENY")

validate_transaction(choice) ==
    /\ Conclude(choice)
    /\ switch' = nvm.blind_signed_allowed       \* ui_menu_main

\* Fault: a rejected message is not answered.
RejectMessageSilently(choice) ==
    /\ IF choice THEN Conclude(TRUE) ELSE UNCHANGED <<ctx, reply, pending>>
    /\ UNCHANGED switch

validate_personal_msg(choice) == Conclude(choice) /\ UNCHANGED switch

Answered(confirm) == screen' = StatusPage(confirm) /\ UNCHANGED <<phase, nvm>>

AnswerAddress ==
    /\ Reviewing("CONFIRM_ADDRESS")
    /\ \E confirm \in BOOLEAN : validate_pubkey(confirm) /\ Answered(confirm)

AnswerTransaction ==
    /\ Reviewing("CONFIRM_TRANSACTION")
    /\ \E confirm \in BOOLEAN : validate_transaction(confirm) /\ Answered(confirm)

AnswerMessage ==
    /\ Reviewing("CONFIRM_MESSAGE")
    /\ \E confirm \in BOOLEAN : validate_personal_msg(confirm) /\ Answered(confirm)

AnswerReview == AnswerAddress \/ AnswerTransaction \/ AnswerMessage
-----------------------------------------------------------------------------
(* Home page, setting and power.                                           *)

ui_menu_main ==
    /\ screen' = Page("home")
    /\ switch' = nvm.blind_signed_allowed

CloseStatus ==            \* tapped away, or its timer
    /\ screen.type = "status"
    /\ ui_menu_main
    /\ reply' = Silent
    /\ UNCHANGED <<phase, ctx, nvm, pending>>

\* Fault: the new value is stored and the switch is not redrawn.
ToggleStorageOnly ==
    /\ phase = "ready" /\ screen.type = "home"
    /\ nvm' = [nvm EXCEPT !.blind_signed_allowed = ~@]
    /\ reply' = Silent
    /\ UNCHANGED <<phase, ctx, screen, switch, pending>>

controls_callback ==      \* the user flips the switch on the settings page
    /\ phase = "ready" /\ screen.type = "home"
    /\ switch' = ~nvm.blind_signed_allowed
    /\ nvm' = [nvm EXCEPT !.blind_signed_allowed = ~@]
    /\ reply' = Silent
    /\ UNCHANGED <<phase, ctx, screen, pending>>

Boot ==                   \* app_main up to ui_menu_main
    /\ phase = "off"
    /\ phase' = "menu"
    /\ ui_menu_main
    /\ reply' = Silent
    /\ UNCHANGED <<ctx, nvm, pending>>

\* Fault: the storage is initialised on every start.
ResetStorage == [blind_signed_allowed |-> FALSE, initialized |-> TRUE]

InitialisedStorage ==
    IF nvm.initialized THEN nvm ELSE [blind_signed_allowed |-> FALSE, initialized |-> TRUE]

InitStorage ==            \* app_main: context reset, then first-run storage
    /\ phase = "menu"
    /\ phase' = "ready"
    /\ ctx' = Zeroed
    /\ nvm' = InitialisedStorage
    /\ reply' = Silent
    /\ UNCHANGED <<screen, switch, pending>>

\* Power loss at any moment; also app_quit, and app_main returning when the
\* transport fails.  Only the NVM survives.
Stop ==
    /\ phase # "off"
    /\ phase' = "off"
    /\ ctx' = Zeroed
    /\ screen' = Page("off")
    /\ switch' = FALSE
    /\ pending' = FALSE
    /\ reply' = Silent
    /\ UNCHANGED nvm
-----------------------------------------------------------------------------
Init ==
    /\ phase = "off"
    /\ ctx = Zeroed
    /\ screen = Page("off")
    /\ nvm = [blind_signed_allowed |-> FALSE, initialized |-> FALSE]
    /\ switch = FALSE
    /\ pending = FALSE
    /\ reply = Silent

Next ==
    \/ apdu_dispatcher
    \/ AnswerReview
    \/ CloseStatus
    \/ controls_callback
    \/ Boot
    \/ InitStorage
    \/ Stop

Spec == Init /\ [][Next]_vars

\* A user in front of a review eventually answers it.
FairSpec == Spec /\ WF_vars(AnswerReview)
-----------------------------------------------------------------------------
(* Correctness.                                                            *)

FitsBuffers(c) ==
    /\ c.req_type = "CONFIRM_TRANSACTION" => Len(c.raw) <= MAX_TRANSACTION_LEN
    /\ c.req_type = "CONFIRM_MESSAGE" => Len(c.raw) <= MAX_MESSAGE_LEN

\* Every variable has its type, and no upload overruns the buffer of the union
\* member it is stored in (sign_tx.c:60, sign_msg.c:56).
TypeOK ==
    /\ phase \in {"off", "menu", "ready"}
    /\ ctx \in Contexts
    /\ screen \in Screens
    /\ nvm \in [blind_signed_allowed : BOOLEAN, initialized : BOOLEAN]
    /\ switch \in BOOLEAN
    /\ pending \in BOOLEAN
    /\ reply \in Replies
    /\ FitsBuffers(ctx)

\* A command waits for its answer exactly while a review is on the screen: the
\* host is never left without an answer and without a question to the user, and
\* no answer is sent while the user is still being asked.
AnswerOwed == pending <=> screen.type = "review"

\* While a transaction or message is being reviewed, the context is the one the
\* review was opened with: the choice callbacks (validate.c:60, validate.c:101),
\* which check nothing, sign what is on the screen under the path on the screen.
ReviewMatchesContext ==
    screen.type = "review" =>
        /\ screen.request.kind = ctx.req_type
        /\ screen.request.path = ctx.path
        /\ screen.request.body = ctx.raw
        /\ ctx.req_type # "CONFIRM_ADDRESS" =>
               /\ ctx.state = "STATE_PARSED"
               /\ ctx.m_hash = Digest(ctx.req_type, ctx.raw)

\* The members of the context's union are never mixed: what is read as a key, a
\* transaction or a message was written as one (types.h:80).
UnionMemberMatches ==
    /\ ctx.member \in {"none", "pk_info"} => ctx.raw = <<>>
    /\ ctx.member = "pk_info"  => ctx.req_type = "CONFIRM_ADDRESS"
    /\ ctx.member = "tx_info"  => ctx.req_type = "CONFIRM_TRANSACTION"
    /\ ctx.member = "msg_info" => ctx.req_type = "CONFIRM_MESSAGE"

\* The parameters shown for a transaction are its own.  method.parameters is not
\* cleared between two parses of one upload, and handle_params walks it up to
\* the first empty slot (nbgl_display_transaction.c:189): a parse of an earlier
\* part of the upload must not have filled any.
NoStaleParameters ==
    screen.type = "review" /\ screen.request.kind = "CONFIRM_TRANSACTION" =>
        ctx.params = IF screen.blind THEN {} ELSE {screen.request.body}

\* A blind review is on the screen only while the setting allows it, whatever
\* the user did with the switch while the transaction was being uploaded.
BlindReviewAllowed == screen.blind => nvm.blind_signed_allowed

\* The switch on the home page shows the stored setting, also after a restart
\* and after first-run storage (menu_nbgl.c:82, menu_nbgl.c:91).
SwitchShowsSetting ==
    screen.type \in {"home", "review", "status"} => switch = nvm.blind_signed_allowed

\* The setting changes only by the user's hand on the home page: no command, no
\* answer to a review, no restart and no first-run storage changes it.
SettingOnlyByUser ==
    [][nvm'.blind_signed_allowed # nvm.blind_signed_allowed =>
           /\ phase = "ready" /\ screen.type = "home" /\ ~pending
           /\ UNCHANGED <<phase, ctx, screen, pending>>]_vars

Contract == INSTANCE ClearSigning WITH
    Requests  <- Requests,
    Addresses <- Addresses,
    Nothing   <- NoRequest,
    asked     <- screen.request,
    consent   <- screen.success,
    released  <- reply.data

\* The device signs, and exports after a review, exactly what it showed, and
\* only on approval: OntApp implements ClearSigning.
SigningContract == Contract!Spec

\* Every command is answered, provided the user answers the review it opens.
EveryCommandAnswered == pending ~> ~pending
-----------------------------------------------------------------------------
(* Statements of the documentation that the code does not keep.            *)

\* sign_tx.h:9, sign_msg.h:10: a request is signed if its path was parsed.
SignsOnlyOnParsedPath ==
    reply.data.kind \in {"CONFIRM_TRANSACTION", "CONFIRM_MESSAGE"} =>
        reply.data.path \in ValidPrefix \ CutPaths

\* A page that says "signed" is shown when a signature was released.
SignedPageMeansSigned ==
    [][screen'.type = "status" /\ screen'.success /\ screen.type = "review" =>
           reply'.data # NoRequest]_vars
=============================================================================
