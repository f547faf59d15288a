# TLA+ models of the Ledger Ontology application

This directory specifies the Ontology application for Ledger devices (`src/`): a
program that runs on a signing device, receives commands (APDUs) from a host,
shows transactions, messages and addresses to its user, and signs or exports
what he approves.  The modules are model-checked with TLC on small instances, and
the properties that matter most are proved with TLAPS for all parameters.

## The system

| Component | Source | State | Operations | Hard parts |
|---|---|---|---|---|
| Main loop, APDU dispatcher | `app_main.c`, `apdu/` | none of its own; a command in hand | receive, check class, instruction, P1/P2 and data, call a handler | one command at a time, but reviews stay open after the handler has returned |
| Handlers, request context | `handler/`, `types.h`, `globals.h` | `G_context`: state, request type, path, a union of key, transaction and message | version, name, public key; chunked upload, hash and review of a transaction or message | a request spans many commands; its context is global, and a refused or finished request leaves it behind |
| Reviews and choice callbacks | `ui/nbgl_display_*.c`, `ui/action/validate.c`, `helper/` | the page on the screen | open a review; on the choice sign, export or refuse, answer the host, show a status page | the callbacks run later and check nothing |
| Page layout | `ui/nbgl_display_transaction.c` (`handle_params`), `ui/nbgl_display_message.c` (`make_message_visible`), `ui/tx_init.c`, `ui/display.h` | `g_buffers`, `g_pairs` | place parameters, fees and signer; write a message as text | slots shared by several writers, loops over parameters the host sent, texts that end at the last byte |
| Home page and setting | `ui/menu_nbgl.c` | a switch; `N_storage` in NVM | draw, toggle, quit | a cached copy of the setting; power loss |
| Transaction parser | `transaction/deserialize.c`, `transaction/parse.c` | cursor, `transaction_t`, the number of entries written | header, payload size, contract, method, parameters, lists of peers and of transfers | lengths and counts chosen by the host; contract and method are searched from the end, parameters read from the start |
| Contracts | `transaction/contract.c` | constant tables | lookup | tables that other parts repeat |
| Amounts | `transaction/utils.c` | two words, a buffer of digits | 128-bit decimal conversion, precision, trimming, unit | carries between words, digit positions, room at the last character |
| Addresses | `address.c` | local variables, the running result | derive, compress, hash, checksum, base58 | each step may fail half way; secrets are cleared on every way out |
| Tests, fuzzing harness | `unit-tests/`, `tests/`, `fuzzing/` | - | - | not modelled |
| Operating system, NBGL, transport | not in the repository | - | - | modelled from how the code uses it |

How they interact: the main loop calls the dispatcher, the dispatcher calls a
handler, the handler writes `G_context` and either answers the host (`io_send_sw`,
`io_send_response_pointer`) or opens a review and returns without an answer.  The
user interface later calls the review's choice callback, which reads `G_context`,
answers the host and shows a status page; closing that page draws the home page.
The home page's switch writes the setting in NVM, which the last chunk of a
transaction reads.

What makes each part correct:

* session: what is signed or exported after a review is what was shown, and only on
  approval; every command gets exactly one answer; no upload overruns its buffer; a
  union member is read as it was written; parameters shown are the transaction's;
* setting: only the user changes it, no restart does, and the switch shows it; a
  blind review needs it;
* layout: no two values share a byte of `g_buffers`, no index leaves `g_pairs`, and
  totals are sums; a message's text is whole and tells messages apart;
* parser: it ends, stays in its buffer and in its parameter array; what it accepts it has
  understood to the last byte, what is well formed it accepts, and what it leaves
  is what the page takes for granted;
* amounts: what the page shows is the number parsed in whole tokens, exactly, in one
  form and whole;
* addresses: a whole address of the right key or hash, or none; two keys have two
  addresses; no local variable outlives a failure.

## Modules

| Module | What it is |
|---|---|
| `ClearSigning` | abstract specification: what the application promises its user |
| `OntApp` | the command session: main loop, dispatcher, handlers, context, reviews, callbacks, home page, setting, power |
| `MCOntApp` | values of OntApp's constants for TLC |
| `OntAppProofs` | theorems about OntApp and their proofs |
| `Contracts` | the tables: known contracts and methods, the parameters the parser leaves for each, labels and positions |
| `ReviewPages` | the layout of a transaction's page in `g_buffers` and `g_pairs`; extends `Contracts` |
| `MCReviewPages` | transactions for TLC: every method under every type of call, and lists up to the limits |
| `MessageView` | the text of a message's page (`make_message_visible`), byte by byte |
| `MCMessageView` | messages for TLC |
| `Series` | joins, sums and powers as recursive functions of how much has been taken; no state |
| `CommonProofs` | lemmas several components' proofs rest on: induction and recursion over numbers, and what follows for joins, sums and powers; about the tables: every method's layout fills the first lines of the page, each once; the shapes and the entries of every signature; the two tables name the same kinds; texts side by side; the forms of an amount and how they are read |
| `Conversions` | amounts in a transaction's bytes: their forms (`parse_amount`) and the conversions to one and to two words; shared by parser and page |
| `CallFormat` | the reference encoder: the bytes of a call, written front to back from the comment on top of `deserialize.c` |
| `TxParser` | the parser, one action per function or round of a loop; extends `Contracts`, `Conversions`, `CallFormat` |
| `TxCalls` | what the parser owes a call that is made as it should be: calls of the tables and others, and the transactions that carry them; extends `TxParser` |
| `MCTxParser` | transactions for TLC: the code of every known call, and damaged ones |
| `Amounts` | an amount from its bytes to its text on the page |
| `MCAmounts` | amounts and calls for TLC |
| `Addresses` | the four functions of `address.c` and their failures |
| `MCAddresses` | keys, hashes and places for TLC |
| `ReviewPagesProofs` | theorems about ReviewPages and their proofs |
| `MessageViewProofs` | theorems about MessageView and their proofs |
| `TxParserProofs` | theorems about TxParser and their proofs; lemmas for `TxParserCallProofs` about one state: what a piece spans, and that each reader finds it |
| `TxParserCallProofs` | what TxParser accepts is what `CallFormat` writes, what `CallFormat` writes of a good call TxParser accepts (`TxCalls`), and their proofs |
| `AmountsProofs` | theorems about Amounts and their proofs |
| `AddressesProofs` | theorems about Addresses |

How they fit together: in `OntApp` the parser is the constants `Declared` and `Verdict`,
and the page one record.  `TxParser` is what happens behind `Verdict`, `ReviewPages`,
`MessageView`, `Amounts` and `Addresses` what happens behind the page.  `TxParser` and
`ReviewPages` meet in `WellParsed` (`Contracts`): `ReviewPages` assumes it of its
transactions, and the theorem `PagesAreFed` shows it of those the parser lets through.
`WellParsed` says that the entries of a known call are those of its contract and method for some
number of pairs or transfers, and that the second entry of a list of peers is that number.  `TxParser` and `Amounts` meet in `Conversions`: `AmountsReadable` shows that
each amount the parser lets pass is one that `Amounts` takes.

### ClearSigning

Three variables: the request the device is asking its user about, whether the device
tells him that he approved, and what the last step released to the host.  `Ask` shows
a request; `Approve` releases exactly the request that was asked about; `Withhold`
drops it; `Export` releases a public key unasked (GET_PUBLIC_KEY with P1 = 0).  A
signature without a question, or for another body or path than the one shown, is not
a step of it.

### OntApp

State: `phase` (off, home page drawn but storage not initialised, ready), `ctx`
(`G_context`), `screen` (the page shown), `nvm` (`N_storage`), `switch`
(`switches[0].initState`), `pending` (a command is unanswered) and `reply` (what the
last step sent).  `ctx.member` records which union member was written last, and
`ctx.params` which parses have written `method.parameters` since the context was
cleared; neither is in the code, both only make properties expressible.

One action per command and path through its handler: `RefuseCommand` (main loop and
dispatcher checks), `GetVersion`, `GetAppName`, `GetPublicKey`, and for each of the two
uploads the first chunk and a later chunk; one action per choice callback
(`AnswerAddress`, `AnswerTransaction`, `AnswerMessage`); `CloseStatus`,
`controls_callback`; `Boot` and `InitStorage`, between which power can fail; and `Stop`
(power loss, quit, transport failure), possible at any moment.  Handlers and
callbacks have the names they have in the code.

Data: a block stands for a run of bytes and a chunk is a sequence of blocks.  The
first block of a transaction is its header: `Declared` gives the length its payload
announces and `Verdict` what the parser says of the call in it.  SHA-256 is injective
(`Digest` is the record of what was hashed).  Operating-system calls that can fail
(derivation, hashing, signing, address conversion) fail nondeterministically.  An
unreadable path field leaves some path in the context (`CutPaths`).

Assumptions about the environment, which the repository does not contain: the
transport hands over no command while the previous one is unanswered (`Idle`), and a
callback runs to its end before the next command is handed over.  Text, labels and the
place of a value on a page are left to the modules below.

### Contracts and ReviewPages

`Contracts` holds no state: `Methods` and `Signature` are the tables of `contract.c`,
`AllEntries` the entries of `method.parameters` that a signature fills (a list of
transfers three per transfer, the peers of a governance call their number, their keys,
then their amounts), `init_dipslay_pos_and_item` the table of labels in `tx_init.c`, which
is chosen by the type of the call and the method alone.

`ReviewPages` is what happens in one command, between the parser's verdict and the page
in `OntApp`: `ui_display_transaction`, the function for blind signing or for known calls,
and `handle_params`.  Its state is the transaction `tx`, the place in the code `stage`, the
intact texts of `g_buffers`, `g_pairs`, `nbPairs`, and the loops' variables.  One action is
one iteration of a loop or a straight piece of code:

| Action | Code |
|---|---|
| `DrawFees` | fee and signer are written, the kind of page is chosen |
| `ui_display_bs_transaction` | the two pairs of a blind page |
| `PlaceParam`, `FinishParams` | the loop over the method's own labels |
| `AddStakeFee` | the fixed fee of `registerCandidate` |
| `EnterPeers`, `PlacePeer`, `FinishPeers` | up to three peers; amounts only if there are no more |
| `PlaceRest`, `AddAmount`, `PlaceTotal` | more than three: how many remain, and the total |
| `EnterTransfers`, `PlaceTransfer`, `FinishTransfers` | the second and later transfers of a list |
| `Close` | fee and signer become the last pairs |
| `Refuse` | a conversion fails: no page |

A text is a place, a size and what it says; a write destroys every text it overlaps
(`Overwrite`), so that "the pair still shows what it was set to" is "its text is still in
`texts`".  A string constant has size 0 and cannot be destroyed.  `g_pairs` starts with
stale pairs, since the code never clears it.  The characters of a text are left out, except
for the fee's length, and so are titles and tickers.  The loop over transfers tests
`parameters[3 * i]` before it compares the index (line 189); the model keeps that order, and
the run `transfer_index` shows that the entry tested can be the one behind the array.
The comparison that follows ends the loop whatever was read.

The parameters a transaction may have are `TransactionAssumption`: what the parser
guarantees of a call it accepts.  The runs build transactions from the tables themselves
(`AllEntries`).

### MessageView

`ui_display_message` and `make_message_visible`: the message `msg`, `stage`, `msg_pos` and
the text written so far, `out`.  Its actions are the failing address (`FailAddress`), the
empty message (`RefuseEmpty`), 20 bytes taken for an Ethereum address (`ShowAddress`), one
iteration of the loop with a printable character or an escape (`ShowChar`, `ShowEscaped`), and
the end of the loop, full or complete (`Finish`).  Bytes and characters are numbers, because
the properties are about what a byte looks like; `isprint` and `isspace` are those of the C
locale and `format_hex` that of the SDK.  The 20 bytes of an address are the constant `EthLen`
(so 43 is `2 * EthLen + 3`), and `OutLen` is the place below the signer's slot.

### CallFormat, Conversions and TxParser

A transaction is a sequence of bytes, `buf`.  The state of `transaction_deserialize` is the
cursor `offset`, the place in the code `stage` (at the end the status returned), what has been
found (`type`, `addr`, `name`) as positions in `buf`, as in the code, the entries written
(`params`, each a kind, a position and a length), how many (`cur`), the parameters still to
come (`todo`) and the loops' variables `num` and `i`.  A reading function is an operator from
a position to the next one, or to `Past` when it fails.

| Action | Code |
|---|---|
| `Header`, `PayloadSize` | version, type, limits on price and gas; the four forms of a length, narrowed to a `size_t` |
| `Contract` | the address, at the front of a Wasm call and near the end of the others |
| `WasmMethod`, `Method` | the method's name; in native and NeoVM calls behind the last mark found from the end |
| `StartTransfers`, `StartParams` | lookup by address and name; a call that is not known ends here, to be signed blindly |
| `SimpleParam`, `OntId`, `TransferStateParam`, `ListParam` | one round of `parse_method_params` |
| `StartPairs`, `PairKey`, `RepeatedCount`, `PairAmount`, `EndPairs` | `parse_pk_amount_pairs`, loop by loop |
| `EndParams`, `Transfer`, `EndTransfers` | the constants behind the parameters; a list of transfers |
| `Ended` | the status has been returned |

The widths of words, addresses and keys are constants, and so are the names and addresses of
contracts, provided that they differ (`TableAssumption`).  `CapacityAssumption` is arithmetic
that the program's constants satisfy on both kinds of devices.  `CallFormat` is independent of
the parser: it puts a call together in the order of the format, which the parser takes
apart from both ends.  No action uses it; properties and transactions for TLC do.

### Amounts

`request` is an amount and its call.  `Convert` is the conversion to two words and its
refusals, `Divide` one round of `format_u128`, which divides both words by ten and carries
what is left of the higher one, and `Place` sets the point and trims zeros.  A text is a
sequence of digits and `Point`.  Decimals are chosen as the parser chooses them, by
contract, method and type of call.  The width of a word is a constant; `P64_Q` and `P64_R`
must be its quotient and remainder by ten, as in the code.

### Addresses

`entry` is the function called: with a path, a key or a script hash.  One action is one
step that can fail, or a return; `result` is the variable of that name, or whether the
caller's is still true.  Bytes are terms, so that hashes are injective and what a failed call
leaves (`Garbage`) is recognised wherever it is copied.  Only base 58 is computed, and of the
numbers that can follow the version byte the runs compute the smallest and the largest; the proof
covers all.
`base58_encode`, which fails only for want of room, does not fail here: `Recognisable`
shows that the text fits.

## What the runs show

| Run | Expected | What it checks |
|---|---|---|
| `session` (`MCOntApp.cfg`) | pass | `TypeOK`, `AnswerOwed`, `ReviewMatchesContext`, `UnionMemberMatches`, `NoStaleParameters`, `BlindReviewAllowed`, `SwitchShowsSetting`, `SettingOnlyByUser`, `SigningContract`, `EveryCommandAnswered` |
| `refused_path` (`MCOntAppPath.cfg`) | violation | `SignsOnlyOnParsedPath` |
| `signed_page` (`MCOntAppPage.cfg`) | violation | `SignedPageMeansSigned` |
| `pages` (`MCReviewPages.cfg`) | pass | `TypeOK`, `PairsComplete`, `ParametersIntact`, `EverythingShown`, `LabelsMatch`, `TotalCountsAll` |
| `fee_overlap` (`MCReviewPagesFee.cfg`) | violation | `FeeIntact` |
| `foreign_type` (`MCReviewPagesTypes.cfg`) | violation | `LabelsAlwaysMatch` |
| `transfer_index` (`MCReviewPagesIndex.cfg`) | violation | `TransfersReadInArray` |
| `message` (`MCMessageView.cfg`) | pass | `TypeOK`, `FullyShown`, `RefusedOnlyIfTooLong`, `ViewIdentifies` |
| `parser` (`MCTxParser.cfg`) | pass | `TypeOK`, `ApartAndInOrder`, `FeeFitsWord`, `Explained`, `EntriesAsTable`, `FeedsReviewPages`, `AmountsReadable`, `KnownCallsAccepted`, `BlindCallsRecognised`, `ParsingEnds` |
| `marker_in_address` (`MCTxParserMarked.cfg`) | violation | `MarkedCallsRecognised` |
| `amounts` (`MCAmounts.cfg`) | pass | `TypeOK`, `NoneLost`, `ShowsTokens`, `NothingCutOff`, `RefusedOnlyIfMismatched` |
| `addresses` (`MCAddresses.cfg`) | pass | `WholeOrNone`, `Recognisable`, `TellsKeysApart`, `NothingLeft` |

Properties of the session:

* `TypeOK`: types, and `FitsBuffers`: no upload overruns `raw_tx` or `raw_msg`.
* `AnswerOwed`: a command is unanswered exactly while its review is on the screen.
* `ReviewMatchesContext`: while a review is open, the context the callback will use is
  the one the review was opened with.
* `UnionMemberMatches`: key, transaction and message are never read as one another.
* `NoStaleParameters`: a review never shows parameters of an earlier parse of the same
  upload.  `method.parameters` is not cleared between parses; what saves it is that the
  length check precedes parameter parsing, so that an earlier part of the upload cannot
  have passed it.
* `BlindReviewAllowed`, `SwitchShowsSetting`, `SettingOnlyByUser`: the setting.
* `SigningContract`: OntApp implements ClearSigning (the page's request is `asked`, the
  approved status page is `consent`, the data of the last answer is `released`).
* `EveryCommandAnswered`: liveness.  The only fairness is that a user in front of a
  review eventually answers it (`WF_vars(AnswerReview)`).  Everything else that answers
  a command is one step of a handler.  The code has no timeout on a review: without this
  assumption the host waits for ever, by design.

Bounds (`MCOntApp`): four blocks, one per verdict (known, unknown, broken, and known
but without a display method), transactions of at most 3 blocks and messages of at most
2, chunks of at most 2, `P1_MAX` 2, three paths (good, foreign prefix, unreadable), all
of them reachable.  A transaction can arrive in one, two or three chunks, overrun by one
chunk at every fill level, be complete before its last chunk, and be followed by a
second upload.  There are 49,614 distinct states.  The commands' order, the user's and
the power switch's are unrestricted, and no counter needs a bound.

Properties of the pages:

* `TypeOK`: types, and every text lies in `g_buffers`, every pair in `g_pairs`.
* `PairsComplete`: the number of pairs the page is told to show and the positions the
  loops filled agree; no pair of an earlier review appears.
* `ParametersIntact`: no text on the page was overwritten after it was placed.
* `EverythingShown`: every parameter is on the page, except those `LeftOut` names; peers
  that are not shown are counted and their amounts totalled.
* `LabelsMatch`: the tables of `contract.c` and `tx_init.c` agree: a value stands under a
  label for its kind, a peer's key and amount under its number.
* `TotalCountsAll`: the total is the sum of all amounts, modulo the word: the code adds
  in a `uint64_t` without a check.  It says that no peer is left out, and holds of a total that
  has wrapped.

The last three speak of the page that is shown and assume, where they compare the tables, a
call made as the type its contract has.  There is no liveness property: laying out a page is
one call with no wait in it.  `CHECK_DEADLOCK FALSE` is needed because a page ends
shown or refused.

Bounds (`MCReviewPages`): `PARAMETERS_MAX_NUM` 15, a multiple of three, as it is in the
code, so that the longest list of transfers ends exactly at the end of all three arrays; up
to five transfers and six peers, so that there are fewer than, exactly and more than the
three peers that are shown; amounts 1 and 3 in words of 4 values, so that totals wrap and do
not wrap; fees of 9 and 24 characters, shorter and longer than the 16 that fit before the
signer.  There are 32,572 distinct states.  The proofs cover every other size.

Properties of a message's text:

* `TypeOK`: types, and the text with its terminator ends before the signer's slot.
* `FullyShown`: a text that is shown is that of the whole message (`View`, a definition
  that knows nothing of positions).
* `RefusedOnlyIfTooLong`: a message is refused only if its text does not fit, exact to the byte.
* `ViewIdentifies`: messages that contain no backslash and do not start with `0x` and have the
  same text differ only in the kinds of white space.  Without these exceptions it is
  false: a message may spell out an escape.

Bounds (`MCMessageView`): every message of up to three bytes over one byte of each kind (digit,
`x`, backslash, blank, line feed, control, beyond ASCII), and messages of up to ten bytes with one odd byte at
each position; 9 bytes of place and addresses of 3 bytes, so that texts end before, at and
after the last byte, and an address fits exactly.  There are 5,506 distinct states.

Properties of the parser:

* `TypeOK`: types, and: the cursor stays in the transaction, the loop over transfers reads no
  byte behind it, every entry lies in it, and none is written behind the end of
  `method.parameters`, although the sum in the check of a list's room can wrap.
* `ApartAndInOrder`: entries are disjoint and in the order of their indices.
* `FeeFitsWord`: price times limit, which the page computes, fits a word.
* `Explained`: a call that is accepted is, to its last byte, the code of a known method
  with the values of the entries, as `CallFormat` puts it together.
* `EntriesAsTable`, `FeedsReviewPages`: the entries' kinds are those that the tables announce,
  and the transaction handed on is one that `ReviewPages` assumes.
* `AmountsReadable`: the page can convert every amount that was let pass.
* `KnownCallsAccepted`, `BlindCallsRecognised` (`TxCalls`), the converse of `Explained`: a
  transaction that carries a known call (its header and lengths are in order and its payload
  is what `CallFormat` writes for it) is accepted with the values the call was made of, and
  one that carries another is offered for blind signing.  `WellMade` and `Blind` say which
  calls these are; TLC evaluates them for every call of the run (`KnownCallsAssumption`,
  `BlindCallsAssumption`).
* `ParsingEnds`: every step leaves fewer steps (`StepsLeft`: the bytes that are left,
  three for each parameter to come, the stages before them).  Together with the absence of a
  deadlock, which the run checks (only `Ended` repeats itself), this is termination, and it
  needs no fairness.

Bounds (`MCTxParser`): words of 1, 2 and 3 bytes in place of 2, 4 and 8; a `size_t` of
two bytes, so that a length of three is narrowed; addresses of 2 bytes, keys of 12, 9 entries and
transactions of up to 111 bytes, the most that `CapacityAssumption` allows.  Transactions: every
method of every contract under each type of call with amounts of every form, lists of
up to three peers or transfers and of too many, a number of peers that makes the sum in the
check of their room wrap; lists of transfers under other types, which are refused; blind calls; seven calls with each byte replaced by eleven others
(opcodes, lengths, their neighbours), left out, or followed by another; every form of a
payload's length, right, wrong and only half right; each length a transaction can be cut to;
prices and limits around theirs.  There are 52,374 distinct states.

Properties of amounts:

* `TypeOK`: words, digits, and no digit in front of the buffer.
* `NoneLost`: between two divisions digits and remaining words are the number, so that no
  division loses or adds anything.
* `ShowsTokens`: the text is the number divided by ten to the token's decimals, with no zero
  too many, in a call made as the type its contract has.
* `NothingCutOff`: amount, unit and terminator fit the slot; `strlcat` would cut in silence.
* `RefusedOnlyIfMismatched`: no amount is refused for its length.  `process_precision` asks for
  one character less than it writes where there are as many decimals as digits; no number is
  long enough for that to matter in a slot of 67.

Bounds (`MCAmounts`): words of one byte, so that numbers of two words have up to five digits;
all 65,536 of them under one call, and those made of eight bytes at edges under each contract,
method and type of call by which decimals and unit are chosen; tokens of 0, 2 and 3 decimals
and methods that add 3, so that there are fewer, as many and more decimals than digits.
There are 535,332 distinct states.

Properties of addresses:

* `WholeOrNone`: success means the whole address of what was given; failure, at whatever
  step, no text.  A failed hash is copied into the address all the same, and only `result`
  stops it.
* `Recognisable`: a text has 34 characters and starts with A, and fits its place, which the
  code compares with a constant and not with what the encoder writes.
* `TellsKeysApart`: two keys with the same address are the same point.
* `NothingLeft`: every local variable that was written is cleared, on every way out.

Bounds (`MCAddresses`): keys with two first bytes, two x and both parities, hashes of one of
them and of another, places of 33, 34 and 67 bytes, each step failing or not.  There are 1,568
distinct states.

The only fairness assumed anywhere is that of `session`.  Pages, texts, parsing, amounts and
addresses are calls without a wait in them.

Disagreements of code and documentation, each a run that TLC refutes:

* `refused_path`: handlers set the request type before they read the path.  A refused
  first chunk (bad length or prefix) leaves a request open that later chunks continue
  and that signs under the refused path.  The operating system still decides which
  paths can be derived, and the page shows the address of the path that signs.
* `signed_page`: after an approval, the status page says "signed" also if signing failed.
* `fee_overlap`: the fee is written with the capacity of a whole slot, 17 bytes before the
  signer's slot.  A fee of more than 16 characters is continued by the signer's address.
* `foreign_type`: contract and method are recognised by address and name; the type of the
  call, which decides the order of the labels, is not compared with the contract's.
* `transfer_index`: a list of transfers that fills `method.parameters` makes the loop of the
  page test the entry behind the array before it compares the index.
* `marker_in_address`: the search for the end of the parameters begins one byte too late, in the
  constants behind the method's name.  Where the first byte of a contract's address is that of
  `OPCODE_PACK` it is taken for it, and the call is refused instead of offered for blind signing.

Smaller ones, seen in the code and left without a run of their own: GET_PUBLIC_KEY sends a raw
error of the operating system as status word (`get_public_key.c:59`; in `OntApp` the word
`cx_err_t`); the total of more than three peers can wrap (`nbgl_display_transaction.c:173`; no
property speaks against it, and `TotalCountsAll` allows it); white space is shown as blanks where the comment promises escapes
(`nbgl_display_message.c:94`; `ViewIdentifies` excepts it); a payload's length of eight bytes is
compared without its upper half where a `size_t` has four (`deserialize.c:210`; modelled by
`payload_size`); the comment on addresses takes the checksum of the script, the code that
of its hash (`address.c:32`); P1 is accepted up to 0x1B where the specification says 0xFF, which
is enough chunks for the longest transaction (`dispatcher.h:21`).

## What is proved

### The session

`OntAppProofs` proves for every set of blocks and paths, every buffer and chunk size, and
every length and verdict assignment, from `DataAssumption`, `SizeAssumption` and
`PathAssumption`:

| Theorem | States |
|---|---|
| `TypeCorrect` | `Spec => []TypeOK` |
| `AnswersOwed` | `Spec => []AnswerOwed` |
| `ReviewsMatchContext` | `Spec => []ReviewMatchesContext` |
| `UnionMembersMatch` | `Spec => []UnionMemberMatches` |
| `ParametersAreFresh` | `Spec => []NoStaleParameters` |
| `BlindOnlyIfAllowed` | `Spec => [](BlindReviewAllowed /\ SwitchShowsSetting)` |
| `SwitchIsTrue` | `Spec => []SwitchShowsSetting` |
| `SettingIsTheUsers` | `Spec => SettingOnlyByUser` |
| `KeepsSigningContract` | `Spec => SigningContract` |

The argument.  None of the properties is inductive alone.  `IndInv` adds to them:

* `GoodContext`: the context is typed, fits its buffers and its union member
  (`MemberMatches`), and every parse that ever wrote parameters read a complete
  transaction that is a prefix of what has been uploaded (`OwnParameters`).  This is what
  makes `NoStaleParameters` inductive: two prefixes with the same header declare the same
  length, so a second complete parse is a parse of the same bytes.
* `SessionShape`: which page goes with which phase, that the ready phase has initialised
  storage, that uninitialised storage forbids blind signing, and that an open review is
  of the current context (`ReviewOf`).

Commands are handled in two layers: each handler's lemma shows an `Effect` (a good context,
and an answer or a review of that context), and `CommandInv` shows that such an effect
preserves `IndInv`.  Callbacks and device steps are `AnswerReviewInv` and `DeviceInv`.  The
refinement (`KeepsSigningContract`) reuses the same effects: an answer is a `Withhold` or
an `Export`, a review an `Ask`, a callback an `Approve` or a `Withhold`, everything else
a `Withhold` with nothing to withhold.

Only model-checked: `EveryCommandAnswered` (liveness under fairness is outside TLAPS'
reach here).

### The pages

`ReviewPagesProofs` proves for every set of transactions the parser may deliver, every
`PARAMETERS_MAX_NUM` from 14 on, and every size of the fee's text up to a slot, from
`SlotAssumption`, `FeeAssumption` and `TransactionAssumption`, the last of which `PagesAreFed`
proves of the parser:

| Theorem | States |
|---|---|
| `PagesFit` | `Spec => []TypeOK` |
| `PagesComplete` | `Spec => []PairsComplete` |
| `PagesIntact` | `Spec => []ParametersIntact` |
| `TotalsAreWhole` | `Spec => []TotalCountsAll` |
| `LabelsAreTrue` | `Spec => []LabelsMatch` |
| `NothingIsHidden` | `Spec => []EverythingShown` |

The argument.  Nothing of this is inductive alone: that a text stays intact depends on
where the next ones go.  `IndInv` says, for each stage, that everything the pairs refer to is
*settled*: a string constant, or an intact text that ends at or below the next slot
the stage will write (`SettledPairs`).  Writing at or above a slot cannot touch what is
settled below it (`SettledStays`), and the newly written text is settled below the slot after
it.  The stage's slot is `i` for the method's labels, `curr` for peers, `3 * i` for
transfers; each is bounded by the stage's part of the invariant (`curr <= 1 + 4 * i`,
`nbPairs <= 1 + 2 * i`, `3 * i <= PARAMETERS_MAX_NUM`), which is where the array sizes
come in: 14 is what three peers, the rest and the total need.  Fee and signer lie above all
of these slots.  `AllPlaced` says that all pairs below `nbPairs` were set; in the first loop,
which places by position, it follows only at the end, because the labels' positions are
the numbers below the number of labels (`LayoutShape` in `CommonProofs`, from the
whole table).

The last three theorems need a second invariant, `SInv`, which rests on the first and says what
the pairs show rather than where they lie:

* `TotalRight`: in the loop over amounts the total is the sum of the amounts passed, modulo the word,
  and no pair shows a total before there is one.
* `AllLabelled`: every pair, stale or new, is labelled for what it shows.  Each step keeps it
  because the kinds of the entries are those of `AllEntries`, and the layout's labels announce
  these kinds (`Tables` in `CommonProofs`, method by method).
* `SaidSoFar`: the parameters the loops have passed are said by the pairs below `nbPairs`.  That they
  stay said is `ParametersIntact` again: a text that is settled is still there.

At the end, what was passed is all there is: the number of peers is the second entry's value
and the number of transfers a third of the entries, by `WellParsed`, and `LeftOut` is the rest.

### The text of a message

`MessageViewProofs` proves for every set of messages, every `OutLen` and `EthLen`, from
`MessageAssumption` and `LengthAssumption`:

| Theorem | States |
|---|---|
| `ViewFits` | `Spec => []TypeOK` |
| `ShortOnesAreShown` | `Spec => []ShortMessagesShown` |
| `MessagesShownWhole` | `Spec => []FullyShown` |
| `RefusalsAreDue` | `Spec => []RefusedOnlyIfTooLong` |
| `TextsTellMessagesApart` | `Spec => []ViewIdentifies` |

The invariant says that in the loop the text is the join of the views of the bytes before
`msg_pos`, and at most four times as long.  The program's place has 6,097 or 10,117 bytes and its messages at most 1,024, so
that by the second theorem no message but the empty one is refused for its text.  The last theorem is an
induction along two messages with one text: the first byte of a view tells whether it is an
escape, provided that no backslash is shown as itself, and so where the next view begins.
(`ShortMessagesShown` needs no run of its own: `RefusedOnlyIfTooLong` implies it for the
sizes of that run.)

### The parser

`TxParserProofs` and, for the last three, `TxParserCallProofs` prove for every set of byte
sequences, and all widths, lengths and tables, from `BufferAssumption`, `SizeAssumption`,
`CapacityAssumption` and `TableAssumption` (and the assumptions on words in `Conversions`);
the last two also from `SearchAssumption` and `NameAssumption`, for every set of calls that
`KnownCallsAssumption` and `BlindCallsAssumption` allow:

| Theorem | States |
|---|---|
| `StaysInBounds` | `Spec => []TypeOK` |
| `EntriesApart` | `Spec => []ApartAndInOrder` |
| `FeesFit` | `Spec => []FeeFitsWord` |
| `EveryTransactionEnds` | `Spec => ParsingEnds` |
| `EntriesFollowTable` | `Spec => []EntriesAsTable` |
| `PagesAreFed` | `Spec => []FeedsReviewPages` |
| `AmountsStayReadable` | `Spec => []AmountsReadable` |
| `CallsAreExplained` | `Spec => []Explained` |
| `KnownCallsGetThrough` | `Spec => []KnownCallsAccepted` |
| `BlindCallsGetThrough` | `Spec => []BlindCallsRecognised` |

The argument.  The module first says what each reading function returns: a position in the
transaction, at a known distance, or `Past`.  The invariant `IInv` adds to the types what each
stage knows:

* `HeaderInv` and `PayloadInv`: length, price and limit have been compared (`FeesFit` follows from
  the division), and the cursor is behind the payload's start.
* `ParamsInv`: entries are written exactly up to `cur`, in order, behind one another and before the
  cursor.
* `PairsInv`: in a list of peers each key read has moved the cursor by its length.  This is what keeps
  the entries in the array.  The check of the room adds in a word, and a number close to
  half of the largest passes it; but keys take space, and by
  `CapacityAssumption` no transaction is long enough for more keys than there is room for.
  If the check's sum did not wrap, the check alone is enough.
* `TransferInv`: the loop over transfers reads the byte at the cursor without asking whether there
  is one.  There is: the last byte of a native call is known to be the zero of `OPCODE_END`,
  and a transfer ends with the byte of `OPCODE_ST_END`, which is another, so that no transfer
  ends with the transaction.

`EveryTransactionEnds` takes `IInv` and shows, action by action, that `StepsLeft` is a number and
falls: each round of a loop consumes at least one byte, since its reading functions found something,
and each parameter is removed from `todo`.

The three theorems after it need a second invariant, `KInv`, of what the entries are:

* `CalledInv`: every amount among the entries begins with a byte that announces its length, and
  every `UINT128` has the length of two words.  `AmountsStayReadable` follows by cases on that byte.
* `ParamsRead`: `todo` is the end of the signature, and the kinds written are the join of the
  entries of the parameters in front of it (`Joins`, up to `Done`).
* `PeersRead`: in a list of peers, the second entry is the number, keys are written up to the loop's
  variable, then amounts; when the loop ends these are the entries of `PK_AMOUNT_PAIRS`.
* `TransfersRead`: `cur` is three times the transfers read, and kinds repeat in threes.

At the end `todo` is empty, and the join of all parts is `AllEntries`.  `PagesAreFed` is what
`ReviewPages` assumes of its transactions: the theorems about pages hold of what the parser
delivers.

`CallsAreExplained` needs a third, `HInv`, of where the pieces were found, since the parser keeps a
cursor and entries but not the positions in between, and `CallFormat` writes a call from front to
back where the parser takes it apart from both ends.  Each piece says that the bytes between two
positions were read by the function for its kind and that the entry for it points there
(`ParamPiece` for a parameter, `PairPiece` for a key, the count or an amount of a list of peers,
`StatePiece` for a transfer):

* `CallHeld`: the constant part, the contract's address and the method's name have been compared
  and stand where the format has them, and before the parameters the cursor is at their start.
* `ParamsHeld`, `PairsHeld`, `TransfersHeld`: there are positions, from the parameters' start to the
  cursor, with a piece between each two of them (`ReadTo`, `PairsFound`, `States0`).  A step finds one
  more; the others stay because entries are written behind those that are there, which is
  what `IInv` and `KInv` say of `cur`.
* `AcceptedHeld`: at the end the positions reach the last byte.

That gives `Explained` in two more steps.  The bytes between two such positions are what the
format writes for the entry (`SimpleSpan`, `PairsSpan`, `StateSpan`, with `FormOf` for the forms of an
amount: what reads as a number is one of the ways to write it).  And spans side by side
join to the span from the first to the last (`SpanJoin`, `JoinedSpans`), so that the payload is the
join that `CallFormat` makes of the parts.  What cannot be read off the entries, the number at the
end of a list and that of the parameters in a NeoVM call, the parser compares with the
numbers they have to be; `ToExplain` asks for these two.

`KnownCallsGetThrough` and `BlindCallsGetThrough` go the other way, from the call to the
transaction, and together with `CallsAreExplained` say that the parser accepts the calls of the
format and no others.  They need a fourth invariant, `RInv`, since that a call is accepted at
the end says nothing of the steps before: for each call that the transaction carries,

* nothing has been refused; from the step that finds it, type and name are the call's (`HeadIs`);
* every entry written points to the bytes of the value with its index (`Valued`);
* the cursor is where the next parameter, piece of a list of peers, or transfer stands
  (`AtParams`, `AtPieces`, `AtStates`), and as many entries are written as belong to those in
  front of it.

Where a part stands is the place of the first and the lengths of the texts in between
(`ParamAt`, `PieceAt`, `StateAt`); that its text stands there (`Stands`) follows from the join
that `CallFormat` makes, by `PartInWhole`.  Then each reader is shown to find what stands: a
value in its form is read to its end, and each of the ways to write a number is read as the number
(`AmountForms`, by `DigitsFor`: every number below a power has its digits).  With that each step
finds what is due and leads to the next place.

The method's name is the hard part.  The code searches it backwards from the end for the last
mark (`OPCODE_PACK`, or the end of the structure in a native call) and starts inside the constant part.  That the
search stops at the mark and not before (`MethodReads`) rests on what stands between: a name of at
most 127 characters below 128 and its length, neither of which can be the mark's byte; the
length of an address; and the first byte of the address, which must not be it.  That is what
`IsName`, `SearchAssumption` and `Unmarked` say, and all that they say: `marker_in_address`
shows a call that fails without the last.  The two ends of native and NeoVM calls are told apart
by one letter of the system call's name (`SearchAssumption`).  Since addresses differ and names
differ (`TableAssumption`), a call that carries them is looked up as itself (`KnownIs`), and one that
does not as none (`BlindIs`).

Further limits of `WellMade` are the code's own: the room for entries; a number of peers that is
not zero; a list of transfers whose number is not written as the byte with which a transfer
begins (`OPCODE_ST_BEGIN[0]`, which the loop takes for one more transfer).

### Amounts

`AmountsProofs` proves for every set of amounts and every width of a word, from
`RequestAssumption`, `QuotientAssumption` and the assumptions on words in `Conversions`:

| Theorem | States |
|---|---|
| `WordsNeverOverflow` | `Spec => []WordsAndDigits` |
| `TypesHold` | `Spec => []TypeOK` |
| `NothingIsLost` | `Spec => []NoneLost` |
| `TokensAreShown` | `Spec => []ShowsTokens` |
| `UnitsFit` | `Spec => []NothingCutOff` |
| `MatchedAmountsAreShown` | `Spec => []RefusedOnlyIfMismatched` |

Each division by ten is exact (`DivideExact`): the dividend of the lower word is
`(high % 10) * UINT64 + low`, less than ten words, so that its quotient is one word.  The code computes it as the sum of three numbers modulo a word, in two
additions; each comparison with a summand is true exactly if that addition has carried, and
since the whole quotient fits a word neither ever does: the carries, which the code adds to the
higher word, are always 0.

The other theorems follow the number itself (`AInv`).  The two words are the number that the bytes
spell, because a little-endian number is its first word plus the rest times a word
(`LittleEndianSplit`).  Between two divisions the words, times ten to the number of digits, plus
what the digits spell is that number (`Midway`), so that when the words are 0 the digits are all
of it, with no zero in front; and a number below the square of a word has no more digits than
fit the slot (`LongestNumber`).  Last, `PlacedSpells`: setting the point, putting zeros in
front and trimming zeros behind changes what a text spells, for its number of places, by no more
than the factor that the places account for, in each of the three ways the code takes.

### Sums, joins and induction

The installed provers have neither induction over data (the library's induction theorems take an
operator as parameter) nor folds.  `CommonProofs` derives both in a form that speaks of sets and
functions alone: a set of numbers that is not empty has a least element, which follows from the
library's `WFMin` for the order of the numbers; hence a set that holds 0 and with each number the
next holds all (`Induction`); hence a function given by its value at 0 and a step exists
(`Recursion`, `BoundedRecursion`).  For `Series` that gives the equations of its recursive
functions (`JoinsFacts`, `SumsFacts`, `PowerFacts`) and what the other modules need: where a part
stands in a join (`PartInWhole`), sums of equal or scaled numbers (`SumsAgree`,
`SumsScaled`), powers of sums of exponents and their order, and what digits to a base spell
(`WorthBound`, `WorthSplit`), for the bytes of amounts and the digits of addresses alike.  This is why the models add and join
with the functions of `Series`.

### Addresses

`AddressesProofs` proves for all sets of keys and hashes and all places, from `InputAssumption`:

| Theorem | States |
|---|---|
| `AddressWholeOrNone` | `Spec => []WholeOrNone` |
| `LocalsCleared` | `Spec => []NothingLeft` |
| `AddressesTellKeysApart` | `Spec => []TellsKeysApart` |
| `AddressesAreRecognisable` | `Spec => []Recognisable` |

The invariant follows the calls from the outside in and back: `Calls` says which function a
stage belongs to, `Progress` that the encoder, if nothing has failed, gets the hash that is
meant, and `Tidy` that a function's local variables are untouched before it begins and clear
once it has returned.  Hashes are terms, so that the last theorem is about the compressed form
of a key and not about collisions.

`Recognisable` needs no more of the calls than that a text is written only where there is room
(`Written`); the rest is base 58, for every 25 bytes that begin with the version
(`TextOfVersion`).  One byte more multiplies the number that the digits spell by 256 and adds the
byte (`ShiftedFacts`), so that with n bytes behind the version it lies between 23 and 24 times 256
to the n; for n = 24 that is between 9 and 10 times 58 to the 33rd power, and digits without a zero
in front that spell such a number are 34, the first of them 9 (`TopDigit`), which is written A.

## Assumptions about what is not in the repository

The transport is half-duplex, callbacks run to their end, derivation, hashing and signing may
fail and leave anything behind, hashes have no collisions, `isprint`, `isspace`, `format_hex` and
`base58_encode` are those of the C locale and the SDK, and the buffer functions move or read
the cursor only where there is room.

## Not modelled

* Tests, the fuzzing harness and its mock of the system calls: test code.
* Titles, pictures, tickers' letters, logging, and the wording of pages.
* The inside of the SDK.  Scheduling of the user interface is reduced to the order of its callbacks.
* `OntApp` and `TxParser` are not composed into one state space: the parser is one call within one
  step of `OntApp`, its result a function of the bytes uploaded, and `OntApp` holds for every
  assignment of lengths and verdicts.  What both share, that a length is checked before any
  parameter is written, is in both.
