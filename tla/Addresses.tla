----------------------------- MODULE Addresses ------------------------------
(***************************************************************************)
(* The address of a public key, or of a script hash found in a             *)
(* transaction (address.c): four functions that call one another, each of  *)
(* which may fail half way and clears its local variables on the way out.  *)
(*                                                                         *)
(* Bytes are terms: a hash is known by what was hashed.  Only the text is  *)
(* computed, for the least and the greatest bytes that the terms can be.   *)
(***************************************************************************)
EXTENDS Naturals, Sequences, SequencesExt

CONSTANTS
    Keys,          \* public keys: first byte, x, and whether y is odd
    ScriptHashes,  \* of the parameters of a transaction
    OutLengths     \* sizes of the place for the text

ASSUME InputAssumption ==
    /\ \A k \in Keys : DOMAIN k = {"first", "x", "odd"} /\ k.odd \in BOOLEAN
    /\ OutLengths \subseteq Nat

\* Fault: one version off.
NextVersion == 24

ADDRESS_VERSION == 23

BASE58_ADDRESS_LEN == 34

VARIABLES
    entry,    \* the function called, by what it is given: a path, a key, a hash
    key,      \* the key of the path, or given
    hash,     \* the hash, if given
    out_len,
    stage,    \* where the code is
    local,    \* local variables
    result,   \* so far
    out       \* the text

vars == <<entry, key, hash, out_len, stage, local, result, out>>
-----------------------------------------------------------------------------
(* Terms.                                                                  *)

Sha256(term) == <<"sha256", term>>

Ripemd160(term) == <<"ripemd160", term>>

Untouched == <<"untouched">>

Garbage == <<"garbage">>     \* what a call that fails leaves

Zero == <<"zero">>

\* Fault: the parity of y is lost.
EvenKey(k) == <<2, k.x>>

compressed_key(k) == <<IF k.odd THEN 3 ELSE 2, k.x>>

Script(k) == <<"script", compressed_key(k)>>

PreAddress(script_hash, digest) == <<"address", ADDRESS_VERSION, script_hash, digest>>
-----------------------------------------------------------------------------
(* Base 58: digits, the least significant first.                           *)

CarryDigits(n) ==
    CASE n = 0 -> <<>>
      [] n \in 1 .. 57 -> <<n>>
      [] OTHER -> <<n % 58, n \div 58>>

\* What is carried from each digit to the next when digits are multiplied by
\* 256 and a byte is added.
Carries(digits, byte) ==
    LET upTo[k \in 0 .. Len(digits)] ==
            IF k = 0 THEN byte ELSE (256 * digits[k] + upTo[k - 1]) \div 58
    IN  upTo

Shifted(digits, byte) ==
    LET carry == Carries(digits, byte)
    IN  [k \in 1 .. Len(digits) |-> (256 * digits[k] + carry[k - 1]) % 58]
            \o CarryDigits(carry[Len(digits)])

\* The digits of the number that the first n bytes spell, the first byte most
\* significant.
Digits(bytes) ==
    LET upTo[n \in 0 .. Len(bytes)] == IF n = 0 THEN <<>> ELSE Shifted(upTo[n - 1], bytes[n])
    IN  upTo

Base58(bytes) == Digits(bytes)[Len(bytes)]

NoText == <<>>

\* The digits of an address whose hash and checksum are one byte repeated.
DigitsWith(byte) == Base58([k \in 1 .. 25 |-> IF k = 1 THEN ADDRESS_VERSION ELSE byte])
-----------------------------------------------------------------------------
(* The functions, from the inside: where each begins and returns to.       *)

HashLocals == {"data_hash_1", "data_hash_2", "address"}

DigestLocals == {"sha256_hash"}

ScriptLocals == {"compressed_key"}

KeyLocals == {"script", "ripemd160_hash"}

\* Fault: the chain code is forgotten.
PathKeyOnly == {"uncompressed_key"}

PathLocals == {"uncompressed_key", "chain_code"}

Locals ==
    HashLocals \cup DigestLocals \cup ScriptLocals \cup KeyLocals
        \cup {"uncompressed_key", "chain_code"}

FromHash == IF entry = "hash" THEN "returned" ELSE "return_key"

FromKey == IF entry = "path" THEN "return_path" ELSE "returned"

Wiped(names) == [l \in Locals |-> IF l \in names THEN Zero ELSE local[l]]

AtStage(s) == stage = s /\ UNCHANGED <<entry, key, hash, out_len>>

Fits == out_len >= BASE58_ADDRESS_LEN

\* derive_address_from_bip32_path
Derive ==
    /\ AtStage("derive")
    /\ \/ /\ local' = [local EXCEPT !["uncompressed_key"] = <<"key", key>>,
                                    !["chain_code"] = <<"chain", key>>]
          /\ stage' = "key" /\ UNCHANGED result
       \/ /\ local' = [local EXCEPT !["uncompressed_key"] = Garbage, !["chain_code"] = Garbage]
          /\ stage' = "return_path" /\ result' = FALSE
    /\ UNCHANGED out

\* convert_uncompressed_pubkey_to_address; no room is an early return.
CheckRoom ==
    /\ AtStage("key")
    /\ \/ ~Fits /\ stage' = FromKey /\ result' = FALSE /\ UNCHANGED local
       \/ Fits /\ stage' = "script" /\ local' = Wiped(KeyLocals) /\ UNCHANGED result
    /\ UNCHANGED out

\* A key in another form is an early return, before compressed_key is written.
covert_pk_to_address_script ==
    /\ AtStage("script")
    /\ \/ key.first # 4 /\ stage' = "return_key" /\ result' = FALSE /\ UNCHANGED local
       \/ /\ key.first = 4 /\ stage' = "return_script" /\ UNCHANGED result
          /\ local' = [local EXCEPT !["compressed_key"] = compressed_key(key),
                                    !["script"] = Script(key)]
    /\ UNCHANGED out

\* The script is in the form that is asked for: it has just been made.  The
\* second hash is not computed if the first has failed.
hash_script ==
    /\ AtStage("digest") /\ stage' = "return_digest"
    /\ LET digest == Sha256(local["script"])
           filled(one, two) ==
               [local EXCEPT !["sha256_hash"] = one, !["ripemd160_hash"] = two]
       IN  \/ local' = filled(digest, Ripemd160(digest)) /\ UNCHANGED result
           \/ local' = filled(Garbage, local["ripemd160_hash"]) /\ result' = FALSE
           \/ local' = filled(digest, Garbage) /\ result' = FALSE
    /\ UNCHANGED out

ScriptHash == IF entry = "hash" THEN hash ELSE local["ripemd160_hash"]

\* convert_script_hash_to_base58_address: after a failure the checksum is
\* copied all the same, and only result keeps it from being encoded.
Checksum ==
    /\ AtStage("hash")
    /\ IF ~Fits
       THEN stage' = FromHash /\ result' = FALSE /\ UNCHANGED local
       ELSE /\ stage' = "encode"
            /\ LET first  == Sha256(<<ADDRESS_VERSION, ScriptHash>>)
                   filled(one, two) ==
                       [local EXCEPT !["data_hash_1"] = one, !["data_hash_2"] = two,
                                     !["address"] = PreAddress(ScriptHash, two)]
               IN  \/ local' = filled(first, Sha256(first)) /\ UNCHANGED result
                   \/ local' = filled(Garbage, Garbage) /\ result' = FALSE
                   \/ local' = filled(first, Garbage) /\ result' = FALSE
    /\ UNCHANGED out

\* Fault: encoded whatever happened before.
EncodesAlways == TRUE

Encodes == result

Encode ==
    /\ AtStage("encode")
    /\ \/ /\ Encodes
          /\ \E byte \in {0, 255} : out' = <<local["address"], DigitsWith(byte)>>
          /\ result' = TRUE
       \/ ~Encodes /\ UNCHANGED <<out, result>>
    /\ stage' = "return_hash"
    /\ UNCHANGED local

ReturnHash ==
    /\ AtStage("return_hash")
    /\ local' = Wiped(HashLocals) /\ stage' = FromHash
    /\ UNCHANGED <<result, out>>

ReturnScript ==
    /\ AtStage("return_script")
    /\ local' = Wiped(ScriptLocals) /\ stage' = "digest"
    /\ UNCHANGED <<result, out>>

ReturnDigest ==
    /\ AtStage("return_digest")
    /\ local' = Wiped(DigestLocals) /\ stage' = (IF result THEN "hash" ELSE "return_key")
    /\ UNCHANGED <<result, out>>

ReturnKey ==
    /\ AtStage("return_key")
    /\ local' = Wiped(KeyLocals) /\ stage' = FromKey
    /\ UNCHANGED <<result, out>>

ReturnPath ==
    /\ AtStage("return_path")
    /\ local' = Wiped(PathLocals) /\ stage' = "returned"
    /\ UNCHANGED <<result, out>>
-----------------------------------------------------------------------------
Init ==
    /\ entry \in {"path", "key", "hash"}
    /\ key \in Keys /\ hash \in ScriptHashes /\ out_len \in OutLengths
    /\ stage = (CASE entry = "path" -> "derive" [] entry = "key" -> "key" [] OTHER -> "hash")
    /\ local = [l \in Locals |-> Untouched]
    /\ result = TRUE /\ out = NoText

Next ==
    \/ Derive
    \/ CheckRoom
    \/ covert_pk_to_address_script
    \/ hash_script
    \/ Checksum
    \/ Encode
    \/ ReturnScript
    \/ ReturnDigest
    \/ ReturnHash
    \/ ReturnKey
    \/ ReturnPath

Spec == Init /\ [][Next]_vars
-----------------------------------------------------------------------------
(* Properties.                                                             *)

\* The hash that the address stands for.
Meant == IF entry = "hash" THEN hash ELSE Ripemd160(Sha256(Script(key)))

\* A call that reports success has made the whole address of what it was given;
\* one that reports a failure, of whichever step, has made no text at all.
WholeOrNone ==
    stage = "returned" =>
        IF result
        THEN out[1] = PreAddress(Meant, Sha256(Sha256(<<ADDRESS_VERSION, Meant>>)))
        ELSE out = NoText

\* A text fits its place, and has the length that the function checks for and
\* the first letter, A, by which addresses are known: for the least and for the
\* greatest number that can follow the version, and so for all between.
Recognisable ==
    out # NoText =>
        LET digits == out[2]
        IN  Len(digits) = BASE58_ADDRESS_LEN /\ Len(digits) <= out_len /\ Last(digits) = 9

\* Two keys share an address only if they are the same point.
TellsKeysApart ==
    stage = "returned" /\ result /\ entry # "hash" =>
        \A k \in Keys :
            out[1][3] = Ripemd160(Sha256(Script(k))) => k.x = key.x /\ k.odd = key.odd

\* Whatever fails, no local variable keeps what was written into it.
NothingLeft == stage = "returned" => \A l \in Locals : local[l] \in {Untouched, Zero}
=============================================================================
