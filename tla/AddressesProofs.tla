-------------------------- MODULE AddressesProofs ---------------------------
(***************************************************************************)
(* Theorems about Addresses, for all keys, hashes and places: whichever    *)
(* step fails, there is a whole address or none, of the right key, its     *)
(* text is recognisable, and no local variable is left as it was written.  *)
(***************************************************************************)
EXTENDS Addresses, CommonProofs, TLAPS

\* The stages between the inner function's return and the outermost one's.
Returning == {"return_hash", "return_key", "return_path", "returned"}

AddressOf(script_hash) ==
    PreAddress(script_hash, Sha256(Sha256(<<ADDRESS_VERSION, script_hash>>)))

Clear(names) == \A l \in names : local[l] \in {Untouched, Zero}

Inputs ==
    /\ entry \in {"path", "key", "hash"}
    /\ key \in Keys
    /\ result \in BOOLEAN
    /\ stage \in {"derive", "key", "script", "return_script", "digest", "return_digest",
                 "hash", "encode"} \cup Returning
    /\ local \in [Locals -> {local[l] : l \in Locals}]

\* Which function is at work, and for whom.
Calls ==
    /\ stage \in {"derive", "return_path"} => entry = "path"
    /\ stage \in {"key", "script", "return_script", "digest", "return_digest", "return_key"} =>
           entry # "hash"

\* Nothing has failed and nothing been written to out before the encoder, which
\* gets the hash that is meant.
Progress ==
    /\ stage \in {"derive", "key", "script", "return_script", "digest", "hash"} => result
    /\ stage \notin Returning => out = NoText
    /\ stage \in {"return_script", "digest"} => local["script"] = Script(key)
    /\ stage = "return_digest" /\ result => local["ripemd160_hash"] = Ripemd160(Sha256(Script(key)))
    /\ stage = "hash" => ScriptHash = Meant
    /\ stage = "encode" /\ result => local["address"] = AddressOf(Meant)
    /\ stage \in Returning => IF result THEN out[1] = AddressOf(Meant) ELSE out = NoText

\* A function's local variables are untouched before it begins, and clear once
\* it has returned.
Tidy ==
    /\ stage \notin {"encode", "return_hash"} => Clear(HashLocals)
    /\ stage # "return_script" => Clear(ScriptLocals)
    /\ stage # "return_digest" => Clear(DigestLocals)
    /\ entry = "hash" \/ stage \in {"derive", "key", "return_path", "returned"} => Clear(KeyLocals)
    /\ entry # "path" \/ stage \in {"derive", "returned"} => Clear(PathLocals)

IInv == Inputs /\ Calls /\ Progress /\ Tidy

\* The text is written only where it fits, and is of bytes behind the version.
Written ==
    /\ stage = "encode" => Fits
    /\ out # NoText => Fits /\ \E byte \in 0 .. 255 : out[2] = DigitsWith(byte)

-----------------------------------------------------------------------------
LEMMA LocalNames ==
    /\ HashLocals \subseteq Locals /\ DigestLocals \subseteq Locals /\ ScriptLocals \subseteq Locals
    /\ KeyLocals \subseteq Locals /\ PathLocals \subseteq Locals
    /\ Locals = HashLocals \cup DigestLocals \cup ScriptLocals \cup KeyLocals \cup PathLocals
BY DEF HashLocals, DigestLocals, ScriptLocals, KeyLocals, PathLocals, Locals

\* A return clears its own variables and no others.
LEMMA WipedClears ==
    ASSUME NEW names \in SUBSET Locals, local' = Wiped(names)
    PROVE  /\ Clear(names)'
           /\ \A others \in SUBSET Locals : Clear(others) => Clear(others)'
           /\ local' \in [Locals -> {local'[l] : l \in Locals}]
BY DEF Wiped, Clear

LEMMA InitInv == Init => IInv
<1> SUFFICES ASSUME Init PROVE IInv
  OBVIOUS
<1>1. \A names \in SUBSET Locals : Clear(names)
  BY DEF Init, Clear
<1>2. Inputs /\ Calls
  BY DEF Init, Inputs, Calls, Returning
<1>3. Progress
  BY DEF Init, Progress, Returning, ScriptHash, Meant
<1>4. Tidy
  BY <1>1, LocalNames DEF Tidy
<1> QED BY <1>2, <1>3, <1>4 DEF IInv

LEMMA NextInv == IInv /\ [Next]_vars => IInv'
<1> SUFFICES ASSUME IInv, [Next]_vars PROVE IInv'
  OBVIOUS
<1> USE LocalNames DEF IInv, AtStage
<1>1. CASE Derive
  <2>1. /\ entry = "path" /\ stage' \in {"key", "return_path"}
        /\ \A l \in Locals \ PathLocals : local'[l] = local[l]
    BY <1>1 DEF Derive, Calls, Inputs, PathLocals
  <2>2. /\ Clear(HashLocals)' /\ Clear(KeyLocals)' /\ Clear(ScriptLocals)' /\ Clear(DigestLocals)'
    BY <1>1, <2>1 DEF Derive, Tidy, Clear, HashLocals, DigestLocals, ScriptLocals, KeyLocals,
                      PathLocals
  <2>3. Inputs' /\ Calls' /\ Tidy'
    BY <1>1, <2>1, <2>2 DEF Derive, Inputs, Calls, Tidy, Returning
  <2>4. Progress'
    BY <1>1 DEF Derive, Progress, Returning
  <2> QED BY <2>3, <2>4
<1>2. CASE CheckRoom
  <2>1. CASE ~Fits
    <3>1. stage' = FromKey /\ result' = FALSE /\ UNCHANGED <<entry, key, hash, local, out>>
          /\ stage = "key" /\ entry # "hash"
      BY <1>2, <2>1 DEF CheckRoom, Calls
    <3>2. \A names \in SUBSET Locals : Clear(names) => Clear(names)'
      BY <3>1 DEF Clear
    <3>3. Inputs' /\ Calls' /\ Tidy'
      BY <3>1, <3>2 DEF FromKey, Inputs, Calls, Tidy, Returning
    <3>4. Progress'
      BY <3>1 DEF FromKey, Progress, Returning
    <3> QED BY <3>3, <3>4
  <2>2. CASE Fits
    <3>1. /\ stage = "key" /\ stage' = "script" /\ UNCHANGED <<entry, key, hash, result, out>>
          /\ local' = Wiped(KeyLocals) /\ entry # "hash"
      BY <1>2, <2>2 DEF CheckRoom, Calls
    <3>2. /\ \A others \in SUBSET Locals : Clear(others) => Clear(others)'
          /\ local' \in [Locals -> {local'[l] : l \in Locals}]
      BY <3>1, WipedClears
    <3>3. Inputs' /\ Calls' /\ Tidy'
      BY <3>1, <3>2 DEF Inputs, Calls, Tidy, Returning
    <3>4. Progress'
      BY <3>1 DEF Progress, Returning
    <3> QED BY <3>3, <3>4
  <2> QED BY <2>1, <2>2
<1>3. CASE covert_pk_to_address_script
  <2>1. CASE key.first # 4
    <3>1. stage' = "return_key" /\ result' = FALSE /\ UNCHANGED <<entry, key, hash, local, out>>
          /\ stage = "script" /\ entry # "hash"
      BY <1>3, <2>1 DEF covert_pk_to_address_script, Calls
    <3>2. \A names \in SUBSET Locals : Clear(names) => Clear(names)'
      BY <3>1 DEF Clear
    <3>3. Inputs' /\ Calls' /\ Tidy'
      BY <3>1, <3>2 DEF Inputs, Calls, Tidy, Returning
    <3>4. Progress'
      BY <3>1 DEF Progress, Returning
    <3> QED BY <3>3, <3>4
  <2>2. CASE key.first = 4
    <3>1. /\ stage = "script" /\ stage' = "return_script" /\ entry # "hash"
          /\ UNCHANGED <<entry, key, hash, result, out>>
          /\ local' = [local EXCEPT !["compressed_key"] = compressed_key(key),
                                    !["script"] = Script(key)]
      BY <1>3, <2>2 DEF covert_pk_to_address_script, Calls
    <3>2. /\ local'["script"] = Script(key)
          /\ \A l \in Locals \ {"compressed_key", "script"} : local'[l] = local[l]
          /\ local' \in [Locals -> {local'[l] : l \in Locals}]
      BY <3>1 DEF Inputs, Locals, KeyLocals, ScriptLocals
    <3>3. Clear(HashLocals)' /\ Clear(DigestLocals)' /\ (Clear(PathLocals) => Clear(PathLocals)')
      BY <3>1, <3>2 DEF Tidy, Clear, HashLocals, DigestLocals, PathLocals
    <3>4. Inputs' /\ Calls' /\ Tidy'
      BY <3>1, <3>2, <3>3 DEF Inputs, Calls, Tidy, Returning
    <3>5. Progress'
      BY <3>1, <3>2 DEF Progress, Returning, Script, compressed_key
    <3> QED BY <3>4, <3>5
  <2> QED BY <2>1, <2>2
<1>10. CASE hash_script
  <2>1. /\ stage = "digest" /\ stage' = "return_digest" /\ entry # "hash"
        /\ result' \in BOOLEAN /\ UNCHANGED <<entry, key, hash, out>>
        /\ \A l \in Locals \ {"sha256_hash", "ripemd160_hash"} : local'[l] = local[l]
        /\ local' \in [Locals -> {local'[l] : l \in Locals}]
    BY <1>10 DEF hash_script, Calls, Inputs
  <2>2. result' => local'["ripemd160_hash"] = Ripemd160(Sha256(Script(key)))
    BY <1>10 DEF hash_script, Progress, Inputs, Locals, KeyLocals
  <2>3. Clear(HashLocals)' /\ Clear(ScriptLocals)' /\ (Clear(PathLocals) => Clear(PathLocals)')
    BY <2>1 DEF Tidy, Clear, HashLocals, ScriptLocals, PathLocals
  <2>4. Inputs' /\ Calls' /\ Tidy'
    BY <2>1, <2>3 DEF Inputs, Calls, Tidy, Returning
  <2>5. Progress'
    BY <2>1, <2>2 DEF Progress, Returning, Script, compressed_key, Ripemd160, Sha256
  <2> QED BY <2>4, <2>5
<1>11. CASE ReturnScript
  <2>1. /\ Clear(ScriptLocals)' /\ (\A others \in SUBSET Locals : Clear(others) => Clear(others)')
        /\ local' \in [Locals -> {local'[l] : l \in Locals}]
    BY <1>11, WipedClears DEF ReturnScript
  <2>2. Inputs' /\ Calls' /\ Tidy'
    BY <1>11, <2>1 DEF ReturnScript, Inputs, Calls, Tidy, Returning
  <2>3. local'["script"] = local["script"]
    BY <1>11 DEF ReturnScript, Wiped, ScriptLocals, KeyLocals
  <2>4. Progress'
    BY <1>11, <2>3 DEF ReturnScript, Progress, Returning, Script, compressed_key
  <2> QED BY <2>2, <2>4
<1>12. CASE ReturnDigest
  <2>1. /\ Clear(DigestLocals)' /\ (\A others \in SUBSET Locals : Clear(others) => Clear(others)')
        /\ local' \in [Locals -> {local'[l] : l \in Locals}]
    BY <1>12, WipedClears DEF ReturnDigest
  <2>2. Inputs' /\ Calls' /\ Tidy'
    BY <1>12, <2>1 DEF ReturnDigest, Inputs, Calls, Tidy, Returning
  <2>3. local'["ripemd160_hash"] = local["ripemd160_hash"]
    BY <1>12 DEF ReturnDigest, Wiped, DigestLocals, KeyLocals
  <2>4. Progress'
    BY <1>12, <2>3 DEF ReturnDigest, Progress, Calls, Returning, ScriptHash, Meant, Script,
                       compressed_key, Ripemd160, Sha256
  <2> QED BY <2>2, <2>4
<1>4. CASE Checksum
  <2>1. /\ (Clear(KeyLocals) => Clear(KeyLocals)') /\ (Clear(PathLocals) => Clear(PathLocals)')
        /\ (Clear(ScriptLocals) => Clear(ScriptLocals)')
        /\ (Clear(DigestLocals) => Clear(DigestLocals)')
    BY <1>4 DEF Checksum, Clear, Inputs, HashLocals, DigestLocals, ScriptLocals, KeyLocals,
                PathLocals, Locals
  <2>2. CASE ~Fits
    BY <1>4, <2>2 DEF Checksum, FromHash, Inputs, Calls, Progress, Tidy, Clear, Returning
  <2>3. CASE Fits
    <3>1. Inputs' /\ Calls' /\ Tidy'
      BY <1>4, <2>1, <2>3 DEF Checksum, Inputs, Calls, Tidy, Returning
    <3>2. result' => local'["address"] = AddressOf(ScriptHash)
      BY <1>4, <2>3 DEF Checksum, Progress, Inputs, Locals, HashLocals, AddressOf
    <3>3. Progress'
      BY <1>4, <2>3, <3>2 DEF Checksum, Progress, Returning, Meant
    <3> QED BY <3>1, <3>3
  <2> QED BY <2>2, <2>3
<1>5. CASE Encode
  <2>1. Inputs' /\ Calls' /\ Tidy'
    BY <1>5, ZenonT(30) DEF Encode, Inputs, Calls, Tidy, Clear, Returning
  <2>2. IF result' THEN out'[1] = AddressOf(Meant) ELSE out' = NoText
    BY <1>5 DEF Encode, Encodes, Progress, Returning, Inputs
  <2>3. Progress'
    BY <1>5, <2>2 DEF Encode, Progress, Returning, Meant
  <2> QED BY <2>1, <2>3
<1>6. CASE ReturnHash
  <2>1. Clear(HashLocals)' /\ (\A others \in SUBSET Locals : Clear(others) => Clear(others)')
        /\ local' \in [Locals -> {local'[l] : l \in Locals}]
    BY <1>6, WipedClears DEF ReturnHash
  <2>2. Inputs' /\ Calls' /\ Tidy'
    BY <1>6, <2>1 DEF ReturnHash, FromHash, Inputs, Calls, Tidy, Returning
  <2>3. Progress'
    BY <1>6 DEF ReturnHash, FromHash, Progress, Returning, Meant
  <2> QED BY <2>2, <2>3
<1>7. CASE ReturnKey
  <2>1. Clear(KeyLocals)' /\ (\A others \in SUBSET Locals : Clear(others) => Clear(others)')
        /\ local' \in [Locals -> {local'[l] : l \in Locals}]
    BY <1>7, WipedClears DEF ReturnKey
  <2>2. Inputs' /\ Calls' /\ Tidy'
    BY <1>7, <2>1 DEF ReturnKey, FromKey, Inputs, Calls, Tidy, Returning
  <2>3. Progress'
    BY <1>7 DEF ReturnKey, FromKey, Progress, Returning, Meant
  <2> QED BY <2>2, <2>3
<1>8. CASE ReturnPath
  <2>1. Clear(PathLocals)' /\ (\A others \in SUBSET Locals : Clear(others) => Clear(others)')
        /\ local' \in [Locals -> {local'[l] : l \in Locals}]
    BY <1>8, WipedClears DEF ReturnPath
  <2>2. Inputs' /\ Calls' /\ Tidy'
    BY <1>8, <2>1 DEF ReturnPath, Inputs, Calls, Tidy, Returning
  <2>3. Progress'
    BY <1>8 DEF ReturnPath, Progress, Returning, Meant
  <2> QED BY <2>2, <2>3
<1>9. CASE UNCHANGED vars
  BY <1>9 DEF vars, Inputs, Calls, Progress, Tidy, Clear, ScriptHash, Meant
<1> QED BY <1>1, <1>2, <1>3, <1>4, <1>5, <1>6, <1>7, <1>8, <1>9, <1>10, <1>11, <1>12 DEF Next

-----------------------------------------------------------------------------
(* Base 58.                                                                *)

Digit == 0 .. 58 - 1

Byte == 0 .. 255

LEMMA DivideBy58 ==
    ASSUME NEW n \in Nat
    PROVE  /\ n \div 58 \in Nat /\ n % 58 \in Digit
           /\ n = 58 * (n \div 58) + (n % 58)
           /\ n <= 256 * 57 + 255 => n \div 58 <= 255
           /\ n >= 256 => n \div 58 # 0
<1>1. n \div 58 \in Nat /\ n % 58 \in Nat /\ n % 58 < 58 /\ n = 58 * (n \div 58) + (n % 58)
  OBVIOUS
<1>2. n % 58 \in Digit
  BY <1>1 DEF Digit
<1> DEFINE q == n \div 58
           r == n % 58
<1>3. q \in Nat /\ r \in Nat /\ r < 58 /\ n = 58 * q + r
  BY <1>1
<1> HIDE DEF q, r
<1>4. (n <= 256 * 57 + 255 => q <= 255) /\ (n >= 256 => q # 0)
  BY <1>3
<1> QED BY <1>1, <1>2, <1>4 DEF q

LEMMA IsDigit ==
    ASSUME NEW digits \in Seq(Digit)
    PROVE  Len(digits) \in Nat /\ \A k \in 1 .. Len(digits) : digits[k] \in Nat /\ digits[k] <= 57
<1>1. \A k \in 1 .. Len(digits) : digits[k] \in Digit
  OBVIOUS
<1>2. \A d \in Digit : d \in Nat /\ d <= 57
  BY DEF Digit
<1> QED BY <1>1, <1>2

\* What is carried is a byte.
LEMMA CarriesFacts ==
    ASSUME NEW digits \in Seq(Digit), NEW byte \in Byte
    PROVE  /\ \A k \in 0 .. Len(digits) : Carries(digits, byte)[k] \in Byte
           /\ Carries(digits, byte)[0] = byte
           /\ \A k \in 1 .. Len(digits) :
                  Carries(digits, byte)[k] = (256 * digits[k] + Carries(digits, byte)[k - 1]) \div 58
<1> DEFINE L == Len(digits)
           Next1(c, k) == (256 * digits[k] + c) \div 58
           Is(f) == f = [k \in 0 .. L |-> IF k = 0 THEN byte ELSE Next1(f[k - 1], k)]
           step == [p \in Nat \X Byte |-> IF p[1] < L THEN Next1(p[2], p[1] + 1) ELSE p[2]]
           J == Carries(digits, byte)
<1>0. L \in Nat /\ \A k \in 1 .. L : digits[k] \in Nat /\ digits[k] <= 57
  BY IsDigit
<1>1. ASSUME NEW c \in Byte, NEW k \in 1 .. L PROVE Next1(c, k) \in Byte
  <2> DEFINE n == 256 * digits[k] + c
  <2>1. n \in Nat /\ n <= 256 * 57 + 255
    BY <1>0 DEF Byte
  <2> HIDE DEF n
  <2>2. n \div 58 \in Nat /\ n \div 58 <= 255
    BY <2>1, DivideBy58
  <2> DEFINE q == n \div 58
  <2>3. q \in Byte
    <3>1. q \in Nat /\ q <= 255
      BY <2>2
    <3> HIDE DEF q
    <3> QED BY <3>1 DEF Byte
  <2> QED BY <2>3 DEF n
<1>2. step \in [Nat \X Byte -> Byte]
  <2>1. ASSUME NEW p \in Nat \X Byte
        PROVE  (IF p[1] < L THEN Next1(p[2], p[1] + 1) ELSE p[2]) \in Byte
    <3>1. p[2] \in Byte /\ p[1] \in Nat
      OBVIOUS
    <3> HIDE DEF Next1, L
    <3>2. p[1] < L => p[1] + 1 \in 1 .. L
      BY <1>0, <3>1
    <3> QED BY <1>1, <3>1, <3>2
  <2> QED BY <2>1
<1>3. \A k \in Nat, c \in Byte : k < L => step[<<k, c>>] = Next1(c, k + 1)
  OBVIOUS
<1>4. J = CHOOSE h : Is(h)
  BY DEF Carries
<1> HIDE DEF step, L, J, Next1
<1>5. PICK f \in [0 .. L -> Byte] : IteratesTo(f, L, byte, step)
  BY <1>0, <1>2, BoundedRecursion
<1>6. f[0] = byte /\ \A k \in 1 .. L : f[k] = step[<<k - 1, f[k - 1]>>]
  BY <1>5 DEF IteratesTo
<1>7. ASSUME NEW k \in 1 .. L PROVE f[k] = Next1(f[k - 1], k) /\ k \in 0 .. L /\ k # 0
  <2>1. k - 1 \in Nat /\ k - 1 < L /\ (k - 1) + 1 = k /\ k - 1 \in 0 .. L
    BY <1>0
  <2>2. f[k - 1] \in Byte
    BY <2>1
  <2>3. step[<<k - 1, f[k - 1]>>] = Next1(f[k - 1], (k - 1) + 1)
    BY <1>3, <2>1, <2>2
  <2> QED BY <1>6, <2>1, <2>3
<1>8. \A k \in 0 .. L : k = 0 \/ k \in 1 .. L
  BY <1>0
<1>9. Is(f)
  <2>1. ASSUME NEW k \in 0 .. L PROVE f[k] = IF k = 0 THEN byte ELSE Next1(f[k - 1], k)
    BY <1>6, <1>7, <1>8
  <2> QED BY <2>1
<1>10. Is(J)
  <2> HIDE DEF Is
  <2> QED BY <1>4, <1>9
<1>11. J[0] = byte /\ \A k \in 1 .. L : J[k] = Next1(J[k - 1], k)
  <2>1. 0 \in 0 .. L
    BY <1>0
  <2> QED BY <1>7, <1>10, <2>1
<1>12. \A k \in 0 .. L : J[k] \in Byte
  <2> DEFINE T == {k \in 0 .. L : J[k] \in Byte}
  <2>1. 0 \in T
    BY <1>0, <1>11
  <2>2. ASSUME NEW k \in 1 .. L, k - 1 \in T PROVE k \in T
    BY <1>1, <1>7, <1>11, <2>2
  <2> HIDE DEF T
  <2>3. \A k \in 0 .. L : k \in T
    BY <1>0, <2>1, <2>2, BoundedInduction
  <2> QED BY <2>3 DEF T
<1> QED BY <1>11, <1>12 DEF J, L, Next1
\* Numbers of one byte have at most two digits.
LEMMA CarryDigitsFacts ==
    ASSUME NEW c \in Byte
    PROVE  /\ CarryDigits(c) \in Seq(Digit) /\ Len(CarryDigits(c)) \in 0 .. 2
           /\ Worth(58, CarryDigits(c)) = c
           /\ c # 0 => Len(CarryDigits(c)) # 0 /\ CarryDigits(c)[Len(CarryDigits(c))] # 0
           /\ c = 0 => CarryDigits(c) = <<>>
<1> DEFINE s == CarryDigits(c)
           w == Weighted(58, s)
<1>0. c \in Nat /\ c <= 255 /\ c \div 58 \in Nat /\ c % 58 \in Digit /\ c = 58 * (c \div 58) + (c % 58)
  BY DivideBy58 DEF Byte
<1>1. /\ c = 0 => s = <<>>
      /\ c \in 1 .. 57 => s = <<c>>
      /\ c > 57 => s = <<c % 58, c \div 58>>
  <2>1. (c = 0 => c \notin 1 .. 57) /\ (c > 57 => c # 0 /\ c \notin 1 .. 57)
    BY <1>0
  <2>2. ASSUME c = 0 PROVE s = <<>>
    BY <2>2 DEF CarryDigits
  <2>3. ASSUME c \in 1 .. 57 PROVE s = <<c>>
    BY <2>1, <2>3, Zenon DEF CarryDigits
  <2>4. ASSUME c > 57 PROVE s = <<c % 58, c \div 58>>
    BY <2>1, <2>4, Zenon DEF CarryDigits
  <2> QED BY <2>2, <2>3, <2>4
<1>2. c \div 58 \in Digit /\ (c > 57 => c \div 58 # 0)
  <2> DEFINE q == c \div 58
             r == c % 58
  <2>1. q \in Nat /\ r \in Nat /\ r <= 57 /\ c = 58 * q + r
    BY <1>0 DEF Digit
  <2> HIDE DEF q, r
  <2>2. q <= 57 /\ (c > 57 => q # 0)
    BY <1>0, <2>1
  <2> QED BY <2>1, <2>2 DEF q, Digit
<1>a. c = 0 \/ c \in 1 .. 57 \/ c > 57
  BY <1>0
<1> HIDE DEF s
<1>3. s \in Seq(Digit) /\ Len(s) \in 0 .. 2
  <2>1. CASE c = 0
    <3>1. s = <<>>
      BY <1>1, <2>1
    <3> QED BY <3>1
  <2>2. CASE c \in 1 .. 57
    <3>1. c \in Digit
      BY <2>2 DEF Digit
    <3>2. s = <<c>>
      BY <1>1, <2>2
    <3> QED BY <3>1, <3>2
  <2>3. CASE c > 57
    <3> DEFINE q == c \div 58
               r == c % 58
    <3>1. s = <<r, q>> /\ r \in Digit /\ q \in Digit
      BY <1>0, <1>1, <1>2, <2>3
    <3> HIDE DEF q, r
    <3> QED BY <3>1
  <2> QED BY <1>a, <2>1, <2>2, <2>3
<1> DEFINE base == 58
<1>4. base \in Nat /\ base # 0 /\ Digit = 0 .. base - 1 /\ base = 58
  BY DEF Digit
<1>5. Power(base, 0) = 1 /\ Power(base, 1) = 58
  <2>1. Power(base, 0) = 1 /\ Power(base, 0 + 1) = base * Power(base, 0)
    <3> HIDE DEF base
    <3>1. 0 \in Nat
      OBVIOUS
    <3> QED BY <1>4, <3>1, PowersOf
  <2> QED BY <2>1
<1>6. /\ w \in Seq(Nat) /\ Len(w) = Len(s)
      /\ \A k \in 1 .. Len(s) : w[k] = s[k] * Power(base, k - 1)
  <2>1. /\ Weighted(base, s) \in Seq(Nat) /\ Len(Weighted(base, s)) = Len(s)
        /\ \A k \in 1 .. Len(s) : Weighted(base, s)[k] = s[k] * Power(base, k - 1)
    <3> HIDE DEF base
    <3> QED BY <1>3, <1>4, WeightedFacts
  <2> QED BY <2>1
<1> HIDE DEF w
<1>7. Sums(w)[0] = 0 /\ \A n \in 1 .. Len(w) : Sums(w)[n] = Sums(w)[n - 1] + w[n]
  BY <1>6, SumsFacts
<1>8. Worth(58, s) = Sums(w)[Len(s)]
  BY <1>6 DEF Worth, SumOf, w
<1>9. Worth(58, s) = c
  <2>1. CASE c = 0
    <3>1. Len(s) = 0
      BY <1>1, <2>1
    <3> QED BY <1>7, <1>8, <2>1, <3>1
  <2>2. CASE c \in 1 .. 57
    <3>1. Len(s) = 1 /\ s[1] = c
      BY <1>1, <2>2
    <3>2. w[1] = c * Power(base, 1 - 1) /\ 1 - 1 = 0
      BY <1>6, <3>1
    <3>3. w[1] = c
      BY <1>5, <2>2, <3>2
    <3>4. Sums(w)[1] = Sums(w)[1 - 1] + w[1]
      BY <1>6, <1>7, <3>1
    <3> QED BY <1>7, <1>8, <2>2, <3>1, <3>3, <3>4
  <2>3. CASE c > 57
    <3>1. Len(s) = 2 /\ s[1] = c % 58 /\ s[2] = c \div 58
      BY <1>1, <2>3
    <3>2. w[1] = s[1] * Power(base, 0) /\ w[2] = s[2] * Power(base, 1)
      <4>1. 1 \in 1 .. Len(s) /\ 2 \in 1 .. Len(s) /\ 1 - 1 = 0 /\ 2 - 1 = 1
        BY <3>1
      <4> QED BY <1>6, <4>1
    <3>3. w[1] = c % 58 /\ w[2] = 58 * (c \div 58) /\ c % 58 \in Nat
      BY <1>0, <1>5, <3>1, <3>2 DEF Digit
    <3>4. Sums(w)[1] = Sums(w)[0] + w[1] /\ Sums(w)[2] = Sums(w)[1] + w[2]
      <4>1. 1 \in 1 .. Len(w) /\ 2 \in 1 .. Len(w) /\ 1 - 1 = 0 /\ 2 - 1 = 1
        BY <1>6, <3>1
      <4> QED BY <1>7, <4>1
    <3> QED BY <1>0, <1>7, <1>8, <3>1, <3>3, <3>4
  <2> QED BY <1>0, <2>1, <2>2, <2>3
<1>10. c # 0 => Len(s) # 0 /\ s[Len(s)] # 0
  <2>1. CASE c \in 1 .. 57
    <3>1. Len(s) = 1 /\ s[1] = c
      BY <1>1, <2>1
    <3> QED BY <3>1
  <2>2. CASE c > 57
    <3> DEFINE q == c \div 58
               r == c % 58
    <3>1. s = <<r, q>> /\ q # 0
      BY <1>1, <1>2, <2>2
    <3> HIDE DEF q, r
    <3> QED BY <3>1
  <2> QED BY <1>a, <2>1, <2>2
<1> QED BY <1>1, <1>3, <1>9, <1>10 DEF s
\* Digits without a zero in front (that is, behind).
Numeral(digits) == digits \in Seq(Digit) /\ (digits # <<>> => digits[Len(digits)] # 0)

\* Multiplying by 256 and adding a byte, digit by digit.
LEMMA ShiftedFacts ==
    ASSUME NEW digits, Numeral(digits), NEW byte \in Byte
    PROVE  /\ Numeral(Shifted(digits, byte))
           /\ Worth(58, Shifted(digits, byte)) = 256 * Worth(58, digits) + byte
<1> DEFINE L == Len(digits)
           C == Carries(digits, byte)
           front == [k \in 1 .. L |-> (256 * digits[k] + C[k - 1]) % 58]
           back == CarryDigits(C[L])
           whole == front \o back
           base == 58
           f == Weighted(base, front)
           d == Weighted(base, digits)
<1>0. digits \in Seq(Digit) /\ (L # 0 => digits[L] # 0)
  BY DEF Numeral
<1>1. L \in Nat /\ \A k \in 1 .. L : digits[k] \in Nat /\ digits[k] <= 57
  BY <1>0, IsDigit
<1>2. /\ \A k \in 0 .. L : C[k] \in Byte
      /\ C[0] = byte
      /\ \A k \in 1 .. L : C[k] = (256 * digits[k] + C[k - 1]) \div 58
  BY <1>0, CarriesFacts
<1>b. (\A b \in Byte : b \in Nat) /\ (\A n \in Digit : n \in Nat)
  BY DEF Byte, Digit
<1> HIDE DEF C
<1>3. ASSUME NEW k \in 1 .. L
      PROVE  /\ front[k] \in Digit /\ C[k] \in Nat /\ C[k - 1] \in Nat
             /\ 256 * digits[k] + C[k - 1] = 58 * C[k] + front[k]
             /\ digits[k] # 0 => C[k] # 0
  <2> DEFINE n == 256 * digits[k] + C[k - 1]
  <2>1. k - 1 \in 0 .. L /\ k \in 0 .. L
    BY <1>1
  <2>2. C[k - 1] \in Nat /\ C[k] \in Nat
    BY <1>2, <1>b, <2>1
  <2>3. n \in Nat /\ (digits[k] # 0 => n >= 256)
    BY <1>1, <2>2
  <2>a. C[k] = n \div 58
    BY <1>2
  <2>b. front[k] = n % 58
    OBVIOUS
  <2> HIDE DEF n, front
  <2>4. /\ n \div 58 \in Nat /\ n % 58 \in Digit /\ n = 58 * (n \div 58) + (n % 58)
        /\ n >= 256 => n \div 58 # 0
    BY <2>3, DivideBy58
  <2> QED BY <2>2, <2>3, <2>a, <2>b, <2>4 DEF n
<1>4. front \in Seq(Digit) /\ Len(front) = L /\ C[L] \in Byte /\ (L # 0 => C[L] # 0)
  <2>1. front \in Seq(Digit) /\ Len(front) = L
    BY <1>1, <1>3
  <2>2. L \in 0 .. L /\ (L # 0 => L \in 1 .. L)
    BY <1>1
  <2> HIDE DEF L, front
  <2> QED BY <1>0, <1>2, <1>3, <2>1, <2>2
<1> HIDE DEF front
<1>5. /\ back \in Seq(Digit) /\ Len(back) \in Nat /\ Worth(58, back) = C[L]
      /\ C[L] # 0 => Len(back) # 0 /\ back[Len(back)] # 0
      /\ C[L] = 0 => back = <<>>
  <2>1. Len(back) \in 0 .. 2 => Len(back) \in Nat
    OBVIOUS
  <2> QED BY <1>4, <2>1, CarryDigitsFacts
<1> HIDE DEF back
<1>6. whole \in Seq(Digit) /\ Behind(whole, front, back)
  <2> HIDE DEF whole
  <2>1. whole = front \o back
    BY DEF whole
  <2> QED BY <1>4, <1>5, <2>1, JoinedBehind
<1>7. Shifted(digits, byte) = whole
  BY DEF Shifted, whole, front, back, C
<1> HIDE DEF whole
<1>8. Numeral(whole)
  <2>1. CASE C[L] = 0
    <3>1. L = 0 /\ Len(back) = 0
      BY <1>4, <1>5, <2>1
    <3>2. Len(whole) = 0
      BY <1>4, <1>6, <3>1 DEF Behind
    <3> QED BY <1>6, <3>2 DEF Numeral
  <2>2. CASE C[L] # 0
    <3>1. Len(back) \in 1 .. Len(back) /\ back[Len(back)] # 0
      BY <1>5, <2>2
    <3>2. Len(whole) = Len(front) + Len(back) /\ whole[Len(front) + Len(back)] = back[Len(back)]
      BY <1>6, <3>1 DEF Behind
    <3> QED BY <1>6, <3>1, <3>2 DEF Numeral
  <2> QED BY <2>1, <2>2
<1>9. base \in Nat /\ base # 0 /\ Digit = 0 .. base - 1
  BY DEF Digit
<1>c. base = 58
  OBVIOUS
<1>10. Worth(base, whole) = Worth(base, front) + Power(base, L) * Worth(base, back)
  <2> HIDE DEF base
  <2>1. Worth(base, whole) = Worth(base, front) + Power(base, Len(front)) * Worth(base, back)
    BY <1>4, <1>5, <1>6, <1>9, WorthSplit
  <2> QED BY <1>4, <2>1
<1>11. /\ f \in Seq(Nat) /\ Len(f) = L /\ \A k \in 1 .. L : f[k] = front[k] * Power(base, k - 1)
       /\ d \in Seq(Nat) /\ Len(d) = L /\ \A k \in 1 .. L : d[k] = digits[k] * Power(base, k - 1)
  <2> HIDE DEF base, L
  <2>1. /\ f \in Seq(Nat) /\ Len(f) = Len(front)
        /\ \A k \in 1 .. Len(front) : f[k] = front[k] * Power(base, k - 1)
    BY <1>4, <1>9, WeightedFacts
  <2>2. /\ d \in Seq(Nat) /\ Len(d) = Len(digits)
        /\ \A k \in 1 .. Len(digits) : d[k] = digits[k] * Power(base, k - 1)
    BY <1>0, <1>9, WeightedFacts
  <2> QED BY <1>4, <2>1, <2>2 DEF L
<1> HIDE DEF f, d, base
<1>12. /\ \A n \in 0 .. L : Sums(f)[n] \in Nat
       /\ Sums(f)[0] = 0 /\ \A n \in 1 .. L : Sums(f)[n] = Sums(f)[n - 1] + f[n]
  BY <1>11, SumsFacts
<1>13. /\ \A n \in 0 .. L : Sums(d)[n] \in Nat
       /\ Sums(d)[0] = 0 /\ \A n \in 1 .. L : Sums(d)[n] = Sums(d)[n - 1] + d[n]
  BY <1>11, SumsFacts
<1> DEFINE T == {n \in 0 .. L : Sums(f)[n] + Power(base, n) * C[n] = 256 * Sums(d)[n] + byte}
<1>14. 0 \in T
  <2>1. Power(base, 0) = 1 /\ byte \in Nat
    BY <1>9, <1>b, PowerFacts
  <2>2. Sums(f)[0] + Power(base, 0) * C[0] = 256 * Sums(d)[0] + byte
    BY <1>2, <1>12, <1>13, <2>1
  <2> QED BY <1>1, <2>2
<1>15. ASSUME NEW n \in 1 .. L, n - 1 \in T PROVE n \in T
  <2> DEFINE p == Power(base, n - 1)
             a == digits[n]
             r == front[n]
             c == C[n - 1]
             q == C[n]
             s == Sums(f)[n - 1]
             t == Sums(d)[n - 1]
  <2>1. n - 1 \in Nat /\ (n - 1) + 1 = n /\ n - 1 \in 0 .. L /\ n \in 0 .. L
    BY <1>1
  <2>2. p \in Nat /\ Power(base, n) = 58 * p
    <3> DEFINE m == n - 1
    <3>1. m \in Nat /\ m + 1 = n /\ p = Power(base, m)
      BY <2>1
    <3> HIDE DEF m, p
    <3>2. Power(base, m) \in Nat /\ Power(base, m + 1) = base * Power(base, m)
      BY <1>9, <3>1, PowersOf
    <3> QED BY <1>c, <3>1, <3>2
  <2>3. /\ a \in Nat /\ r \in Nat /\ c \in Nat /\ q \in Nat
        /\ 256 * a + c = 58 * q + r
    BY <1>1, <1>3, <1>b
  <2>4. /\ s \in Nat /\ t \in Nat /\ byte \in Nat
        /\ Sums(f)[n] = s + r * p /\ Sums(d)[n] = t + a * p
        /\ s + p * c = 256 * t + byte
    BY <1>11, <1>12, <1>13, <1>15, <2>1 DEF Byte
  <2> HIDE DEF p, a, r, c, q, s, t
  <2>5. (s + r * p) + (58 * p) * q = 256 * (t + a * p) + byte
    <3>1. p * (58 * q + r) = p * (256 * a + c)
      BY <2>3
    <3>2. p * (58 * q + r) = (58 * p) * q + r * p
      BY <2>2, <2>3
    <3>3. p * (256 * a + c) = 256 * (a * p) + p * c
      BY <2>2, <2>3
    <3> DEFINE x == r * p
               y == (58 * p) * q
               z == a * p
               v == p * c
    <3>4. y + x = 256 * z + v
      BY <3>1, <3>2, <3>3
    <3>5. x \in Nat /\ y \in Nat /\ z \in Nat /\ v \in Nat /\ s + v = 256 * t + byte
      BY <2>2, <2>3, <2>4
    <3> HIDE DEF x, y, z, v
    <3>6. (s + x) + y = 256 * (t + z) + byte
      BY <2>4, <3>4, <3>5
    <3> QED BY <3>6 DEF x, y, z
  <2> QED BY <2>1, <2>2, <2>4, <2>5 DEF q
<1>16. \A n \in 0 .. L : n \in T
  <2> HIDE DEF T, L
  <2> QED BY <1>1, <1>14, <1>15, BoundedInduction
<1>17. Sums(f)[L] + Power(base, L) * C[L] = 256 * Sums(d)[L] + byte
  <2>1. L \in 0 .. L
    BY <1>1
  <2> QED BY <1>16, <2>1
<1>18. Worth(base, front) = Sums(f)[L] /\ Worth(base, digits) = Sums(d)[L]
  BY <1>11 DEF Worth, SumOf, f, d
<1>19. Worth(base, back) = C[L]
  BY <1>5, <1>c
<1>20. Worth(base, whole) = 256 * Worth(base, digits) + byte
  BY <1>10, <1>17, <1>18, <1>19
<1> QED BY <1>7, <1>8, <1>20 DEF base

\* One byte after another.
LEMMA DigitsFacts ==
    ASSUME NEW bytes \in Seq(Byte)
    PROVE  /\ Digits(bytes)[0] = <<>>
           /\ \A n \in 0 .. Len(bytes) : Numeral(Digits(bytes)[n])
           /\ \A n \in 1 .. Len(bytes) : Digits(bytes)[n] = Shifted(Digits(bytes)[n - 1], bytes[n])
<1> DEFINE L == Len(bytes)
           A == {s \in Seq(Digit) : Numeral(s)}
           empty == <<>>
           Is(f) == f = [n \in 0 .. L |-> IF n = 0 THEN empty ELSE Shifted(f[n - 1], bytes[n])]
           step == [p \in Nat \X A |-> IF p[1] < L THEN Shifted(p[2], bytes[p[1] + 1]) ELSE p[2]]
           J == Digits(bytes)
<1>0. L \in Nat /\ empty \in A /\ \A n \in 1 .. L : bytes[n] \in Byte
  BY DEF Numeral
<1>1. ASSUME NEW s \in A, NEW n \in 1 .. L PROVE Shifted(s, bytes[n]) \in A
  <2>1. Numeral(s) /\ bytes[n] \in Byte
    BY <1>0
  <2>2. Numeral(Shifted(s, bytes[n]))
    BY <2>1, ShiftedFacts
  <2> QED BY <2>2 DEF Numeral
<1>2. step \in [Nat \X A -> A]
  <2>1. ASSUME NEW p \in Nat \X A
        PROVE  (IF p[1] < L THEN Shifted(p[2], bytes[p[1] + 1]) ELSE p[2]) \in A
    <3>1. p[2] \in A /\ p[1] \in Nat
      OBVIOUS
    <3> HIDE DEF L, A
    <3>2. p[1] < L => p[1] + 1 \in 1 .. L
      BY <1>0, <3>1
    <3> QED BY <1>1, <3>1, <3>2
  <2> QED BY <2>1
<1>3. \A n \in Nat, s \in A : n < L => step[<<n, s>>] = Shifted(s, bytes[n + 1])
  OBVIOUS
<1>4. J = CHOOSE h : Is(h)
  BY DEF Digits
<1>a. A \subseteq {s \in Seq(Digit) : Numeral(s)}
  OBVIOUS
<1> HIDE DEF step, A, L, empty, J
<1>5. PICK f \in [0 .. L -> A] : IteratesTo(f, L, empty, step)
  BY <1>0, <1>2, BoundedRecursion
<1>6. f[0] = empty /\ \A n \in 1 .. L : f[n] = step[<<n - 1, f[n - 1]>>]
  BY <1>5 DEF IteratesTo
<1>7. ASSUME NEW n \in 1 .. L
      PROVE  f[n] = Shifted(f[n - 1], bytes[n]) /\ n \in 0 .. L /\ n # 0 /\ n - 1 \in 0 .. L
  <2>1. n - 1 \in Nat /\ n - 1 < L /\ (n - 1) + 1 = n /\ n - 1 \in 0 .. L /\ n \in 0 .. L
    BY <1>0
  <2>2. f[n - 1] \in A
    BY <2>1
  <2>3. step[<<n - 1, f[n - 1]>>] = Shifted(f[n - 1], bytes[(n - 1) + 1])
    BY <1>3, <2>1, <2>2
  <2> QED BY <1>6, <2>1, <2>3
<1>8. \A n \in 0 .. L : n = 0 \/ n \in 1 .. L
  BY <1>0
<1>9. Is(f)
  <2>1. ASSUME NEW n \in 0 .. L PROVE f[n] = IF n = 0 THEN empty ELSE Shifted(f[n - 1], bytes[n])
    BY <1>6, <1>7, <1>8
  <2> QED BY <2>1
<1>10. Is(J)
  <2> HIDE DEF Is
  <2> QED BY <1>4, <1>9
<1>11. J[0] = empty /\ \A n \in 1 .. L : J[n] = Shifted(J[n - 1], bytes[n])
  <2>1. 0 \in 0 .. L
    BY <1>0
  <2> QED BY <1>7, <1>10, <2>1
<1>12. \A n \in 0 .. L : J[n] \in A
  <2> DEFINE T == {n \in 0 .. L : J[n] \in A}
  <2>1. 0 \in T
    BY <1>0, <1>11
  <2>2. ASSUME NEW n \in 1 .. L, n - 1 \in T PROVE n \in T
    BY <1>1, <1>7, <1>11, <2>2
  <2> HIDE DEF T
  <2>3. \A n \in 0 .. L : n \in T
    BY <1>0, <2>1, <2>2, BoundedInduction
  <2> QED BY <2>3 DEF T
<1> QED BY <1>11, <1>12, <1>a DEF J, L, empty

\* The last digit and the number of digits bound the number.
LEMMA TopDigit ==
    ASSUME NEW digits, Numeral(digits), digits # <<>>
    PROVE  LET L   == Len(digits)
               top == digits[L]
               p   == Power(58, L - 1)
           IN  /\ L \in Nat /\ L # 0 /\ top \in 1 .. 57
               /\ top * p <= Worth(58, digits) /\ Worth(58, digits) < (top + 1) * p
<1> DEFINE base == 58
           L == Len(digits)
           top == digits[L]
           front == SubSeq(digits, 1, L - 1)
           back == <<top>>
           p == Power(base, L - 1)
<1>1. digits \in Seq(Digit) /\ L \in Nat /\ L # 0 /\ top # 0 /\ L - 1 \in Nat
  BY DEF Numeral
<1>2. top \in Digit /\ top \in 1 .. 57 /\ top \in Byte
  <2>1. L \in 1 .. L
    BY <1>1
  <2>2. top \in Nat /\ top <= 57
    BY <1>1, <2>1, IsDigit
  <2> HIDE DEF top
  <2> QED BY <1>1, <2>2 DEF Digit, Byte
<1>3. front \in Seq(Digit) /\ Len(front) = L - 1 /\ back \in Seq(Digit)
  <2>1. front \in Seq(Digit) /\ Len(front) = L - 1
    <3> DEFINE m == L - 1
    <3>1. m \in Nat /\ m <= Len(digits) /\ front = SubSeq(digits, 1, m)
      BY <1>1
    <3> HIDE DEF m, front
    <3>2. front \in Seq(Digit) /\ Len(front) = m
      BY <1>1, <3>1
    <3> QED BY <3>2 DEF m
  <2>2. back \in Seq(Digit)
    <3> HIDE DEF top
    <3> QED BY <1>2
  <2> QED BY <2>1, <2>2
<1>4. Behind(digits, front, back)
  <2>1. Len(back) = 1 /\ back[1] = top
    OBVIOUS
  <2>2. \A j \in 1 .. L - 1 : digits[j] = front[j]
    BY <1>1
  <2> HIDE DEF front, back
  <2>3. \A j \in 1 .. Len(back) : digits[Len(front) + j] = back[j]
    BY <1>1, <1>3, <2>1
  <2> QED BY <1>1, <1>3, <2>1, <2>2, <2>3 DEF Behind
<1>5. base \in Nat /\ base # 0 /\ Digit = 0 .. base - 1
  BY DEF Digit
<1>6. back = CarryDigits(top)
  BY <1>2 DEF CarryDigits
<1>7. Worth(base, back) = top
  BY <1>2, <1>6, CarryDigitsFacts
<1> HIDE DEF base, front, back, top, L
<1>8. /\ Worth(base, front) \in Nat /\ Worth(base, front) < p
      /\ Worth(base, digits) = Worth(base, front) + p * top
  <2>1. Worth(base, front) \in Nat /\ Worth(base, front) < Power(base, Len(front))
    BY <1>3, <1>5, WorthBound
  <2>2. Worth(base, digits) = Worth(base, front) + Power(base, Len(front)) * Worth(base, back)
    BY <1>1, <1>3, <1>4, <1>5, WorthSplit
  <2> QED BY <1>3, <1>7, <2>1, <2>2
<1>9. p \in Nat
  BY <1>1, <1>5, PowersOf
<1> DEFINE w == Worth(base, front)
           q == top * p
<1>10. w \in Nat /\ w < p /\ q \in Nat /\ p * top = q /\ (top + 1) * p = q + p
  BY <1>2, <1>8, <1>9
<1>11. Worth(base, digits) = w + q
  BY <1>8, <1>10
<1> HIDE DEF w, q, p
<1>12. w + q >= q /\ w + q < q + p
  BY <1>9, <1>10
<1>13. q <= Worth(base, digits) /\ Worth(base, digits) < (top + 1) * p
  BY <1>10, <1>11, <1>12
<1> QED BY <1>1, <1>2, <1>13 DEF base, L, top, p, q

LEMMA PowerOf58 == Power(58, 33) = 15599970876632771988160814054146447252125923204784443097088
<1>1. Power(58, 1) = 58
  <2>1. Power(58, 0) = 1 /\ Power(58, 0 + 1) = 58 * Power(58, 0)
    BY PowerFacts
  <2> QED BY <2>1
<1>2. Power(58, 2) = 3364
  <2>1. Power(58, 1 + 1) = Power(58, 1) * Power(58, 1)
    BY PowerSum
  <2> QED BY <1>1, <2>1
<1>3. Power(58, 4) = 11316496
  <2>1. Power(58, 2 + 2) = Power(58, 2) * Power(58, 2)
    BY PowerSum
  <2> QED BY <1>2, <2>1
<1>4. Power(58, 8) = 128063081718016
  <2>1. Power(58, 4 + 4) = Power(58, 4) * Power(58, 4)
    BY PowerSum
  <2> QED BY <1>3, <2>1
<1>5. Power(58, 16) = 16400152899115243850138976256
  <2>1. Power(58, 8 + 8) = Power(58, 8) * Power(58, 8)
    BY PowerSum
  <2> QED BY <1>4, <2>1
<1>6. Power(58, 32) = 268965015114358137726910587140455987105619365599731777536
  <2>1. Power(58, 16 + 16) = Power(58, 16) * Power(58, 16)
    BY PowerSum
  <2> QED BY <1>5, <2>1
<1>7. Power(58, 33) = 15599970876632771988160814054146447252125923204784443097088
  <2>1. Power(58, 32 + 1) = Power(58, 32) * Power(58, 1)
    BY PowerSum
  <2> QED BY <1>6, <1>1, <2>1
<1> QED BY <1>7

LEMMA PowerOf256 == Power(256, 24) = 6277101735386680763835789423207666416102355444464034512896
<1>1. Power(256, 1) = 256
  <2>1. Power(256, 0) = 1 /\ Power(256, 0 + 1) = 256 * Power(256, 0)
    BY PowerFacts
  <2> QED BY <2>1
<1>2. Power(256, 2) = 65536
  <2>1. Power(256, 1 + 1) = Power(256, 1) * Power(256, 1)
    BY PowerSum
  <2> QED BY <1>1, <2>1
<1>3. Power(256, 4) = 4294967296
  <2>1. Power(256, 2 + 2) = Power(256, 2) * Power(256, 2)
    BY PowerSum
  <2> QED BY <1>2, <2>1
<1>4. Power(256, 8) = 18446744073709551616
  <2>1. Power(256, 4 + 4) = Power(256, 4) * Power(256, 4)
    BY PowerSum
  <2> QED BY <1>3, <2>1
<1>5. Power(256, 16) = 340282366920938463463374607431768211456
  <2>1. Power(256, 8 + 8) = Power(256, 8) * Power(256, 8)
    BY PowerSum
  <2> QED BY <1>4, <2>1
<1>6. Power(256, 24) = 6277101735386680763835789423207666416102355444464034512896
  <2>1. Power(256, 16 + 8) = Power(256, 16) * Power(256, 8)
    BY PowerSum
  <2> QED BY <1>5, <1>4, <2>1
<1> QED BY <1>6

LEMMA EachIsByte ==
    ASSUME NEW bytes \in Seq(Byte)
    PROVE  \A n \in 1 .. Len(bytes) : bytes[n] \in Byte
OBVIOUS

\* Every 25 bytes that begin with the version are shown as 34 digits, of which the
\* first is A.
LEMMA TextOfVersion ==
    ASSUME NEW bytes \in Seq(Byte), Len(bytes) = 25, bytes[1] = ADDRESS_VERSION
    PROVE  Len(Base58(bytes)) = 34 /\ Base58(bytes)[34] = 9
<1> DEFINE D == Digits(bytes)
           N(n) == Worth(58, D[n])
           p == Power(58, 33)
           T == {n \in 0 .. 24 : /\ 23 * Power(256, n) <= N(n + 1)
                                 /\ N(n + 1) < 24 * Power(256, n)}
<1>1. /\ D[0] = <<>>
      /\ \A n \in 0 .. 25 : Numeral(D[n])
      /\ \A n \in 1 .. 25 : D[n] = Shifted(D[n - 1], bytes[n])
  BY DigitsFacts
<1> HIDE DEF D
<1>2. \A n \in 1 .. 25 : bytes[n] \in Byte
  BY EachIsByte
<1>3. \A n \in 0 .. 25 : N(n) \in Nat
  <2> DEFINE base == 58
  <2>1. base \in Nat /\ base # 0 /\ Digit = 0 .. base - 1
    BY DEF Digit
  <2> HIDE DEF base
  <2>2. \A n \in 0 .. 25 : Worth(base, D[n]) \in Nat
    BY <1>1, <2>1, WorthBound DEF Numeral
  <2> QED BY <2>2 DEF base
<1>4. \A n \in 1 .. 25 : N(n) = 256 * N(n - 1) + bytes[n]
  <2> SUFFICES ASSUME NEW n \in 1 .. 25 PROVE N(n) = 256 * N(n - 1) + bytes[n]
    OBVIOUS
  <2>1. n - 1 \in 0 .. 25
    OBVIOUS
  <2>2. Numeral(D[n - 1]) /\ bytes[n] \in Byte /\ D[n] = Shifted(D[n - 1], bytes[n])
    BY <1>1, <1>2, <2>1
  <2> QED BY <2>2, ShiftedFacts
<1>5. N(0) = 0
  <2>1. CarryDigits(0) = <<>> /\ 0 \in Byte
    BY DEF CarryDigits, Byte
  <2> QED BY <1>1, <2>1, CarryDigitsFacts
<1> HIDE DEF N
<1>6. 0 \in T
  <2>1. Power(256, 0) = 1
    BY PowerFacts
  <2>2. N(1) = 256 * N(1 - 1) + 23 /\ 1 - 1 = 0
    BY <1>4 DEF ADDRESS_VERSION
  <2> QED BY <1>5, <2>1, <2>2
<1>7. ASSUME NEW n \in 1 .. 24, n - 1 \in T PROVE n \in T
  <2> DEFINE m == n - 1
             q == Power(256, m)
             b == bytes[n + 1]
             now == N(n)
  <2>1. m \in Nat /\ m + 1 = n /\ n + 1 \in 1 .. 25 /\ (n + 1) - 1 = n /\ n \in 0 .. 25
    OBVIOUS
  <2>2. q \in Nat /\ Power(256, n) = 256 * q
    <3> DEFINE base == 256
    <3>1. base \in Nat /\ base # 0
      OBVIOUS
    <3> HIDE DEF m, base
    <3>2. Power(base, m) \in Nat /\ Power(base, m + 1) = base * Power(base, m)
      BY <2>1, <3>1, PowersOf
    <3> QED BY <2>1, <3>2 DEF base
  <2>3. b \in Nat /\ b <= 255
    <3>1. b \in Byte
      BY <1>2, <2>1
    <3>2. \A x \in Byte : x \in Nat /\ x <= 255
      BY DEF Byte
    <3> HIDE DEF b
    <3> QED BY <3>1, <3>2
  <2>4. now \in Nat /\ N(n + 1) = 256 * now + b
    <3>1. N(n) \in Nat
      BY <1>3, <2>1
    <3>2. N(n + 1) = 256 * N((n + 1) - 1) + bytes[n + 1]
      BY <1>4, <2>1
    <3> QED BY <2>1, <3>1, <3>2
  <2>5. 23 * q <= now /\ now < 24 * q
    BY <1>7, <2>1
  <2> HIDE DEF m, q, b, now
  <2>6. 23 * (256 * q) <= 256 * now + b /\ 256 * now + b < 24 * (256 * q)
    BY <2>2, <2>3, <2>4, <2>5
  <2> QED BY <2>1, <2>2, <2>4, <2>6
<1>8. 24 \in T
  <2> HIDE DEF T
  <2>1. \A n \in 0 .. 24 : n \in T
    BY <1>6, <1>7, BoundedInduction
  <2> QED BY <2>1
<1> DEFINE d == D[25]
           L == Len(d)
           worth == N(25)
<1>9. 23 * Power(256, 24) <= worth /\ worth < 24 * Power(256, 24) /\ worth \in Nat
  BY <1>3, <1>8
<1>10. /\ p \in Nat /\ p >= 1 /\ 9 * p <= worth /\ worth < 10 * p
  BY <1>9, PowerOf58, PowerOf256
<1>11. Base58(bytes) = d
  BY DEF Base58, D
<1>12. Numeral(d) /\ d # <<>> /\ worth = Worth(58, d)
  <2>1. Numeral(d) /\ worth = Worth(58, d)
    BY <1>1 DEF N
  <2>2. d # <<>>
    <3>1. D[0] = <<>>
      BY <1>1
    <3>2. worth # 0
      <4> HIDE DEF worth, p
      <4> QED BY <1>9, <1>10
    <3>3. Worth(58, <<>>) = 0
      BY <1>5, <3>1 DEF N
    <3> QED BY <2>1, <3>2, <3>3
  <2> QED BY <2>1, <2>2
<1> HIDE DEF d, worth, p, L
<1> DEFINE top == d[L]
           r == Power(58, L - 1)
<1>13. /\ L \in Nat /\ L # 0 /\ top \in 1 .. 57
       /\ top * r <= worth /\ worth < (top + 1) * r
  BY <1>12, TopDigit DEF L
<1>14. r \in Nat /\ r >= 1
  <2> DEFINE base == 58
             m == L - 1
  <2>1. m \in Nat /\ base \in Nat /\ base # 0
    BY <1>13
  <2> HIDE DEF base, m
  <2>2. Power(base, m) \in Nat /\ Power(base, m) >= 1
    BY <2>1, PowersOf
  <2> QED BY <2>2 DEF base, m
<1> HIDE DEF top
<1>15. L - 1 = 33
  <2> DEFINE m == L - 1
  <2>1. m \in Nat /\ r = Power(58, m)
    BY <1>13
  <2>2. ASSUME m > 33 PROVE FALSE
    <3>1. Power(58, 34) = 58 * p
      <4>1. Power(58, 33 + 1) = 58 * Power(58, 33)
        BY PowerFacts
      <4> QED BY <4>1 DEF p
    <3>2. Power(58, 34) <= r
      <4> DEFINE base == 58
      <4>1. 34 \in Nat /\ 34 <= m /\ base \in Nat /\ base # 0
        <5> HIDE DEF m
        <5> QED BY <2>1, <2>2
      <4> HIDE DEF m, r, base
      <4>2. Power(base, 34) <= Power(base, m)
        BY <2>1, <4>1, PowersOf
      <4> QED BY <2>1, <4>2 DEF base
    <3> HIDE DEF r
    <3>3. top * r >= r
      BY <1>13, <1>14
    <3>4. top * r \in Nat
      BY <1>13, <1>14
    <3> QED BY <1>9, <1>10, <1>13, <1>14, <3>1, <3>2, <3>3, <3>4
  <2>3. ASSUME m < 33 PROVE FALSE
    <3>1. Power(58, m + 1) = 58 * r
      <4> DEFINE base == 58
      <4>1. base \in Nat /\ base # 0
        OBVIOUS
      <4> HIDE DEF m, r, base
      <4>2. Power(base, m + 1) = base * Power(base, m)
        BY <2>1, <4>1, PowersOf
      <4> QED BY <2>1, <4>2 DEF base
    <3>2. Power(58, m + 1) <= p
      <4> HIDE DEF m
      <4> DEFINE base == 58
      <4>1. m + 1 \in Nat /\ m + 1 <= 33 /\ 33 \in Nat /\ base \in Nat /\ base # 0
        BY <2>1, <2>3
      <4> HIDE DEF base
      <4>2. Power(base, m + 1) <= Power(base, 33)
        BY <4>1, PowersOf
      <4> QED BY <4>2 DEF base, p
    <3> HIDE DEF r
    <3>3. (top + 1) * r <= 58 * r
      BY <1>13, <1>14
    <3>4. (top + 1) * r \in Nat
      BY <1>13, <1>14
    <3> QED BY <1>9, <1>10, <1>13, <1>14, <3>1, <3>2, <3>3, <3>4
  <2>4. m = L - 1
    OBVIOUS
  <2> HIDE DEF m, r, L
  <2>5. m = 33
    BY <2>1, <2>2, <2>3
  <2> QED BY <2>4, <2>5
<1>16. r = p
  BY <1>15 DEF p
<1>17. top = 9
  <2> HIDE DEF r
  <2>1. top * p <= worth /\ worth < (top + 1) * p /\ top \in Nat
    BY <1>13, <1>16
  <2>2. ASSUME top >= 10 PROVE FALSE
    <3>1. top * p >= 10 * p
      BY <1>10, <2>1, <2>2
    <3>2. top * p \in Nat
      BY <1>10, <2>1
    <3> QED BY <1>9, <1>10, <2>1, <3>1, <3>2
  <2>3. ASSUME top + 1 <= 9 PROVE FALSE
    <3>1. (top + 1) * p <= 9 * p
      BY <1>10, <2>1, <2>3
    <3>2. (top + 1) * p \in Nat
      BY <1>10, <2>1
    <3> QED BY <1>9, <1>10, <2>1, <3>1, <3>2
  <2> QED BY <2>1, <2>2, <2>3
<1>18. L = 34
  BY <1>13, <1>15
<1> QED BY <1>11, <1>17, <1>18 DEF L, top

LEMMA WrittenInv ==
    /\ Init => Written
    /\ Written /\ [Next]_vars => Written'
<1>1. Init => Written
  BY DEF Init, Written
<1>2. ASSUME Written, [Next]_vars PROVE Written'
  <2>1. CASE Encode
    <3>1. Fits /\ Fits' /\ stage' = "return_hash"
      BY <1>2, <2>1 DEF Encode, AtStage, Written, Fits
    <3>2. UNCHANGED out \/ \E byte \in 0 .. 255 : out'[2] = DigitsWith(byte)
      BY <2>1 DEF Encode
    <3>3. UNCHANGED out \/ \E byte \in 0 .. 255 : out'[2] = DigitsWith(byte)'
      BY <3>2 DEF DigitsWith, Base58, Digits, Shifted, Carries, CarryDigits, ADDRESS_VERSION
    <3> QED BY <1>2, <3>1, <3>3 DEF Written
  <2>2. CASE Checksum
    BY <1>2, <2>2 DEF Checksum, AtStage, Written, Fits, FromHash
  <2>3. CASE Derive \/ CheckRoom \/ covert_pk_to_address_script \/ hash_script
    BY <1>2, <2>3 DEF Derive, CheckRoom, covert_pk_to_address_script, hash_script, AtStage, Written,
                      Fits, FromKey
  <2>4. CASE ReturnScript \/ ReturnDigest \/ ReturnHash \/ ReturnKey \/ ReturnPath
    BY <1>2, <2>4 DEF ReturnScript, ReturnDigest, ReturnHash, ReturnKey, ReturnPath, AtStage, Written,
                      Fits, FromHash, FromKey
  <2>5. CASE UNCHANGED vars
    BY <1>2, <2>5 DEF vars, Written, Fits
  <2> QED BY <1>2, <2>1, <2>2, <2>3, <2>4, <2>5 DEF Next
<1> QED BY <1>1, <1>2

LEMMA BehindVersion ==
    ASSUME NEW byte \in 0 .. 255
    PROVE  Len(DigitsWith(byte)) = 34 /\ DigitsWith(byte)[34] = 9
<1> DEFINE bytes == [k \in 1 .. 25 |-> IF k = 1 THEN ADDRESS_VERSION ELSE byte]
<1>1. bytes \in [1 .. 25 -> Byte]
  BY DEF Byte, ADDRESS_VERSION
<1>2. bytes \in Seq(Byte) /\ Len(bytes) = 25
  BY <1>1
<1>3. bytes[1] = ADDRESS_VERSION
  OBVIOUS
<1> HIDE DEF bytes
<1>4. Len(Base58(bytes)) = 34 /\ Base58(bytes)[34] = 9
  BY <1>2, <1>3, TextOfVersion
<1> QED BY <1>4 DEF bytes, DigitsWith
-----------------------------------------------------------------------------
THEOREM Invariance == Spec => []IInv
  BY InitInv, NextInv, PTL DEF Spec

\* Success means the whole address of what was given, failure means none, in
\* whichever of address.c's functions and calls it happens.
THEOREM AddressWholeOrNone == Spec => []WholeOrNone
<1>1. IInv => WholeOrNone
  BY DEF IInv, Progress, WholeOrNone, Returning, AddressOf
<1> QED BY <1>1, Invariance, PTL

\* Every local variable that held a key or what is made of it is cleared on every
\* way out of the functions of address.c.
THEOREM LocalsCleared == Spec => []NothingLeft
<1>1. IInv => NothingLeft
  BY LocalNames DEF IInv, Tidy, NothingLeft, Clear
<1> QED BY <1>1, Invariance, PTL

\* The compressed form (address.c 76 to 81) and the script keep keys apart.
THEOREM AddressesTellKeysApart == Spec => []TellsKeysApart
<1>1. IInv => TellsKeysApart
  <2> SUFFICES ASSUME IInv, stage = "returned", result, entry # "hash",
                      NEW k \in Keys, out[1][3] = Ripemd160(Sha256(Script(k)))
               PROVE  k.x = key.x /\ k.odd = key.odd
    BY DEF TellsKeysApart
  <2>1. out[1] = AddressOf(Ripemd160(Sha256(Script(key))))
    BY DEF IInv, Progress, Returning, Meant
  <2>2. Ripemd160(Sha256(Script(k))) = Ripemd160(Sha256(Script(key)))
    BY <2>1 DEF AddressOf, PreAddress
  <2>3. Script(k) = Script(key)
    BY <2>2 DEF Ripemd160, Sha256
  <2>4. compressed_key(k) = compressed_key(key)
    BY <2>3 DEF Script
  <2>5. k.odd \in BOOLEAN /\ key.odd \in BOOLEAN
    BY InputAssumption DEF IInv, Inputs
  <2> QED BY <2>4, <2>5 DEF compressed_key
<1> QED BY <1>1, Invariance, PTL

\* The text of every address has the length that there is room for (address.c 111
\* and 151) and begins with A: it is the number of 25 bytes behind the version,
\* which has 34 digits to the base 58, and the same first one, whatever they are.
THEOREM AddressesAreRecognisable == Spec => []Recognisable
<1>1. Written => Recognisable
  <2> SUFFICES ASSUME Written, out # NoText
               PROVE  /\ Len(out[2]) = BASE58_ADDRESS_LEN /\ Len(out[2]) <= out_len
                      /\ Last(out[2]) = 9
    BY DEF Recognisable
  <2>1. Fits /\ Len(out[2]) = 34 /\ out[2][34] = 9
    BY BehindVersion DEF Written
  <2> QED BY <2>1, InputAssumption DEF Fits, BASE58_ADDRESS_LEN, Last
<1> QED BY <1>1, WrittenInv, PTL DEF Spec
=============================================================================
