---------------------------- MODULE MCAddresses -----------------------------
(***************************************************************************)
(* Values of Addresses' constants for TLC: points with equal and different *)
(* coordinates, in the right form and in another; hashes of one of these   *)
(* keys and of none; places just too small, just large enough and larger.  *)
(***************************************************************************)
EXTENDS Addresses

MCKeys == [first : {2, 4}, x : {"x1", "x2"}, odd : BOOLEAN]

OwnKey == [first |-> 4, x |-> "x1", odd |-> TRUE]

MCScriptHashes == {<<"another">>, Ripemd160(Sha256(Script(OwnKey)))}

MCOutLengths == {33, 34, 67}
=============================================================================
