---------------------------- MODULE ClearSigning ----------------------------
(***************************************************************************)
(* What the Ontology application promises its user, with nothing said      *)
(* about commands, chunks, buffers or pages: the device asks for a         *)
(* confirmation of a request, and what it releases to the host is exactly  *)
(* the request it was asking about.  Only an address may leave unasked.    *)
(*                                                                         *)
(* OntApp.tla implements this specification (OntApp!SigningContract).      *)
(***************************************************************************)

CONSTANTS Requests,   \* what a user can be asked to confirm
          Addresses,  \* those of them that ask for a public key
          Nothing     \* no request: not one of Requests

VARIABLES asked,      \* the request the device is asking about
          consent,    \* the device tells its user that he approved
          released    \* what the last step sent to the host

vars == <<asked, consent, released>>

TypeOK == /\ asked \in Requests \cup {Nothing}
          /\ consent \in BOOLEAN
          /\ released \in Requests \cup {Nothing}
-----------------------------------------------------------------------------
Init == asked = Nothing /\ consent = FALSE /\ released = Nothing

Ask ==                \* the device shows a request and waits for its user
    /\ asked = Nothing
    /\ asked' \in Requests
    /\ consent' = FALSE
    /\ released' = Nothing

Approve ==            \* the user approves, and the device does what it asked
    /\ asked # Nothing
    /\ consent' = TRUE
    /\ released' = asked
    /\ asked' = Nothing

Withhold ==           \* rejection, error, loss of power, or nothing to say
    /\ asked' = Nothing
    /\ consent' \in BOOLEAN
    /\ released' = Nothing

Export ==             \* a public key read without a review
    /\ asked = Nothing
    /\ released' \in Addresses
    /\ UNCHANGED <<asked, consent>>

Next == Ask \/ Approve \/ Withhold \/ Export

Spec == Init /\ [][Next]_vars
=============================================================================
