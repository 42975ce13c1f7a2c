--------------------------- MODULE SignedChannel ---------------------------
(***************************************************************************)
(* What signatures promise two applications that exchange messages: what   *)
(* is verified was signed, by the key the verifier's application knows     *)
(* under the identity it is told. Nothing is said about how often and in   *)
(* which order messages are verified, or if at all.                        *)
(***************************************************************************)
CONSTANTS
    Verifiers,      \* calls that verify messages
    Messages,       \* what is signed
    SignKeys,
    Identities,     \* the names of keys
    Nothing         \* what a call has before it has verified a message

VARIABLES
    signed,     \* [message, key]
    known,      \* the keys that are trusted at present, or were since the
                \* calls in progress began: [name, key]
    verified    \* what each call has verified: [message, name], or Nothing

vars == <<signed, known, verified>>

Init ==
    /\ signed = {}
    /\ known \in SUBSET [name : Identities, key : SignKeys]
    /\ verified = [c \in Verifiers |-> Nothing]

Sign ==
    /\ \E m \in Messages, k \in SignKeys :
          signed' = signed \cup {[message |-> m, key |-> k]}
    /\ UNCHANGED <<known, verified>>

Trust ==
    /\ known' \in SUBSET [name : Identities, key : SignKeys]
    /\ UNCHANGED <<signed, verified>>

Verify(c) ==
    /\ verified[c] = Nothing
    /\ \E s \in signed, k \in known :
          /\ k.key = s.key
          /\ verified' = [verified EXCEPT
                            ![c] = [message |-> s.message, name |-> k.name]]
    /\ UNCHANGED <<signed, known>>

Next == Sign \/ Trust \/ \E c \in Verifiers : Verify(c)

Spec == Init /\ [][Next]_vars
=============================================================================
