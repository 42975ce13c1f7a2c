----------------------------- MODULE JWSHeaders -----------------------------
(***************************************************************************)
(* What jws.Verifier and jws.MultiVerifier share: the protected header of  *)
(* a signature (jws/header.go) and the configured limits.                  *)
(***************************************************************************)
EXTENDS Integers

CONSTANTS
    KeyHints, NoKid,    \* protected kid values; an absent kid
    Algorithms, NoAlgorithm,  \* every alg value; an absent alg
    AllowedAlgorithms,  \* verifier.algorithms
    Texts, NoText, NotAString,  \* typ and cty values; absent; not a string
    ExpectedTyp, ExpectedCty,   \* config.typ and config.cty; NoText if unset
    MaxTokenSize, MaxPayloadSize

\* A jose.Header of a signature's protected header; wellFormed is FALSE when
\* a text is too long or not UTF-8; extra holds the crit and b64 members.
Headers == [alg : Algorithms \cup {NoAlgorithm}, kid : KeyHints \cup {NoKid},
            typ : Texts \cup {NoText, NotAString},
            cty : Texts \cup {NoText, NotAString},
            extra : SUBSET {"crit", "b64"}, wellFormed : BOOLEAN]

ASSUME HeadersAssumption ==
    /\ NoKid \notin KeyHints
    /\ NoAlgorithm \notin Algorithms
    /\ AllowedAlgorithms \subseteq Algorithms
    /\ ExpectedTyp \in Texts \cup {NoText}
    /\ ExpectedCty \in Texts \cup {NoText}
    /\ {NoText, NotAString} \cap Texts = {} /\ NoText # NotAString
    /\ MaxTokenSize \in Nat \ {0}
    /\ MaxPayloadSize \in Nat \ {0}

ParseProtectedHeader(header) ==
    /\ header.alg # NoAlgorithm
    /\ header.extra = {}
    /\ NotAString \notin {header.typ, header.cty}
    /\ header.wellFormed

ValidateHeaderPolicy(header) ==
    /\ ExpectedTyp # NoText => header.typ = ExpectedTyp
    /\ ExpectedCty # NoText => header.cty = ExpectedCty
=============================================================================
