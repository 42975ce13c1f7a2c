--------------------------- MODULE JWSVerifierProps ---------------------------
(* What makes JWSVerifier correct. *)
EXTENDS JWSVerifier

Errors == {"ErrMissingToken", "ErrTokenTooLarge", "ErrMissingPayload",
           "ErrPayloadTooLarge", "ErrMalformedToken", "ErrUnexpectedType",
           "ErrUnexpectedContentType", "ErrKeyNotFound", "ErrInvalidConfig",
           "ErrVerify", "other"}

\* A call has an outcome exactly when it has returned, an identity only when
\* it has verified something, and never hands a nil key to the library.
TypeOK ==
    /\ resolver \in Resolvers /\ ValidKeyArgument(resolver)
    /\ wiped \subseteq Wipeable
    /\ pc \in [Calls -> {"idle", "resolving", "verifying", "done"}]
    /\ token \in [Calls -> TokenType]
    /\ payload \in [Calls -> Payloads]
    /\ resolved \in [Calls -> Replies]
    /\ outcome \in [Calls -> {"none", "verified"} \cup Errors]
    /\ verifiedID \in [Calls -> KeyHints \cup {NoKid}]
    /\ seen \in [Calls -> SUBSET Resolvers]
    /\ \A c \in Calls :
          /\ pc[c] = "done" <=> outcome[c] # "none"
          /\ pc[c] = "verifying" => resolved[c].material # NilMaterial
          /\ verifiedID[c] # NoKid => outcome[c] = "verified"

-----------------------------------------------------------------------------
(* What each kind of key material trusts, entry by entry, as jws/README.md *)
(* ("Key Management and Resolvers") describes it.                          *)

Entries(r) ==
    CASE r.kind = "raw" -> <<[material |-> r.material, keyID |-> NoKid,
                              alg |-> NoAlgorithm, use |-> ""]>>
      [] r.kind = "jwk" -> <<r.jwk>>
      [] r.kind = "jwks" -> r.keys

\* A set's key must be named; a lone key must not be misnamed.
Applies(entry, r, header) ==
    /\ entry.material # NilMaterial
    /\ entry.use # "enc"
    /\ entry.alg # NoAlgorithm => entry.alg = header.alg
    /\ IF r.kind = "jwks" THEN header.kid # NoKid /\ header.kid = entry.keyID
       ELSE header.kid # NoKid /\ entry.keyID # NoKid => header.kid = entry.keyID

\* r trusts the material, for the header and under the identity, and no
\* other key of r could be meant.
Trusts(r, header, keyID, material) ==
    IF IsFunction(r)
    THEN r.answers[header.kid] = Found(keyID, material)
    ELSE LET applicable == {i \in DOMAIN Entries(r) :
                               Applies(Entries(r)[i], r, header)} IN
         \E i \in applicable :
            /\ applicable = {i}
            /\ Entries(r)[i].material = material
            /\ Entries(r)[i].keyID = keyID

\* The message is a signature over the payload at hand by someone trusted.
Genuine(c, r) ==
    /\ token[c].signer # NilMaterial
    /\ token[c].signed = payload[c]
    /\ \E keyID \in KeyHints \cup {NoKid} :
          Trusts(r, token[c].header, keyID, token[c].signer)

\* What is verified is a payload within the limit, attached or the caller's,
\* signed under an acceptable header by a key some resolver of that very call
\* trusts for it without ambiguity, and the identity returned is the one
\* that resolver gave the key, never the word of the header (verify,
\* verifier.go:155-217, resolver.go:157-236).
VerifiedIsTrusted ==
    \A c \in Calls : outcome[c] = "verified" =>
        /\ payload[c] \notin LargePayloads
        /\ token[c].header.alg \in AllowedAlgorithms
        /\ HeaderError(token[c].header) = "none"
        /\ token[c].signed = payload[c]
        /\ \E r \in seen[c] :
              Trusts(r, token[c].header, verifiedID[c], token[c].signer)

Undisturbed(c) == pc[c] = "done" /\ Cardinality(seen[c]) = 1

CallErrors == {"ErrMissingToken", "ErrTokenTooLarge", "ErrMissingPayload",
               "ErrPayloadTooLarge", "ErrMalformedToken", "ErrUnexpectedType",
               "ErrUnexpectedContentType"}

\* While its resolver answers the same, a call that gets as far as the
\* resolver verifies exactly the genuine messages: whatever other calls on
\* the verifier do, in whatever order their steps and this one's happen, and
\* although the application overwrites, after NewVerifier, the secret it
\* gave it (TestVerifierClonesStaticVerificationKey, verifier_test.go:141).
UndisturbedVerdict ==
    \A c \in Calls : \A r \in seen[c] :
        Undisturbed(c) /\ outcome[c] \notin CallErrors =>
            (outcome[c] = "verified" <=> Genuine(c, r))

HeadersSeen == {t.header : t \in Tokens}

\* Rotation never substitutes a key: when the application rebuilds its
\* verifier and a key that answered a header is still among those it trusts
\* for it, that key answers again, or the lookup fails as ambiguous; it is
\* never another key that silently takes over the kid (resolver.go:206-218).
RotationNeverSubstitutes ==
    [][~ IsFunction(resolver) /\ ~ IsFunction(resolver') =>
        \A header \in HeadersSeen :
          LET before == StaticResolve(resolver, header)
              after == StaticResolve(resolver', header)
          IN /\ before.error = "none"
             /\ \E i \in DOMAIN Entries(resolver') :
                   /\ Applies(Entries(resolver')[i], resolver', header)
                   /\ Entries(resolver')[i].material = before.material
                   /\ Entries(resolver')[i].keyID = before.keyID
             => after = before \/ after = Failure("ErrInvalidConfig")]_vars

-----------------------------------------------------------------------------
\* "RSA, ECDSA, opaque signers, and custom key objects are retained as-is and
\* must be treated as immutable" (jws/key.go:218): an application that
\* leaves those alone and overwrites other key material once it is given
\* away still has its genuine messages verified.
OverwrittenKeysStillVerify ==
    \A c \in Calls : \A r \in seen[c] :
        Undisturbed(c) /\ outcome[c] = "ErrVerify" => ~ Genuine(c, r)
=============================================================================
