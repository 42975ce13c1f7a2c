-------------------------- MODULE JWTVerifierProps --------------------------
(* What makes JWTVerifier correct. *)
EXTENDS JWTVerifier

\* A rejection always comes with an error, and one of this module's.
TypeOK ==
    /\ config \in Configurations
    /\ registry \in Registries
    /\ clock \in Times
    /\ pc \in [Callers -> {"idle", "resolving", "verifying", "policy",
                           "accepted", "rejected"}]
    /\ calls \in [Callers -> 0 .. MaxCalls]
    /\ token \in [Callers -> TokenType]
    /\ claims \in [Callers -> ClaimSets]
    /\ key \in [Callers -> VerificationKeys]
    /\ errors \in [Callers -> SUBSET (Sentinels \cup ParserSentinels)]
    /\ \A c \in Callers :
          (pc[c] = "rejected") <=> (errors[c] \cap Sentinels # {})
    /\ blank \in [Callers -> BOOLEAN]
    /\ seen \in [Callers -> SUBSET Registries]
    /\ clocks \in [Callers -> SUBSET Times]

-----------------------------------------------------------------------------
\* The key r answers the token with is bound to the token's algorithm and
\* really signed it.
Genuine(t, r) ==
    LET answer == Answer(r, t.header) IN
    /\ answer.errors = {}
    /\ Initialized(answer.key)
    /\ answer.key.method = t.header.alg
    /\ answer.key.material = t.signer

\* A key that was trusted for the token's kid and algorithm at some moment of
\* the call signed it, with an algorithm the configuration allows.
Authentic(c) ==
    /\ token[c].header.alg \in config.methods
    /\ HeaderValid(token[c].header)
    /\ \E r \in seen[c] : Genuine(token[c], r)

\* An accepted token is authentic and of the configured type, however the
\* resolver's keys are rotated during the call, and if the claims value was
\* a new one it holds the token's claims and nothing else (VerifyToken,
\* verifier.go:75-104).
AcceptedIsAuthentic ==
    \A c \in Callers : pc[c] = "accepted" =>
        /\ Authentic(c)
        /\ config.typ # NoText => token[c].header.typ = config.typ
        /\ blank[c] => claims[c] = token[c].claims

\* The clock is read twice, and may have moved, even back, in between: the
\* claims accepted satisfy the policy by two instants the clock showed
\* during this very call, and the signed expiration by the first of them
\* (verifier.go:203 reads it the second time).
AcceptedIsTimely ==
    \A c \in Callers : pc[c] = "accepted" =>
        \E first, second \in clocks[c] :
            /\ ClaimsVerdict(config, claims[c], first, second) = "none"
            /\ claims[c].exp = Absent \/ first < claims[c].exp + config.leeway

ContentErrors == {"ErrExpiredToken", "ErrNotYetValid", "ErrIssuedInFuture",
                  "ErrInvalidClaims", "ErrUnexpectedType", "ErrInvalidLifetime"}

\* An application's resolver, in force during c, fails with this error or with
\* one that classifyVerifyError takes for it.
ResolverClaims(c, error) ==
    \E r \in seen[c] :
        /\ r.kind = "failing"
        /\ error \in Classified(r.errors \cup {"jwt.Unverifiable"})

\* "The signature is verified before protected-header and claim values are
\* accepted" (DESIGN.md:255): what a caller learns about the content of a
\* token, that it is expired, early, for another audience or of another
\* type, is never the word of an unauthentic one, unless the application's
\* own resolver failed with such an error: verifier.go:248-325 classifies
\* its errors like the parser's. A StaticKeySet or a Set never does.
ContentErrorsAreAuthentic ==
    \A c \in Callers : pc[c] = "rejected" /\ token[c] # NoToken =>
        \A error \in errors[c] \cap ContentErrors :
            Authentic(c) \/ ResolverClaims(c, error)

Undisturbed(c) ==
    /\ pc[c] \in {"accepted", "rejected"}
    /\ Cardinality(seen[c]) = 1 /\ Cardinality(clocks[c]) = 1
    /\ blank[c]

\* A token that is authentic, of the configured type and within the limits,
\* and whose claims satisfy the policy at an instant the call has seen.
Fit(c) ==
    /\ RawTokenErrors(token[c]) = {} /\ token[c].wellFormed /\ token[c].encoded
    /\ Authentic(c)
    /\ config.typ \in {NoText, token[c].header.typ}
    /\ \E now \in clocks[c] :
          ClaimsVerdict(config, token[c].claims, now, now) = "none"

\* While keys and clock stay the same, a call accepts exactly the fit tokens:
\* none is turned away either, however the steps of other callers of the
\* same verifier, with other tokens and other keys, interleave with it.
UndisturbedVerdict ==
    \A c \in Callers : Undisturbed(c) => (pc[c] = "accepted" <=> Fit(c))

=============================================================================
