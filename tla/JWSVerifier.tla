----------------------------- MODULE JWSVerifier -----------------------------
(***************************************************************************)
(* jws.Verifier (jws/verifier.go): concurrent VerifyMessage and            *)
(* VerifyDetached calls on Compact JWS. The keys are static material the   *)
(* application rebuilds its resolver from while it rotates them, or its    *)
(* own resolver function, whose answers change at any time; it may also    *)
(* overwrite key material it has handed over (Wipe).                       *)
(*                                                                         *)
(* Signatures are idealised: a signature over a payload verifies for that  *)
(* payload under the key material that made it and no other.               *)
(***************************************************************************)
EXTENDS JWSResolvers

CONSTANTS
    Calls,          \* concurrent calls
    Payloads,       \* payloads of bytes, EmptyPayload among them
    EmptyPayload,
    NilPayload,     \* a nil slice, where VerifyDetached is given a payload
    LargePayloads,  \* those over config.maxPayloadSize
    Tokens,         \* the serialized messages callers present
    Resolvers,      \* key arguments of NewVerifier and resolver functions
    Wipeable,       \* material the application overwrites once it is given
    MaxSources      \* bound: resolvers in force during one call

\* One signature; embedded is the payload segment, empty in a detached JWS,
\* signed what was signed; signer is NilMaterial for a corrupted signature.
TokenType == [size : Nat, wellFormed : BOOLEAN, header : Headers,
              embedded : Payloads, signed : Payloads,
              signer : Material \cup {NilMaterial}]

\* An application's function is [kind |-> "function", answers], by kid.
IsFunction(r) == r.kind = "function"

KeyArgument(r) ==
    /\ r.kind \in {"nil", "raw", "jwk", "jwks", "function"}
    /\ r.kind = "raw" => r.material \in Material \cup {NilMaterial}
    /\ r.kind = "jwk" => r.jwk \in JWKs
    /\ r.kind = "jwks" => r.keys \in Seq(JWKs)
    /\ IsFunction(r) => r.answers \in [KeyHints \cup {NoKid} -> Replies]

ASSUME VerifierAssumption ==
    /\ EmptyPayload \in Payloads \ LargePayloads
    /\ NilPayload \notin Payloads
    /\ LargePayloads \subseteq Payloads
    /\ Tokens \subseteq TokenType
    /\ \A r \in Resolvers : KeyArgument(r)
    /\ Wipeable \subseteq Material
    /\ MaxSources \in Nat

VARIABLES
    resolver,   \* what the verifier's resolver is, or answers, now
    wiped,      \* material of the verifier overwritten since it was made
    pc,         \* where each call is
    token,      \* the message of each call
    payload,    \* object.payload
    resolved,   \* the resolved key in hand, between Resolve and Verify
    outcome,    \* how each call returned
    verifiedID, \* Verified.KeyID
    seen        \* history: the resolvers in force since each call began

vars == <<resolver, wiped, pc, token, payload, resolved, outcome, verifiedID,
          seen>>

\* What the steps of a call never change.
given == <<resolver, wiped, token, payload, seen>>

NoToken == [size |-> 0, wellFormed |-> FALSE, embedded |-> EmptyPayload,
            signed |-> EmptyPayload, signer |-> NilMaterial,
            header |-> [alg |-> NoAlgorithm, kid |-> NoKid, typ |-> NoText,
                        cty |-> NoText, extra |-> {}, wellFormed |-> FALSE]]

-----------------------------------------------------------------------------
\* validateRawToken.
RawTokenError(t) ==
    IF t.size = 0 THEN "ErrMissingToken"
    ELSE IF t.size > MaxTokenSize THEN "ErrTokenTooLarge"
    ELSE "none"

\* validatePayload, for VerifyDetached's argument.
PayloadError(p) ==
    IF p = NilPayload THEN "ErrMissingPayload"
    ELSE IF p \in LargePayloads THEN "ErrPayloadTooLarge"
    ELSE "none"

\* ParseSignedCompact and ParseDetached; the latter refuses a token that has
\* a payload of its own.
ParseSignedCompact(t) == t.wellFormed /\ t.header.alg \in AllowedAlgorithms
ParseDetached(t) == ParseSignedCompact(t) /\ t.embedded = EmptyPayload

\* The checks of verify that come before the resolver.
HeaderError(header) ==
    IF ~ ParseProtectedHeader(header) THEN "ErrMalformedToken"
    ELSE IF ExpectedTyp \notin {NoText, header.typ} THEN "ErrUnexpectedType"
    ELSE IF ExpectedCty \notin {NoText, header.cty}
         THEN "ErrUnexpectedContentType"
    ELSE "none"

\* The first check VerifyMessage fails.
MessageError(t) ==
    IF RawTokenError(t) # "none" THEN RawTokenError(t)
    ELSE IF ~ ParseSignedCompact(t) THEN "ErrMalformedToken"
    ELSE IF t.embedded \in LargePayloads THEN "ErrPayloadTooLarge"
    ELSE HeaderError(t.header)

\* The first check VerifyDetached fails.
DetachedError(t, p) ==
    IF RawTokenError(t) # "none" THEN RawTokenError(t)
    ELSE IF PayloadError(p) # "none" THEN PayloadError(p)
    ELSE IF ~ ParseDetached(t) THEN "ErrMalformedToken"
    ELSE HeaderError(t.header)

\* What the resolver in force answers; a function's keys are not copies.
Answer(r, header) ==
    IF IsFunction(r) THEN r.answers[header.kid] ELSE StaticResolve(r, header)

-----------------------------------------------------------------------------
Init ==
    /\ resolver \in {r \in Resolvers : ValidKeyArgument(r)}
    /\ wiped = {}
    /\ pc = [c \in Calls |-> "idle"]
    /\ token = [c \in Calls |-> NoToken]
    /\ payload = [c \in Calls |-> EmptyPayload]
    /\ resolved = [c \in Calls |-> Failure("ErrKeyNotFound")]
    /\ outcome = [c \in Calls |-> "none"]
    /\ verifiedID = [c \in Calls |-> NoKid]
    /\ seen = [c \in Calls |-> {}]

Return(c, how) ==
    /\ pc' = [pc EXCEPT ![c] = "done"]
    /\ outcome' = [outcome EXCEPT ![c] = how]

\* A call up to the resolver: its first failed check, or the payload to verify.
Begin(c, t, error, p) ==
    /\ pc[c] = "idle"
    /\ token' = [token EXCEPT ![c] = t]
    /\ seen' = [seen EXCEPT ![c] = {resolver}]
    /\ \/ /\ error = "none"
          /\ pc' = [pc EXCEPT ![c] = "resolving"]
          /\ payload' = [payload EXCEPT ![c] = p]
          /\ UNCHANGED outcome
       \/ /\ error # "none"
          /\ Return(c, error)
          /\ UNCHANGED payload
    /\ UNCHANGED <<resolver, wiped, resolved, verifiedID>>

VerifyMessage(c) == \E t \in Tokens : Begin(c, t, MessageError(t), t.embedded)

VerifyDetached(c) ==
    \E t \in Tokens, p \in Payloads \cup {NilPayload} :
        Begin(c, t, DetachedError(t, p), p)

Reply(c) == Answer(resolver, token[c].header)

\* Any error of the resolver ends the call; it is wrapped, not replaced.
ResolverFailure(c) ==
    /\ pc[c] = "resolving"
    /\ Reply(c).error # "none"
    /\ Return(c, Reply(c).error)
    /\ UNCHANGED <<given, resolved, verifiedID>>

NilKeyResolved(c) ==
    /\ pc[c] = "resolving"
    /\ Reply(c).error = "none" /\ Reply(c).material = NilMaterial
    /\ Return(c, "ErrVerify")
    /\ UNCHANGED <<given, resolved, verifiedID>>

\* Mutant: a nil key is passed on to the library.
AnyKeyResolved(c) ==
    /\ pc[c] = "resolving"
    /\ Reply(c).error = "none"
    /\ resolved' = [resolved EXCEPT ![c] = Reply(c)]
    /\ pc' = [pc EXCEPT ![c] = "verifying"]
    /\ UNCHANGED <<given, outcome, verifiedID>>

\* Mutant: the resolved key is kept in the shared verifier.
KeyResolvedShared(c) ==
    /\ pc[c] = "resolving"
    /\ Reply(c).error = "none" /\ Reply(c).material # NilMaterial
    /\ resolved' = [d \in Calls |-> Reply(c)]
    /\ pc' = [pc EXCEPT ![c] = "verifying"]
    /\ UNCHANGED <<given, outcome, verifiedID>>

KeyResolved(c) ==
    /\ pc[c] = "resolving"
    /\ Reply(c).error = "none" /\ Reply(c).material # NilMaterial
    /\ resolved' = [resolved EXCEPT ![c] = Reply(c)]
    /\ pc' = [pc EXCEPT ![c] = "verifying"]
    /\ UNCHANGED <<given, outcome, verifiedID>>

\* The key in hand is what it was when it was handed over.
Intact(material) == material \in wiped => Cloned(material)

\* Mutant: a detached payload is not what is verified.
SignatureValidAsParsed(c) ==
    /\ token[c].signer = resolved[c].material
    /\ Intact(resolved[c].material)

\* object.Verify, over the payload in hand.
SignatureValid(c) ==
    /\ token[c].signer = resolved[c].material
    /\ token[c].signed = payload[c]
    /\ Intact(resolved[c].material)

SignatureInvalid(c) ==
    /\ pc[c] = "verifying"
    /\ ~ SignatureValid(c)
    /\ Return(c, "ErrVerify")
    /\ UNCHANGED <<given, resolved, verifiedID>>

\* Mutant: the identity returned is the header's.
VerifiedForHeaderKid(c) ==
    /\ pc[c] = "verifying"
    /\ SignatureValid(c)
    /\ Return(c, "verified")
    /\ verifiedID' = [verifiedID EXCEPT ![c] = token[c].header.kid]
    /\ UNCHANGED <<given, resolved>>

Verified(c) ==
    /\ pc[c] = "verifying"
    /\ SignatureValid(c)
    /\ Return(c, "verified")
    /\ verifiedID' = [verifiedID EXCEPT ![c] = resolved[c].keyID]
    /\ UNCHANGED <<given, resolved>>

-----------------------------------------------------------------------------
(* The application.                                                        *)

InProgress(c) == pc[c] \notin {"idle", "done"}

Record(r) ==
    seen' = [c \in Calls |-> IF InProgress(c) THEN seen[c] \cup {r} ELSE seen[c]]

\* A function's answers change, calls in progress or not.
ChangeAnswers ==
    /\ IsFunction(resolver)
    /\ \A c \in Calls : Cardinality(seen[c]) < MaxSources
    /\ \E r \in Resolvers \ {resolver} :
          IsFunction(r) /\ resolver' = r /\ Record(r)
    /\ UNCHANGED <<wiped, pc, token, payload, resolved, outcome, verifiedID>>

\* The application replaces the verifier of static material; later calls are
\* made on the new one.
Rebuild ==
    /\ \A c \in Calls : ~ InProgress(c)
    /\ \E r \in Resolvers \ {resolver} :
          ~ IsFunction(r) /\ ValidKeyArgument(r) /\ resolver' = r
    /\ wiped' = {}
    /\ UNCHANGED <<pc, token, payload, resolved, outcome, verifiedID, seen>>

\* The application overwrites material it gave to NewVerifier.
Wipe(material) ==
    /\ ~ IsFunction(resolver)
    /\ wiped' = wiped \cup {material}
    /\ UNCHANGED <<resolver, pc, token, payload, resolved, outcome, verifiedID,
                   seen>>

Step(c) == ResolverFailure(c) \/ NilKeyResolved(c) \/ KeyResolved(c)
           \/ SignatureInvalid(c) \/ Verified(c)

Next ==
    \/ \E c \in Calls : VerifyMessage(c) \/ VerifyDetached(c) \/ Step(c)
    \/ ChangeAnswers \/ Rebuild
    \/ \E material \in Wipeable : Wipe(material)

Spec == Init /\ [][Next]_vars
=============================================================================
