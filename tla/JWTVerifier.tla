----------------------------- MODULE JWTVerifier -----------------------------
(***************************************************************************)
(* jwt.Verifier (jwt/verifier.go): concurrent callers of VerifyToken on    *)
(* one verifier. The clock moves, forwards or back, between the validator's*)
(* reading of it and validateLifetime's, and the resolver's keys change    *)
(* until they are read. A caller may pass the claims value of its previous *)
(* call again; what that call left in it is decoded over.                  *)
(*                                                                         *)
(* Signatures are idealised: a token verifies under the key material that  *)
(* signed it and no other.                                                 *)
(***************************************************************************)
EXTENDS JWTKeys, JWTPolicy, FiniteSets

CONSTANTS
    NotAString,         \* a kid or typ of another JSON type; for typ, also
                        \* one longer than 128 bytes
    Callers,
    Configurations,     \* verifiers' configurations
    MaxTokenSize,       \* config.maxSize
    Tokens,             \* the compact tokens callers present
    Registries,         \* the answers the resolver may be giving
    Times,              \* the clock
    MaxCalls,           \* bound: calls of each caller
    MaxChanges          \* bound: different registries that replace the one
                        \* a call began under

Headers == [alg : Algorithms \cup UnknownAlgorithms \cup {NoAlgorithm},
            kid : AnyKeyID \cup {NotAString},
            typ : Texts \cup {NoText, NotAString},
            extra : SUBSET {"crit", "b64"}]

\* wellFormed: three segments whose header and claims decode. encoded: the
\* signature segment decodes too.
TokenType == [size : Nat, wellFormed : BOOLEAN, header : Headers,
              claims : ClaimSets, encoded : BOOLEAN,
              signer : Material \cup {NilMaterial}]

\* A resolver: a StaticKeySet, a jwk.Set, an application's function that
\* returns one key for every header, or one that fails, with any error.
RegistryKinds == {"static", "set", "function", "failing"}

\* What errors.Is may find in an error: this module's sentinels, those of
\* context and other packages, and golang-jwt's.
Sentinels == {"ErrMissingToken", "ErrTokenTooLarge", "ErrMalformedToken",
              "ErrExpiredToken", "ErrNotYetValid", "ErrIssuedInFuture",
              "ErrInvalidSignature", "ErrInvalidClaims", "ErrVerify",
              "ErrUnexpectedType", "ErrInvalidLifetime", "ErrInvalidHeader",
              "ErrInvalidKeyID", "ErrInvalidConfig", "context", "other"}
                 \cup UnchangedErrors

ParserSentinels == {"jwt.Malformed", "jwt.Unverifiable", "jwt.SignatureInvalid",
                    "jwt.InvalidClaims", "jwt.Expired", "jwt.NotValidYet",
                    "jwt.UsedBeforeIssued", "jwt.OtherClaim"}

ASSUME VerifierAssumption ==
    /\ Methods = Algorithms
    /\ NotAString \notin AnyKeyID \cup Texts \cup {NoText}
    /\ Configurations \subseteq {config \in Configs : config.methods # {}}
    /\ MaxTokenSize \in Nat \ {0}
    /\ Tokens \subseteq TokenType
    /\ \A registry \in Registries :
          /\ registry.kind \in RegistryKinds
          /\ registry.kind = "static" => /\ registry.keys \in Seq(VerificationKeys)
                                         /\ ValidStaticKeySet(registry.keys)
          /\ registry.kind = "set" => /\ registry.keys \in Seq(JWKs)
                                      /\ ValidSet(registry.keys)
          /\ registry.kind = "function" => registry.key \in VerificationKeys
          /\ registry.kind = "failing" =>
                registry.errors \in SUBSET (Sentinels \cup ParserSentinels) \ {{}}
    /\ Times \subseteq Int
    /\ MaxCalls \in Nat
    /\ MaxChanges \in Nat

VARIABLES
    config,     \* verifier.config
    registry,   \* what verifier.resolver answers, now
    clock,      \* what config.clock returns, now
    pc,         \* where each caller is
    calls,      \* how many calls each caller has made
    token,      \* the token of each caller's call
    claims,     \* the claims value each caller passed
    key,        \* the key keyFunc returned
    errors,     \* errors.Is of the error returned; {} without one
    blank,      \* history: whether the claims value was a new one
    seen,       \* history: the registries in force since the call began
    clocks      \* history: what the clock showed since the call began

world == <<config, registry, clock>>
history == <<blank, seen, clocks>>

vars == <<config, registry, clock, pc, calls, token, claims, key, errors,
          blank, seen, clocks>>

NewClaims == [exp |-> Absent, nbf |-> Absent, iat |-> Absent, iss |-> NoText,
              sub |-> NoText, aud |-> {}, selfValid |-> TRUE]

NoToken == [size |-> 0, wellFormed |-> FALSE, claims |-> NewClaims,
            encoded |-> FALSE, signer |-> NilMaterial,
            header |-> [alg |-> NoAlgorithm, kid |-> NoKeyID, typ |-> NoText,
                        extra |-> {}]]

-----------------------------------------------------------------------------
(* Pure parts.                                                             *)

\* validateRawToken.
RawTokenErrors(t) ==
    IF t.size = 0 THEN {"ErrMissingToken"}
    ELSE IF t.size > MaxTokenSize THEN {"ErrTokenTooLarge"}
    ELSE {}

\* parseTokenHeader; the parser has established that alg is a known text.
HeaderValid(header) ==
    /\ header.extra = {}
    /\ header.kid \notin OverlongKeyIDs \cup {NotAString}
    /\ header.typ # NotAString

\* ParseWithClaims up to the resolver.
ParseErrors(t) ==
    IF ~ t.wellFormed THEN {"jwt.Malformed"}
    ELSE IF t.header.alg \notin Algorithms THEN {"jwt.Unverifiable"}
    ELSE IF t.header.alg \notin config.methods THEN {"jwt.SignatureInvalid"}
    ELSE IF ~ t.encoded THEN {"jwt.Malformed"}
    ELSE IF ~ HeaderValid(t.header) THEN {"jwt.Unverifiable", "ErrInvalidHeader"}
    ELSE {}

\* Mutant: the sentinel replaces the error instead of wrapping it.
SentinelOnly(es) == {ClassifyVerifyError(es)} \ {"none"}

\* The error parse returns for those of ParseWithClaims.
Classified(es) == es \cup ({ClassifyVerifyError(es)} \ {"none"})

EarlyErrors(t) ==
    IF RawTokenErrors(t) # {} THEN RawTokenErrors(t)
    ELSE IF ParseErrors(t) # {} THEN Classified(ParseErrors(t))
    ELSE {}

\* JSON decoding leaves the members a token does not have as they were.
DecodeOver(value, decoded) ==
    [exp |-> IF decoded.exp = Absent THEN value.exp ELSE decoded.exp,
     nbf |-> IF decoded.nbf = Absent THEN value.nbf ELSE decoded.nbf,
     iat |-> IF decoded.iat = Absent THEN value.iat ELSE decoded.iat,
     iss |-> IF decoded.iss = NoText THEN value.iss ELSE decoded.iss,
     sub |-> IF decoded.sub = NoText THEN value.sub ELSE decoded.sub,
     aud |-> IF decoded.aud = {} THEN value.aud ELSE decoded.aud,
     selfValid |-> decoded.selfValid]

\* What a resolver answers: the errors, or a key.
Answer(r, header) ==
    CASE r.kind = "static" ->
            LET reply == StaticResolve(r.keys, header) IN
            [errors |-> {reply.error} \ {"none"}, key |-> reply.key]
      [] r.kind = "set" ->
            LET reply == SetResolve(r.keys, header) IN
            [errors |-> {reply.error} \ {"none"}, key |-> reply.key]
      [] r.kind = "function" -> [errors |-> {}, key |-> r.key]
      [] r.kind = "failing" -> [errors |-> r.errors, key |-> ZeroKey]

-----------------------------------------------------------------------------
Init ==
    /\ config \in Configurations
    /\ registry \in Registries
    /\ clock \in Times
    /\ pc = [c \in Callers |-> "idle"]
    /\ calls = [c \in Callers |-> 0]
    /\ token = [c \in Callers |-> NoToken]
    /\ claims = [c \in Callers |-> NewClaims]
    /\ key = [c \in Callers |-> ZeroKey]
    /\ errors = [c \in Callers |-> {}]
    /\ blank = [c \in Callers |-> TRUE]
    /\ seen = [c \in Callers |-> {}]
    /\ clocks = [c \in Callers |-> {}]

Reject(c, es) ==
    /\ pc' = [pc EXCEPT ![c] = "rejected"]
    /\ errors' = [errors EXCEPT ![c] = es]

\* VerifyToken with a nil verifier or context, or nil claims.
RefuseCall(c) ==
    /\ pc[c] \in {"idle", "accepted", "rejected"}
    /\ calls[c] < MaxCalls
    /\ calls' = [calls EXCEPT ![c] = @ + 1]
    /\ \E error \in {"ErrInvalidConfig", "ErrInvalidClaims"} : Reject(c, {error})
    /\ token' = [token EXCEPT ![c] = NoToken]
    /\ seen' = [seen EXCEPT ![c] = {registry}]
    /\ clocks' = [clocks EXCEPT ![c] = {clock}]
    /\ UNCHANGED <<world, claims, key, blank>>

\* VerifyToken up to keyFunc's call of the resolver. A malformed token may
\* fail before its claims are decoded, or when they are in the value already.
VerifyToken(c, t) ==
    /\ pc[c] \in {"idle", "accepted", "rejected"}
    /\ calls[c] < MaxCalls
    /\ calls' = [calls EXCEPT ![c] = @ + 1]
    /\ \E value \in {NewClaims, claims[c]} :
         /\ token' = [token EXCEPT ![c] = t]
         /\ blank' = [blank EXCEPT ![c] = value = NewClaims]
         /\ \/ /\ RawTokenErrors(t) = {}
               /\ claims' = [claims EXCEPT ![c] = DecodeOver(value, t.claims)]
            \/ /\ RawTokenErrors(t) # {} \/ ~ t.wellFormed
               /\ claims' = [claims EXCEPT ![c] = value]
         /\ \/ /\ EarlyErrors(t) # {}
               /\ Reject(c, EarlyErrors(t))
            \/ /\ EarlyErrors(t) = {}
               /\ pc' = [pc EXCEPT ![c] = "resolving"]
               /\ errors' = [errors EXCEPT ![c] = {}]
    /\ seen' = [seen EXCEPT ![c] = {registry}]
    /\ clocks' = [clocks EXCEPT ![c] = {clock}]
    /\ UNCHANGED <<world, key>>

Reply(c) == Answer(registry, token[c].header)

ResolverFailure(c) ==
    /\ pc[c] = "resolving"
    /\ Reply(c).errors # {}
    /\ Reject(c, Classified(Reply(c).errors \cup {"jwt.Unverifiable"}))
    /\ UNCHANGED <<world, history, calls, token, claims, key>>

UninitializedKey(c) ==
    /\ pc[c] = "resolving"
    /\ Reply(c).errors = {} /\ ~ Initialized(Reply(c).key)
    /\ Reject(c, Classified({"jwt.Unverifiable", "ErrInvalidKey"}))
    /\ UNCHANGED <<world, history, calls, token, claims, key>>

\* The key is bound to another algorithm than the token's.
UnexpectedAlgorithm(c) ==
    /\ pc[c] = "resolving"
    /\ Reply(c).errors = {} /\ Initialized(Reply(c).key)
    /\ Reply(c).key.method # token[c].header.alg
    /\ Reject(c, Classified({"jwt.Unverifiable", "ErrUnexpectedAlgorithm"}))
    /\ UNCHANGED <<world, history, calls, token, claims, key>>

\* Mutant: the key's algorithm is not compared with the token's.
AnyKeyResolved(c) ==
    /\ pc[c] = "resolving"
    /\ Reply(c).errors = {} /\ Initialized(Reply(c).key)
    /\ pc' = [pc EXCEPT ![c] = "verifying"]
    /\ key' = [key EXCEPT ![c] = Reply(c).key]
    /\ UNCHANGED <<world, history, calls, token, claims, errors>>

\* Mutant: keyFunc leaves the key in the shared verifier.
KeyResolvedShared(c) ==
    /\ pc[c] = "resolving"
    /\ Reply(c).errors = {} /\ Initialized(Reply(c).key)
    /\ Reply(c).key.method = token[c].header.alg
    /\ pc' = [pc EXCEPT ![c] = "verifying"]
    /\ key' = [d \in Callers |-> Reply(c).key]
    /\ UNCHANGED <<world, history, calls, token, claims, errors>>

KeyResolved(c) ==
    /\ pc[c] = "resolving"
    /\ Reply(c).errors = {} /\ Initialized(Reply(c).key)
    /\ Reply(c).key.method = token[c].header.alg
    /\ pc' = [pc EXCEPT ![c] = "verifying"]
    /\ key' = [key EXCEPT ![c] = Reply(c).key]
    /\ UNCHANGED <<world, history, calls, token, claims, errors>>

SignatureOfSomeKey(c) == key[c].material \in Material  \* Mutant: none is compared.

\* method.Verify with the key in hand.
SignatureValid(c) == key[c].material = token[c].signer

SignatureInvalid(c) ==
    /\ pc[c] = "verifying"
    /\ ~ SignatureValid(c)
    /\ Reject(c, Classified({"jwt.SignatureInvalid"}))
    /\ UNCHANGED <<world, history, calls, token, claims, key>>

\* Mutant: the claims are judged before the signature.
ClaimsRejectedFirst(c) ==
    /\ pc[c] = "verifying"
    /\ ClaimsErrors(config, claims[c], clock) # {}
    /\ Reject(c, Classified(ClaimsErrors(config, claims[c], clock)))
    /\ UNCHANGED <<world, history, calls, token, claims, key>>

\* The validator, with the first reading of the clock.
ClaimsRejected(c) ==
    /\ pc[c] = "verifying"
    /\ SignatureValid(c)
    /\ ClaimsErrors(config, claims[c], clock) # {}
    /\ Reject(c, Classified(ClaimsErrors(config, claims[c], clock)))
    /\ UNCHANGED <<world, history, calls, token, claims, key>>

ClaimsValid(c) ==
    /\ pc[c] = "verifying"
    /\ SignatureValid(c)
    /\ ClaimsErrors(config, claims[c], clock) = {}
    /\ pc' = [pc EXCEPT ![c] = "policy"]
    /\ UNCHANGED <<world, history, calls, token, claims, key, errors>>

\* validatePolicy, with the second reading.
TypeExpected(c) == config.typ \in {NoText, token[c].header.typ}

UnexpectedType(c) ==
    /\ pc[c] = "policy"
    /\ ~ TypeExpected(c)
    /\ Reject(c, {"ErrUnexpectedType"})
    /\ UNCHANGED <<world, history, calls, token, claims, key>>

LifetimeRejected(c) ==
    /\ pc[c] = "policy"
    /\ TypeExpected(c)
    /\ ValidateLifetime(config, claims[c], clock) # "none"
    /\ Reject(c, {ValidateLifetime(config, claims[c], clock)})
    /\ UNCHANGED <<world, history, calls, token, claims, key>>

\* Mutant: the age of the token is not looked at.
AcceptAnyAge(c) ==
    /\ pc[c] = "policy"
    /\ TypeExpected(c)
    /\ pc' = [pc EXCEPT ![c] = "accepted"]
    /\ UNCHANGED <<world, history, calls, token, claims, key, errors>>

Accept(c) ==
    /\ pc[c] = "policy"
    /\ TypeExpected(c)
    /\ ValidateLifetime(config, claims[c], clock) = "none"
    /\ pc' = [pc EXCEPT ![c] = "accepted"]
    /\ UNCHANGED <<world, history, calls, token, claims, key, errors>>

\* The environment.
InProgress(c) == pc[c] \in {"resolving", "verifying", "policy"}

MoveClock ==
    /\ clock' \in Times \ {clock}
    /\ clocks' = [c \in Callers |-> IF InProgress(c) THEN clocks[c] \cup {clock'}
                                    ELSE clocks[c]]
    /\ UNCHANGED <<config, registry, pc, calls, token, claims, key, errors,
                   blank, seen>>

ChangeRegistry ==
    /\ \A c \in Callers : Cardinality(seen[c]) <= MaxChanges
    /\ registry' \in Registries \ {registry}
    /\ seen' = [c \in Callers |-> IF InProgress(c) THEN seen[c] \cup {registry'}
                                  ELSE seen[c]]
    /\ UNCHANGED <<config, clock, pc, calls, token, claims, key, errors,
                   blank, clocks>>

ResolveKeyStep(c) == ResolverFailure(c) \/ UninitializedKey(c)
                     \/ UnexpectedAlgorithm(c) \/ KeyResolved(c)

Step(c) ==
    \/ ResolveKeyStep(c)
    \/ SignatureInvalid(c) \/ ClaimsRejected(c) \/ ClaimsValid(c)
    \/ UnexpectedType(c) \/ LifetimeRejected(c) \/ Accept(c)

Next ==
    \/ \E c \in Callers :
          Step(c) \/ RefuseCall(c) \/ \E t \in Tokens : VerifyToken(c, t)
    \/ MoveClock \/ ChangeRegistry

Spec == Init /\ [][Next]_vars
=============================================================================
