---------------------------- MODULE NestedToken ----------------------------
(***************************************************************************)
(* jwe's nested tokens (jwe/nested.go): a NestedIssuer that signs claims   *)
(* as a JWT and encrypts it, and callers of a NestedVerifier that decrypt  *)
(* the one and verify the other, each a composition of two components that *)
(* have configurations, keys and failures of their own: JWTSigners and     *)
(* JWEEncrypters on one side, JWEDecrypter and JWTVerifier on the other.   *)
(* Whoever knows the recipient's public key can seal a JWT, too: one of    *)
(* its own, one the issuer signed, or something else.                      *)
(***************************************************************************)
EXTENDS JWTSigners, FiniteSets

CONSTANTS
    \* see JWTVerifier and JWEDecrypter
    Absent, Unreadable, NotAString, Callers, Times, MaxCalls, MaxChanges,
    Configurations, MaxTokenSize, KeySources,
    Unfit, Deflate, Keys, Registries, KeyAlgorithms, ContentEncryptions,
    \* see JWEEncrypters
    DirectAlgorithms, KeyKinds, NilKey, Memory,
    SigningKeys,        \* what the issuer signs with
    SignerOptions, OuterOptions,    \* option lists of both layers
    Recipient,          \* the recipient of the encrypters: [alg, kid, buffer]
    Encryption,
    ClaimsPool,         \* what the issuer signs
    StrangeContents,    \* what strangers seal: tokens as JWTVerifier has them
    TokenSize,          \* the size of compact JWTs
    MaxTokens           \* bound: tokens on the wire

JWT == DefaultType

VARIABLES
    issuer,     \* [signer, encrypter]
    wire,       \* the tokens that may arrive: [outer, origin]
    stage,      \* where each nested call is: "idle", "outer", "inner", "done"
    verdict,    \* errors.Is of what a nested call returned; {} without error
    returned,   \* its VerifiedToken, [jwe, jwt]; {} for the zero value
    decrypter, registry, outerPc, outerCalls, outer, outerKey, index,
    outerErrors, outerSeen,
    config, keySource, clock, innerPc, innerCalls, inner, claims, innerKey,
    innerErrors, blank, innerSeen, clocks

nestedVars == <<issuer, wire, stage, verdict, returned>>
outerVars == <<decrypter, registry, outerPc, outerCalls, outer, outerKey, index,
               outerErrors, outerSeen>>
innerVars == <<config, keySource, clock, innerPc, innerCalls, inner, claims,
               innerKey, innerErrors, blank, innerSeen, clocks>>
vars == <<nestedVars, outerVars, innerVars>>

Sealer == INSTANCE JWEEncrypters

OuterConfigs == {Sealer!MakeConfig(options) :
                    options \in {o \in OuterOptions : Sealer!ValidOptions(o)}}

Decrypters == {[multi |-> FALSE, keyAlgorithms |-> KeyAlgorithms,
                contentEncryptions |-> ContentEncryptions, policy |-> c.policy,
                maxTokenSize |-> c.maxTokenSize,
                maxPlaintextSize |-> c.maxPlaintextSize] : c \in OuterConfigs}

Outer == INSTANCE JWEDecrypter WITH
    NoKey <- NilKey, Tokens <- {}, pc <- outerPc, calls <- outerCalls,
    token <- outer, key <- outerKey, errors <- outerErrors, seen <- outerSeen

Inner == INSTANCE JWTVerifier WITH
    Tokens <- {}, Methods <- Algorithms, Registries <- KeySources,
    registry <- keySource, pc <- innerPc, calls <- innerCalls, token <- inner,
    key <- innerKey, errors <- innerErrors, seen <- innerSeen

ASSUME NestedAssumption ==
    /\ StrangeContents \subseteq Inner!TokenType
    /\ ClaimsPool \subseteq Inner!ClaimSets
    /\ TokenSize \in Nat \ {0} /\ MaxTokens \in Nat

\* As in JWTVerifier, JWEDecrypter and JWEHeaders.
ASSUME LayersAssumption ==
    /\ {Absent, Unreadable} \cap Int = {} /\ Times \subseteq Int
    /\ NoText \notin Texts
    /\ NotAString \notin AnyKeyID \cup Texts \cup {NoText}
    /\ Unfit \notin Texts \cup {NoText, NotAString} /\ Deflate \in Texts
    /\ Configurations \subseteq {c \in Inner!Configs : c.methods # {}}
    /\ MaxTokenSize \in Nat \ {0}
    /\ NilKey \notin Keys
    /\ {KeyAlgorithms, ContentEncryptions} \subseteq SUBSET Texts

\* Keys are made by the constructors; a backend's public key is its own.
ASSUME IssuerAssumption ==
    /\ \A k \in SigningKeys :
          \E id \in AnyKeyID, method \in Algorithms \cup {NoAlgorithm},
             m \in DOMAIN PublicOf :
             k \in {NewSigningKey(id, method, m).key,
                   NewExternalSigningKey(id, method, PublicOf[m], m).key}
    /\ SignerOptions \subseteq Seq(Options)
    /\ OuterOptions \subseteq {o \in Seq(Sealer!Options) : Sealer!LeaveZip(o)}
    /\ Recipient \in [alg : Texts \cup {NoText}, kid : Texts \cup {NoText},
                      buffer : Sealer!Buffers]
    /\ Encryption \in Texts \cup {NoText}

Encrypter(options) ==
    Sealer!NewEncrypter(FALSE, Encryption, <<Recipient>>, options, Memory)

\* Mutant: an encrypter without cty passes.
ValidNestedIssuerUnlabelled(encrypter) == encrypter.config.policy.cty \in {NoText, JWT}

\* NewNestedIssuer.
ValidNestedIssuer(encrypter) == encrypter.config.policy.cty = JWT

\* NewNestedVerifier.
ValidNestedVerifier(d) == d.policy.cty \in {NoText, JWT}

Plaintext(t) == [id |-> t, size |-> t.size, packed |-> 1]
NoAuthData == [id |-> NilKey, size |-> 0]
Sealed(encrypter, t) ==
    Sealer!Encrypted(encrypter, Plaintext(t), NoAuthData, Memory)

-----------------------------------------------------------------------------
Init ==
    /\ \E k \in SigningKeys, s \in SignerOptions, o \in OuterOptions :
          /\ ValidSigner(k, s)
          /\ Sealer!ValidEncrypter(FALSE, Encryption, <<Recipient>>, o, Memory)
          /\ issuer = [signer |-> NewSigner(k, s), encrypter |-> Encrypter(o)]
    /\ ValidNestedIssuer(issuer.encrypter)
    /\ wire = {}
    /\ stage = [c \in Callers |-> "idle"]
    /\ verdict = [c \in Callers |-> {}]
    /\ returned = [c \in Callers |-> {}]
    /\ Outer!Init /\ ValidNestedVerifier(decrypter)
    /\ Inner!Init

\* Issue; an error of either layer leaves nothing.
Issue ==
    /\ Cardinality(wire) < MaxTokens
    /\ SignErrors(issuer.signer, TokenSize) = {}
    /\ \E cs \in ClaimsPool :
          LET t == Signed(issuer.signer, cs, TokenSize) IN
          /\ Sealer!EncryptErrors(issuer.encrypter, Plaintext(t), NoAuthData,
                                  Memory) = {}
          /\ wire' = wire \cup {[outer |-> Sealed(issuer.encrypter, t),
                                 origin |-> "issuer"]}
    /\ UNCHANGED <<issuer, stage, verdict, returned, outerVars, innerVars>>

\* A stranger seals something, with or without cty.
Forward ==
    /\ Cardinality(wire) < MaxTokens
    /\ \E options \in OuterOptions,
          t \in StrangeContents \cup {v.outer.content : v \in wire} :
          /\ Sealer!ValidOptions(options)
          /\ wire' = wire \cup {[outer |-> Sealed(Encrypter(options), t),
                                 origin |-> "stranger"]}
    /\ UNCHANGED <<issuer, stage, verdict, returned, outerVars, innerVars>>

Alter(v) ==
    /\ wire' = (wire \ {v}) \cup {[v EXCEPT !.outer.intact = FALSE,
                                            !.origin = "altered"]}
    /\ UNCHANGED <<issuer, stage, verdict, returned, outerVars, innerVars>>

\* VerifyToken: its call of DecryptToken.
VerifyToken(c, v) ==
    /\ stage[c] \in {"idle", "done"}
    /\ Outer!DecryptToken(c, v.outer)
    /\ stage' = [stage EXCEPT ![c] = "outer"]
    /\ verdict' = [verdict EXCEPT ![c] = {}]
    /\ returned' = [returned EXCEPT ![c] = {}]
    /\ UNCHANGED <<issuer, wire, innerVars>>

Decrypt(c) ==
    /\ stage[c] = "outer"
    /\ Outer!Step(c)
    /\ UNCHANGED <<nestedVars, innerVars>>

\* The header DecryptToken returned.
ContentType(c) ==
    Outer!Text(Outer!RecipientHeader(outer[c], index[c]), "cty")

\* The outer layer failed, or holds no JWT.
RefuseOuter(c) ==
    /\ stage[c] = "outer"
    /\ \/ /\ outerPc[c] = "rejected"
          /\ verdict' = [verdict EXCEPT ![c] = outerErrors[c]]
       \/ /\ outerPc[c] = "decrypted" /\ ContentType(c) # JWT
          /\ verdict' = [verdict EXCEPT ![c] = {"ErrUnexpectedContentType"}]
    /\ stage' = [stage EXCEPT ![c] = "done"]
    /\ UNCHANGED <<issuer, wire, returned, outerVars, innerVars>>

\* The JWT verifier is called with the plaintext, and claims that are not nil.
OpenInner(c) ==
    /\ stage[c] = "outer"
    /\ outerPc[c] = "decrypted" /\ ContentType(c) = JWT
    /\ Inner!VerifyToken(c, outer[c].content)
    /\ stage' = [stage EXCEPT ![c] = "inner"]
    /\ UNCHANGED <<issuer, wire, verdict, returned, outerVars>>

VerifyInner(c) ==
    /\ stage[c] = "inner"
    /\ Inner!Step(c)
    /\ UNCHANGED <<nestedVars, outerVars>>

\* The headers DecryptToken and the JWT verifier returned.
Headers(c) == [jwe |-> Outer!RecipientHeader(outer[c], index[c]),
               jwt |-> inner[c].header]

\* Mutant: the headers come with the JWT verifier's error, too.
ReturnHeaders(c) ==
    /\ stage[c] = "inner" /\ innerPc[c] \in {"accepted", "rejected"}
    /\ verdict' = [verdict EXCEPT ![c] = innerErrors[c]]
    /\ returned' = [returned EXCEPT ![c] = {Headers(c)}]
    /\ stage' = [stage EXCEPT ![c] = "done"]
    /\ UNCHANGED <<issuer, wire, outerVars, innerVars>>

Return(c) ==
    /\ stage[c] = "inner" /\ innerPc[c] \in {"accepted", "rejected"}
    /\ verdict' = [verdict EXCEPT ![c] = innerErrors[c]]
    /\ returned' = [returned EXCEPT ![c] =
                      IF innerErrors[c] = {} THEN {Headers(c)} ELSE {}]
    /\ stage' = [stage EXCEPT ![c] = "done"]
    /\ UNCHANGED <<issuer, wire, outerVars, innerVars>>

\* The environment.
RotateDecryptionKeys == Outer!ChangeRegistry /\ UNCHANGED <<nestedVars, innerVars>>
RotateVerificationKeys ==
    Inner!ChangeRegistry /\ UNCHANGED <<nestedVars, outerVars>>
Tick == Inner!MoveClock /\ clock' > clock /\ UNCHANGED <<nestedVars, outerVars>>

Call(c) == Decrypt(c) \/ RefuseOuter(c) \/ OpenInner(c) \/ VerifyInner(c) \/ Return(c)

Next ==
    \/ Issue \/ Forward
    \/ \E v \in wire : Alter(v) \/ \E c \in Callers : VerifyToken(c, v)
    \/ \E c \in Callers : Call(c)
    \/ RotateDecryptionKeys \/ RotateVerificationKeys \/ Tick

Spec == Init /\ [][Next]_vars

-----------------------------------------------------------------------------
\* r answers the outer header with the key that opens the unaltered token.
OpenedBy(r, t) ==
    LET answer == Outer!Answer(r, Outer!SharedHeader(t)) IN
    /\ answer.errors = {} /\ t.intact
    /\ t.recipients[1].key = answer.key /\ Outer!Truthful(t, 1)

\* The outer layer of the token in hand is authentic, within the decrypter's
\* policy and labelled as a JWT in its protected header.
OuterHolds(c) ==
    /\ \E r \in outerSeen[c] : OpenedBy(r, outer[c])
    /\ Outer!Text(outer[c].protected, "cty") = JWT
    /\ decrypter.policy.typ \in {NoText, Outer!Text(outer[c].protected, "typ")}
    /\ outer[c].plaintext <= decrypter.maxPlaintextSize

\* Its inner layer was signed by a key trusted for its header and algorithm.
InnerSigned(c) ==
    LET t == outer[c].content IN
    \E r \in innerSeen[c] :
        LET answer == Inner!Answer(r, t.header) IN
        /\ answer.errors = {}
        /\ answer.key.material = t.signer /\ answer.key.method = t.header.alg

\* The inner token had not expired at some reading of the clock.
InnerTimely(c) ==
    \E now \in clocks[c] : now < outer[c].content.claims.exp + config.leeway

\* "Claims are accepted only after both layers and every configured JWE and
\* JWT policy succeed" (DESIGN.md:535-536): each layer by keys in force while
\* the call looked, the claims those of the very token that was decrypted,
\* whoever sealed it, and whatever an earlier call left behind in the two
\* components and in the claims value. If the token says when it expires, it
\* was in time.
AcceptedByBothLayers ==
    \A c \in Callers : stage[c] = "done" /\ verdict[c] = {} =>
        /\ OuterHolds(c) /\ InnerSigned(c)
        /\ outer[c].content.claims.exp # Absent => InnerTimely(c)
        /\ inner[c] = outer[c].content
        /\ blank[c] => claims[c] = outer[c].content.claims

\* The caller's claims are not touched by a token whose outer layer fails in
\* any way, at whichever moment it does: what is found in them after a failed
\* call had at least been sealed for this recipient as a JWT.
ClaimsNeedTheOuterLayer ==
    [][\A c \in Callers : claims'[c] # claims[c] => OuterHolds(c)]_vars

\* A VerifiedToken is handed out only when the call is through without error,
\* and its headers are those in which the two keys found what they vouch for:
\* the protected header of the outer token, that of the inner one. No header
\* of a token that failed in either layer reaches the caller, nor one of an
\* earlier call.
ReturnedHeadersAreVouched ==
    \A c \in Callers : \A headers \in returned[c] :
        /\ stage[c] = "done" /\ verdict[c] = {}
        /\ headers = [jwe |-> outer[c].protected, jwt |-> outer[c].content.header]
        /\ OuterHolds(c) /\ InnerSigned(c)

\* Both sides agree on the algorithms, typ, compression and limits of both
\* layers, and extra headers name none of the parameters the encrypter sets.
Agreement ==
    LET outerConfig == issuer.encrypter.config IN
    /\ {"alg", "enc", "zip", "crit"} \cap DOMAIN outerConfig.extra = {}
    /\ Recipient.alg \in KeyAlgorithms /\ Encryption \in ContentEncryptions
    /\ \A n \in {"typ", "cty"} :
          n \in DOMAIN outerConfig.extra =>
             outerConfig.extra[n] = outerConfig.policy[n]
    /\ decrypter.policy.typ \in {NoText, outerConfig.policy.typ}
    /\ outerConfig.policy.compression \in {NoText, decrypter.policy.compression}
    /\ outerConfig.maxTokenSize <= decrypter.maxTokenSize
    /\ outerConfig.maxPlaintextSize <= decrypter.maxPlaintextSize
    /\ config.typ \in {NoText, issuer.signer.typ}
    /\ issuer.signer.key.method \in config.methods
    /\ TokenSize <= MaxTokenSize

\* Whatever the NestedIssuer makes, a NestedVerifier verifies that agrees with
\* it and whose two key sources know its keys throughout the call, while the
\* claims satisfy the policy: what one layer adds the other does not take for
\* its own.
IssuedTokensVerify ==
    \A c \in Callers, v \in wire :
        /\ stage[c] = "done" /\ outer[c] = v.outer /\ v.origin = "issuer"
        /\ Agreement
        /\ \A r \in outerSeen[c] :
              Outer!Answer(r, Outer!SharedHeader(v.outer))
                 = [errors |-> {}, key |-> v.outer.recipients[1].key]
        /\ \A r \in innerSeen[c] :
              Inner!Answer(r, v.outer.content.header)
                 = [errors |-> {}, key |-> issuer.signer.key.verification]
        /\ \A now \in clocks[c] :
              /\ Inner!ClaimsErrors(config, claims[c], now) = {}
              /\ Inner!ValidateLifetime(config, claims[c], now) = "none"
        => verdict[c] = {}
=============================================================================
