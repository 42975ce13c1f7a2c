----------------------------- MODULE JWSSigners -----------------------------
(***************************************************************************)
(* jws.Signer and jws.MultiSigner without their calls: the options of      *)
(* signers and verifiers (jws/options.go), signing keys (jws/key.go) and   *)
(* the signers the constructors make of them. The key of a SigningKey is a *)
(* record whose "kind" tells its Go type:                                  *)
(*   [kind |-> "nil"]             nil, or a nil *jose.JSONWebKey           *)
(*   [kind |-> "raw", material]   a raw key or secret                      *)
(*   [kind |-> "jwk", jwk]        jose.JSONWebKey; its material may be an  *)
(*                                opaque signer                            *)
(*   [kind |-> "opaque"]          a jose.OpaqueSigner                      *)
(* A material stands for both halves of a key pair.                        *)
(***************************************************************************)
EXTENDS JWSResolvers, SequencesExt

CONSTANTS
    SymmetricAlgorithms,    \* the HMAC ones
    Suits,          \* the algorithms go-jose takes each material for
    OpaqueMaterial, \* an opaque signer where a JWK's material is expected
    UnfitKids,      \* kid values over 256 bytes or not UTF-8
    DefaultLimits   \* [maxTokenSize, maxPayloadSize, maxSignatures]

ASSUME SignersAssumption ==
    /\ SymmetricAlgorithms \subseteq Algorithms
    /\ Suits \in [Material -> SUBSET Algorithms]
    /\ OpaqueMaterial \notin Material \cup {NilMaterial}
    /\ UnfitKids \subseteq KeyHints
    /\ DefaultLimits \in [{"maxTokenSize", "maxPayloadSize", "maxSignatures"} ->
                             Nat \ {0}]

-----------------------------------------------------------------------------
(* Options: records [set, value], with the name of the parameter as name   *)
(* for WithHeader's; a nil option sets nothing, and a policy's value tells *)
(* whether it is valid.                                                    *)

Limits == {"maxTokenSize", "maxPayloadSize", "maxSignatures"}

Options ==
    [set : {"typ", "cty"}, value : Texts \cup {NoText}] \cup
    [set : Limits, value : Int] \cup [set : {"policy"}, value : BOOLEAN] \cup
    [set : {"header"}, name : STRING \ {"kid"},
     value : Texts \cup {NoText, NotAString}] \cup
    [set : {"header"}, name : {"kid"}, value : KeyHints] \cup [set : {"nil"}]

ValidOption(option) ==
    CASE option.set \in {"typ", "cty"} -> option.value \in Texts
      [] option.set \in Limits -> option.value > 0
      [] option.set = "policy" -> option.value
      [] option.set = "header" -> TRUE
      [] option.set = "nil" -> FALSE

\* typ, cty and extra headers share one map.
Put(header, n, value) ==
    [m \in DOMAIN header \cup {n} |-> IF m = n THEN value ELSE header[m]]

SetHeader(config, n, value) == [config EXCEPT !.extra = Put(@, n, value)]

Apply(config, option) ==
    CASE option.set \in {"typ", "cty"} ->
            SetHeader([config EXCEPT ![option.set] = option.value],
                      option.set, option.value)
      [] option.set \in Limits -> [config EXCEPT ![option.set] = option.value]
      [] option.set = "policy" -> [config EXCEPT !.policySet = TRUE]
      [] option.set = "header" ->
            SetHeader([config EXCEPT !.customHeaderSet = TRUE],
                      option.name, option.value)

Unset == [n \in {} |-> NoText]

DefaultConfig ==
    [maxTokenSize |-> DefaultLimits.maxTokenSize,
     maxPayloadSize |-> DefaultLimits.maxPayloadSize,
     maxSignatures |-> DefaultLimits.maxSignatures,
     typ |-> NoText, cty |-> NoText, extra |-> Unset,
     customHeaderSet |-> FALSE, policySet |-> FALSE]

\* makeConfig: the first option refused ends it.
ValidOptions(options) == \A i \in DOMAIN options : ValidOption(options[i])
MakeConfig(options) == FoldLeft(Apply, DefaultConfig, options)

SignerConfig(config) == ~ config.policySet
VerifierConfig(config) == ~ config.customHeaderSet /\ ~ config.policySet
MultiVerifierConfig(config) == ~ config.customHeaderSet

-----------------------------------------------------------------------------
(* Signing keys: [alg, keyID, key].                                        *)

SigningKeys ==
    LET kids == KeyHints \cup {NoKid}
        algs == Algorithms \cup {NoAlgorithm}
        jwks == [material : Material \cup {NilMaterial, OpaqueMaterial},
                 keyID : kids, alg : algs, use : {"", "sig", "enc"}]
    IN [alg : algs, keyID : kids,
        key : [kind : {"nil", "opaque"}] \cup [kind : {"raw"}, material : Material]
              \cup [kind : {"jwk"}, jwk : jwks]]

ValidSigningKey(key) ==
    /\ key.alg # NoAlgorithm
    /\ key.key.kind # "nil"
    /\ key.keyID \notin UnfitKids

\* What buildKeyMaterial and mergeJWKMetadata refuse.
MaterialFits(key) ==
    /\ key.key.kind = "opaque" => key.keyID = NoKid
    /\ key.key.kind = "jwk" =>
          LET jwk == key.key.jwk IN
          /\ jwk.material \notin {OpaqueMaterial, NilMaterial}
          /\ NoKid \in {key.keyID, jwk.keyID} \/ key.keyID = jwk.keyID
          /\ jwk.alg \in {NoAlgorithm, key.alg}
          /\ jwk.use \in {"", "sig"}

MaterialOf(key) ==
    CASE key.key.kind = "raw" -> key.key.material
      [] key.key.kind = "jwk" -> key.key.jwk.material
      [] key.key.kind = "opaque" -> OpaqueMaterial

\* The metadata of the JWK that go-jose is given.
BuiltKid(key) ==
    IF key.keyID = NoKid /\ key.key.kind = "jwk" THEN key.key.jwk.keyID
                                                 ELSE key.keyID

\* go-jose takes the kid from a key's public half, which an HMAC key has not.
SentKid(key) == IF key.alg \in SymmetricAlgorithms THEN NoKid ELSE BuiltKid(key)

Build(key) == [alg |-> key.alg, kid |-> SentKid(key), material |-> MaterialOf(key)]

\* Whether go-jose takes it; an opaque signer is asked for its algorithms.
Supported(key, opaqueAlgorithms) ==
    key.alg \in IF key.key.kind = "opaque" THEN opaqueAlgorithms
                                           ELSE Suits[MaterialOf(key)]

-----------------------------------------------------------------------------
(* Signers: [multi, config, keys].                                         *)

\* Mutant: MultiSigner leaves the number of signatures to verifiers.
NewSignerErrorsUncounted(multi, keys, options, opaqueAlgorithms) ==
    IF \/ keys = <<>>
       \/ ~ ValidOptions(options) \/ ~ SignerConfig(MakeConfig(options))
       \/ \E i \in DOMAIN keys : \/ ~ ValidSigningKey(keys[i])
                                \/ ~ MaterialFits(keys[i])
                                \/ ~ Supported(keys[i], opaqueAlgorithms)
    THEN {"ErrInvalidConfig"} ELSE {}

\* NewSigner, which is given one key, and NewMultiSigner.
NewSignerErrors(multi, keys, options, opaqueAlgorithms) ==
    IF \/ keys = <<>>
       \/ ~ ValidOptions(options) \/ ~ SignerConfig(MakeConfig(options))
    THEN {"ErrInvalidConfig"}
    ELSE IF multi /\ Len(keys) > MakeConfig(options).maxSignatures
         THEN {"ErrTooManySignatures"}
    ELSE IF \A i \in DOMAIN keys : /\ ValidSigningKey(keys[i])
                                   /\ MaterialFits(keys[i])
                                   /\ Supported(keys[i], opaqueAlgorithms)
         THEN {}
    ELSE {"ErrInvalidConfig"}

NewSigner(multi, keys, options) ==
    [multi |-> multi, config |-> MakeConfig(options),
     keys |-> [i \in DOMAIN keys |-> Build(keys[i])]]

\* Mutant: the typ and cty options come after all extra headers.
SetHeadersTypedLast(config) ==
    LET typed == IF config.typ = NoText THEN config.extra
                                        ELSE Put(config.extra, "typ", config.typ)
    IN IF config.cty = NoText THEN typed ELSE Put(typed, "cty", config.cty)

SetHeaders(config) == config.extra

\* go-jose sets the headers it is given after its own alg and kid.
ProtectedHeader(config, alg, kid) ==
    LET header == SetHeaders(config)
        Value(n, own) == IF n \in DOMAIN header THEN header[n] ELSE own
    IN [alg |-> Value("alg", alg), kid |-> Value("kid", kid),
        typ |-> Value("typ", NoText), cty |-> Value("cty", NoText),
        extra |-> DOMAIN header \cap {"crit", "b64"},
        wellFormed |-> Value("kid", kid) \notin UnfitKids]
=============================================================================
