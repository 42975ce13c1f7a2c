----------------------------- MODULE JWTSigners -----------------------------
(***************************************************************************)
(* jwt.SigningKey and jwt.Signer (jwt/key.go, jwt/signer.go): the keys an  *)
(* issuer builds, the signer it configures with them and the token that    *)
(* signer makes of a set of claims.                                        *)
(*                                                                         *)
(* A SigningKey is a record [id, method, local, backend, verification]:    *)
(* local is the key itself, backend the key an external SignFunc uses;     *)
(* one of them is NilMaterial. What verifies the signatures of some        *)
(* material is PublicOf of it, the material itself if that is a secret.    *)
(***************************************************************************)
EXTENDS JWTKeys, SequencesExt

CONSTANTS
    Texts, NoText,      \* typ values and the empty text, see JWTPolicy
    DefaultType,        \* the text JWT
    DefaultTokenSize,   \* DefaultMaxTokenSize
    PublicOf,           \* NilMaterial where a crypto.Signer has no public key
    Suits               \* the algorithms golang-jwt signs with each material for

ASSUME SignersAssumption ==
    /\ DefaultType \in Texts
    /\ DefaultTokenSize \in Nat \ {0}
    /\ DOMAIN PublicOf \subseteq Material /\ DOMAIN Suits = DOMAIN PublicOf
    /\ \A m \in DOMAIN PublicOf : /\ PublicOf[m] \in Material \cup {NilMaterial}
                                  /\ Suits[m] \subseteq Algorithms

-----------------------------------------------------------------------------
(* Signing keys.                                                           *)

ZeroSigningKey == [id |-> NoKeyID, method |-> NoAlgorithm, local |-> NilMaterial,
                   backend |-> NilMaterial, verification |-> ZeroKey]

\* The error, and the signing key without one, for a verification key.
Signing(verification, local, backend) ==
    [error |-> verification.error,
     key |-> IF verification.error # "none" THEN ZeroSigningKey
             ELSE [id |-> verification.key.id, method |-> verification.key.method,
                   local |-> local, backend |-> backend,
                   verification |-> verification.key]]

NewSigningKey(id, method, material) ==
    Signing(NewVerificationKey(id, method, IF material = NilMaterial THEN NilMaterial
                                           ELSE PublicOf[material]),
            material, NilMaterial)

\* backend is NilMaterial without a SignFunc.
NewExternalSigningKey(id, method, public, backend) ==
    IF backend = NilMaterial /\ id \notin OverlongKeyIDs
    THEN [error |-> "ErrInvalidKey", key |-> ZeroSigningKey]
    ELSE Signing(NewVerificationKey(id, method, public), NilMaterial, backend)

\* SigningKey.validate.
ValidSigningKey(key) ==
    /\ key.method # NoAlgorithm
    /\ (key.local = NilMaterial) # (key.backend = NilMaterial)
    /\ Initialized(key.verification)
    /\ key.id = key.verification.id
    /\ key.method = key.verification.method

-----------------------------------------------------------------------------
(* Signers: [key, typ, maxSize]. An option is a record [set, value].       *)

Options == [set : {"type"}, value : Texts \cup {NoText}] \cup
           [set : {"maxTokenSize"}, value : Int]

ValidSignerOption(option) ==
    \/ option.set = "type" /\ option.value \in Texts
    \/ option.set = "maxTokenSize" /\ option.value > 0

ApplySigner(signer, option) ==
    IF option.set = "type" THEN [signer EXCEPT !.typ = option.value]
                           ELSE [signer EXCEPT !.maxSize = option.value]

ValidSigner(key, options) ==
    /\ ValidSigningKey(key)
    /\ \A i \in DOMAIN options : ValidSignerOption(options[i])

NewSigner(key, options) ==
    FoldLeft(ApplySigner,
             [key |-> key, typ |-> DefaultType, maxSize |-> DefaultTokenSize],
             options)

\* applyHeaders, over the typ and alg of golang-jwt's NewWithClaims.
SignerHeader(signer) ==
    [alg |-> signer.key.method, kid |-> signer.key.id, typ |-> signer.typ,
     extra |-> {}]

\* The material signInput uses.
SignsWith(key) == IF key.backend = NilMaterial THEN key.local ELSE key.backend

\* The compact token, of some size, as a verifier sees it.
Signed(signer, claims, size) ==
    [size |-> size, wellFormed |-> TRUE, header |-> SignerHeader(signer),
     claims |-> claims, encoded |-> TRUE, signer |-> PublicOf[SignsWith(signer.key)]]

\* Sign's errors that are not an external backend's own.
SignErrors(signer, size) ==
    IF signer.key.method \notin Suits[SignsWith(signer.key)] THEN {"ErrSign"}
    ELSE IF size > signer.maxSize THEN {"ErrTokenTooLarge"}
    ELSE {}
=============================================================================
