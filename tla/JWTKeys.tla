------------------------------- MODULE JWTKeys -------------------------------
(***************************************************************************)
(* Verification keys and the resolvers that choose among them: jwt's       *)
(* VerificationKey and StaticKeySet (jwt/key.go, jwt/keyset.go), jwk's     *)
(* Set and the conversions between the two (jwk/key.go, jwk/set.go).       *)
(*                                                                         *)
(* A signing method is identified with its alg value. A VerificationKey    *)
(* is a record [id, method, material]; a JWK is [material, keyID, alg,     *)
(* use]. A resolver's answer is a record [error, key]; error is "none"     *)
(* when there is a key.                                                    *)
(***************************************************************************)
EXTENDS Integers, Sequences

CONSTANTS
    Algorithms,         \* alg values golang-jwt has a signing method for
    UnknownAlgorithms,  \* other alg values
    NoAlgorithm,        \* the empty alg; the nil signing method
    KeyIDs,             \* kid values of 1 to 256 bytes
    OverlongKeyIDs,     \* longer ones
    NoKeyID,            \* the empty kid
    PublicMaterial,     \* asymmetric public keys
    OtherMaterial,      \* HMAC secrets, private keys, invalid curve points
    NilMaterial

ASSUME KeysAssumption ==
    /\ NoKeyID \notin KeyIDs \cup OverlongKeyIDs
    /\ KeyIDs \cap OverlongKeyIDs = {}
    /\ NoAlgorithm \notin Algorithms \cup UnknownAlgorithms
    /\ Algorithms \cap UnknownAlgorithms = {}
    /\ PublicMaterial \cap OtherMaterial = {}
    /\ NilMaterial \notin PublicMaterial \cup OtherMaterial

Material == PublicMaterial \cup OtherMaterial
AnyKeyID == KeyIDs \cup OverlongKeyIDs \cup {NoKeyID}

VerificationKeys == [id : AnyKeyID, method : Algorithms \cup {NoAlgorithm},
                     material : Material \cup {NilMaterial}]

JWKs == [material : Material \cup {NilMaterial}, keyID : AnyKeyID,
         alg : Algorithms \cup UnknownAlgorithms \cup {NoAlgorithm},
         use : {"", "sig", "enc"}]

ZeroKey == [id |-> NoKeyID, method |-> NoAlgorithm, material |-> NilMaterial]

Found(key) == [error |-> "none", key |-> key]
Failure(error) == [error |-> error, key |-> ZeroKey]

Holds(keys, key) == \E i \in DOMAIN keys : keys[i] = key

\* What the resolvers here answer; an application's may answer more.
ResolveErrors == {"ErrMissingKeyID", "ErrUnknownKey", "ErrUnexpectedAlgorithm",
                  "ErrInvalidKey", "ErrInvalidKeyID"}

-----------------------------------------------------------------------------
(* jwt.VerificationKey.                                                    *)

Initialized(key) == key.method # NoAlgorithm /\ key.material # NilMaterial

\* NewVerificationKey's validations.
NewVerificationKey(id, method, material) ==
    IF id \in OverlongKeyIDs THEN Failure("ErrInvalidKeyID")
    ELSE IF method = NoAlgorithm \/ material = NilMaterial
         THEN Failure("ErrInvalidKey")
    ELSE Found([id |-> id, method |-> method, material |-> material])

ResolveKey(key, header) ==
    IF ~ Initialized(key) THEN Failure("ErrInvalidKey")
    ELSE IF key.id # NoKeyID /\ header.kid = NoKeyID
         THEN Failure("ErrMissingKeyID")
    ELSE IF header.kid # key.id THEN Failure("ErrUnknownKey")
    ELSE IF header.alg # key.method THEN Failure("ErrUnexpectedAlgorithm")
    ELSE Found(key)

-----------------------------------------------------------------------------
(* jwt.StaticKeySet: a sequence of keys NewStaticKeySet accepts.           *)

ValidStaticKeySetOrDuplicates(keys) ==
    /\ keys # <<>>
    /\ \A i \in DOMAIN keys : Initialized(keys[i])
    /\ \A i \in DOMAIN keys : keys[i].id = NoKeyID => Len(keys) = 1

ValidStaticKeySet(keys) ==
    /\ keys # <<>>
    /\ \A i \in DOMAIN keys : Initialized(keys[i])
    /\ \A i \in DOMAIN keys : keys[i].id = NoKeyID => Len(keys) = 1
    /\ \A i, j \in DOMAIN keys : keys[i].id = keys[j].id => i = j

\* Mutant: the key published last is tried, whatever the kid.
StaticResolveNewest(keys, header) == ResolveKey(keys[Len(keys)], header)

StaticResolve(keys, header) ==
    LET named == {i \in DOMAIN keys : keys[i].id = header.kid} IN
    IF keys[1].id = NoKeyID THEN ResolveKey(keys[1], header)
    ELSE IF header.kid = NoKeyID THEN Failure("ErrMissingKeyID")
    ELSE IF named = {} THEN Failure("ErrUnknownKey")
    ELSE ResolveKey(keys[CHOOSE i \in named : TRUE], header)

-----------------------------------------------------------------------------
(* jwk.Key.                                                                *)

ValidJWK(key) == key.material \in PublicMaterial

\* FromVerificationKey; only public keys can be exported.
Exportable(key) == Initialized(key) /\ key.material \in PublicMaterial

FromVerificationKey(key) ==
    [material |-> key.material, keyID |-> key.id, alg |-> key.method,
     use |-> "sig"]

ToVerificationKey(key, method) ==
    IF ~ ValidJWK(key) THEN Failure("ErrInvalidKey")
    ELSE IF key.use \notin {"", "sig"} THEN Failure("ErrInvalidKey")
    ELSE IF key.alg \notin {NoAlgorithm, method}
         THEN Failure("ErrUnexpectedAlgorithm")
    ELSE NewVerificationKey(key.keyID, method, key.material)

-----------------------------------------------------------------------------
(* jwk.Set: a sequence of JWKs newSet accepts.                             *)

ValidSet(keys) ==
    /\ keys # <<>>
    /\ \A i \in DOMAIN keys : ValidJWK(keys[i])
    /\ \A i \in DOMAIN keys : keys[i].keyID = NoKeyID => Len(keys) = 1
    /\ \A i, j \in DOMAIN keys : keys[i].keyID = keys[j].keyID => i = j

\* Mutant: alg is compared before the kid is looked up.
SetResolveAlgorithmFirst(keys, header) ==
    LET named == {i \in DOMAIN keys : keys[i].keyID = header.kid} IN
    IF header.alg \notin Algorithms THEN Failure("ErrUnexpectedAlgorithm")
    ELSE IF named # {}
         THEN ToVerificationKey(keys[CHOOSE i \in named : TRUE], header.alg)
    ELSE IF header.kid = NoKeyID THEN Failure("ErrMissingKeyID")
    ELSE Failure("ErrUnknownKey")

SetResolve(keys, header) ==
    LET named == {i \in DOMAIN keys : keys[i].keyID = header.kid} IN
    IF named = {}
    THEN Failure(IF header.kid = NoKeyID THEN "ErrMissingKeyID"
                                         ELSE "ErrUnknownKey")
    ELSE IF header.alg \notin Algorithms THEN Failure("ErrUnexpectedAlgorithm")
    ELSE ToVerificationKey(keys[CHOOSE i \in named : TRUE], header.alg)

\* FromStaticKeySet exports Keys(), sorted by id; the order decides nothing.
FromStaticKeySet(keys) ==
    [i \in DOMAIN keys |-> FromVerificationKey(keys[i])]
=============================================================================
