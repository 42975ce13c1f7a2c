---------------------------- MODULE JWSResolvers ----------------------------
(***************************************************************************)
(* The resolvers NewVerifier and NewMultiVerifier make of static key       *)
(* material (jws/resolver.go). A key argument is a record whose "kind"     *)
(* tells its Go type:                                                      *)
(*   [kind |-> "nil"]                  nil, or a nil pointer               *)
(*   [kind |-> "raw", material]        a raw key, secret, opaque verifier  *)
(*   [kind |-> "jwk", jwk]             jose.JSONWebKey                     *)
(*   [kind |-> "jwks", keys]           jose.JSONWebKeySet                  *)
(* A canonical identity is a kid value; NoKid is the empty one.            *)
(***************************************************************************)
EXTENDS JWSHeaders, Sequences, FiniteSets

CONSTANTS
    ByteMaterial,       \* []byte and ed25519.PrivateKey values
    SharedMaterial,     \* every other key object, ed25519.PublicKey included
    NilMaterial

ASSUME MaterialAssumption ==
    /\ ByteMaterial \cap SharedMaterial = {}
    /\ NilMaterial \notin ByteMaterial \cup SharedMaterial

Material == ByteMaterial \cup SharedMaterial

JWKs == [material : Material \cup {NilMaterial}, keyID : KeyHints \cup {NoKid},
         alg : Algorithms \cup {NoAlgorithm}, use : {"", "sig", "enc"}]

\* What Resolve returns: an error, or a ResolvedKey.
Replies == [error : {"none", "ErrKeyNotFound", "ErrInvalidConfig", "other"},
            keyID : KeyHints \cup {NoKid}, material : Material \cup {NilMaterial}]

Found(keyID, material) ==
    [error |-> "none", keyID |-> keyID, material |-> material]
Failure(error) == [error |-> error, keyID |-> NoKid, material |-> NilMaterial]

\* newStaticResolver; a JWKS is never refused, even an empty one.
ValidKeyArgument(key) ==
    /\ key.kind # "nil"
    /\ key.kind = "raw" => key.material # NilMaterial
    /\ key.kind = "jwk" => key.jwk.material # NilMaterial

NeverCloned(material) == FALSE  \* Mutant: keys are kept by reference.

\* cloneKeyMaterial: the resolver's copy is not the caller's value any more.
Cloned(material) == material \in ByteMaterial

-----------------------------------------------------------------------------
Usable(jwk) == jwk.use \in {"", "sig"}
ForAlgorithm(jwk, alg) == jwk.alg \in {NoAlgorithm, alg}

JWKResolve(jwk, header) ==
    IF /\ NoKid \in {header.kid, jwk.keyID} \/ header.kid = jwk.keyID
       /\ ForAlgorithm(jwk, header.alg)
       /\ Usable(jwk)
    THEN Found(jwk.keyID, jwk.material)
    ELSE Failure("ErrKeyNotFound")

\* The keys newJWKSResolver files under the header's kid, those restricted
\* to another algorithm left out.
Matches(keys, header) ==
    {i \in DOMAIN keys : /\ keys[i].keyID = header.kid
                         /\ keys[i].keyID # NoKid
                         /\ keys[i].material # NilMaterial
                         /\ Usable(keys[i])
                         /\ ForAlgorithm(keys[i], header.alg)}

\* Mutant: the first match is taken.
JWKSResolveFirst(keys, header) ==
    LET matches == Matches(keys, header) IN
    IF matches = {} THEN Failure("ErrKeyNotFound")
    ELSE LET i == CHOOSE i \in matches : \A j \in matches : i <= j IN
         Found(keys[i].keyID, keys[i].material)

JWKSResolve(keys, header) ==
    LET matches == Matches(keys, header) IN
    IF matches = {} THEN Failure("ErrKeyNotFound")
    ELSE IF Cardinality(matches) > 1 THEN Failure("ErrInvalidConfig")
    ELSE LET i == CHOOSE i \in matches : TRUE IN
         Found(keys[i].keyID, keys[i].material)

StaticResolve(key, header) ==
    CASE key.kind = "raw" -> Found(NoKid, key.material)
      [] key.kind = "jwk" -> JWKResolve(key.jwk, header)
      [] key.kind = "jwks" -> JWKSResolve(key.keys, header)
=============================================================================
