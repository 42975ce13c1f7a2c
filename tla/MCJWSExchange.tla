--------------------------- MODULE MCJWSExchange ---------------------------
(* An instance of JWSExchange for TLC.                                     *)
EXTENDS JWSExchange

CONSTANTS kidA, kidB, longKid, hs256, eddsa, jwt, other, none, noKid,
          secret, edKey, ecKey, otherEd, opaque,
          text, huge, empty

Typ(v) == [set |-> "typ", value |-> v]
Cty(v) == [set |-> "cty", value |-> v]
With(n, v) == [set |-> "header", name |-> n, value |-> v]
Limit(n, v) == [set |-> n, value |-> v]

MCDefaultLimits == [maxTokenSize |-> 9, maxPayloadSize |-> 9, maxSignatures |-> 2]
MCVerifierOptions == <<Limit("maxPayloadSize", 2), Typ(jwt), Limit("maxTokenSize", 3)>>
Agreed == MCVerifierOptions

\* Headers before and after the options they contradict; parameters of
\* go-jose's own; no limits; options that are refused.
MCOptionLists ==
    {Agreed, <<With("typ", other)>> \o Agreed, Agreed \o <<With("typ", other)>>,
     <<Typ(other), With("typ", jwt), Cty(other), Limit("maxPayloadSize", 2),
       Limit("maxTokenSize", 2)>>,
     Agreed \o <<With("kid", kidB)>>, Agreed \o <<With("b64", other)>>,
     Agreed \o <<With("b64", NotAString)>>, Agreed \o <<With("cty", NotAString)>>, <<Typ(jwt)>>,
     Agreed \o <<Limit("maxSignatures", 0)>>,
     Agreed \o <<[set |-> "policy", value |-> TRUE]>>}

MCSuits == secret :> {hs256} @@ edKey :> {eddsa} @@ ecKey :> {eddsa} @@ otherEd :> {eddsa}

JWK(kid, k) == [keyID |-> kid, material |-> k, alg |-> NoAlgorithm, use |-> ""]
Raw(k) == [kind |-> "raw", material |-> k]
Key(alg, kid, k) == [alg |-> alg, keyID |-> kid, key |-> k]

\* One key each; those refused at the end.
MCKeyLists ==
    {<<Key(eddsa, kidA, Raw(edKey))>>, <<Key(hs256, kidA, Raw(secret))>>,
     <<Key(eddsa, noKid, [kind |-> "jwk", jwk |-> JWK(kidA, edKey)])>>,
     <<Key(eddsa, noKid, [kind |-> "opaque"])>>,
     <<Key(eddsa, noKid, [kind |-> "jwk", jwk |-> JWK(longKid, ecKey)])>>,
     <<Key(eddsa, kidB, [kind |-> "jwk", jwk |-> JWK(kidA, edKey)])>>,
     <<Key(eddsa, kidA, [kind |-> "opaque"])>>,
     <<Key(hs256, noKid, Raw(edKey))>>, <<Key(hs256, noKid, [kind |-> "nil"])>>}

MCOpaqueKeys == {[keyID |-> kidB, material |-> ecKey], [keyID |-> kidA, material |-> otherEd]}

MCPayloadSize == text :> 1 @@ huge :> 3 @@ empty :> 0

MCResolvers ==
    {Raw(secret), [kind |-> "jwk", jwk |-> JWK(kidA, edKey)],
     [kind |-> "jwks", keys |-> <<JWK(kidB, ecKey), JWK(kidA, otherEd)>>],
     [kind |-> "function", answers |-> [k \in KeyHints \cup {NoKid} |->
        IF k = kidA THEN Found(kidA, edKey) ELSE Failure("other")]],
     [kind |-> "function", answers |-> [k \in KeyHints \cup {NoKid} |->
        IF k = kidB THEN Found(kidA, ecKey) ELSE Failure("ErrKeyNotFound")]]}
=============================================================================
