------------------------- MODULE MCJWSMultiExchange -------------------------
(* An instance of JWSMultiExchange for TLC.                                *)
EXTENDS JWSMultiExchange

CONSTANTS kidA, kidB, hs256, eddsa, jwt, other, none, noKid,
          secret, edKey, ecKey, opaque, text, huge

Typ(v) == [set |-> "typ", value |-> v]
With(n, v) == [set |-> "header", name |-> n, value |-> v]
Limit(n, v) == [set |-> n, value |-> v]

MCDefaultLimits == [maxTokenSize |-> 9, maxPayloadSize |-> 9, maxSignatures |-> 3]
MCVerifierOptions ==
    <<Limit("maxPayloadSize", 2), Limit("maxSignatures", 2), Typ(jwt)>>

MCSuits == secret :> {hs256} @@ edKey :> {eddsa} @@ ecKey :> {eddsa}
MCPayloadSize == text :> 1 @@ huge :> 3
MCOpaqueKeys == {[keyID |-> kidB, material |-> ecKey]}

\* Agreed and contradicted headers; more or fewer signatures than the
\* verifier takes.
MCOptionLists ==
    {MCVerifierOptions, MCVerifierOptions \o <<With("typ", other)>>,
     MCVerifierOptions \o <<With("kid", kidB)>>, <<Typ(jwt)>>,
     <<Limit("maxPayloadSize", 1), Limit("maxSignatures", 1), Typ(jwt)>>}

Raw(k) == [kind |-> "raw", material |-> k]
Key(alg, kid, k) == [alg |-> alg, keyID |-> kid, key |-> k]
Jwk(kid, k) == [kind |-> "jwk", jwk |-> [keyID |-> kid, material |-> k,
                                         alg |-> eddsa, use |-> "sig"]]

\* One to three keys, one of them twice, an HMAC key and an opaque one.
ed == Key(eddsa, kidA, Raw(edKey))
ec == Key(eddsa, noKid, Jwk(kidB, ecKey))
hmac == Key(hs256, kidB, Raw(secret))
remote == Key(eddsa, noKid, [kind |-> "opaque"])

MCKeyLists == {<<ed>>, <<ed, ec>>, <<ed, ed>>, <<hmac, ec>>, <<ed, remote>>,
                  <<ed, ec, hmac>>, <<ed, [ec EXCEPT !.alg = hs256]>>, <<>>}

AnyPolicy == [kind |-> "any"]
IDs(l) == [kind |-> "keyIDs", keyIDs |-> l]
ExactlyOne ==
    {s \in SeqOf([keyID : {kidA, kidB, noKid}, valid : BOOLEAN], 2) :
        Cardinality({i \in DOMAIN s : s[i].valid}) = 1}

\* Those of the package, and a function that wants exactly one valid.
MCPolicies ==
    {AnyPolicy, [kind |-> "all"], IDs(<<kidA, kidB>>),
     [kind |-> "threshold", minimum |-> 2, keyIDs |-> <<kidA, kidB>>],
     [kind |-> "allOf", policies |-> <<AnyPolicy, IDs(<<kidB>>)>>],
     [kind |-> "func", accepts |-> ExactlyOne]}

Known(id, k) == [status |-> "found", keyID |-> id, key |-> k]
Unknown == [status |-> "notFound", keyID |-> noKid, key |-> NilMaterial]
Registry(a, b, anonymous) ==
    [k \in {kidA, kidB, noKid} |->
        CASE k = kidA -> a [] k = kidB -> b [] OTHER -> anonymous]

\* All known; the verifier's own name for a key; one key unknown.
MCRegistries ==
    {Registry(Known(kidA, edKey), Known(kidB, ecKey), Known(noKid, secret)),
     Registry(Known(kidB, edKey), Known(kidB, ecKey), Unknown),
     Registry(Known(kidA, edKey), Unknown, Known(kidB, secret))}

\* Verifier and signers speak of the same keys and the same limits.
ASSUME ExchangeConfig
=============================================================================
