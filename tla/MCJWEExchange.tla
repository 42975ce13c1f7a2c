--------------------------- MODULE MCJWEExchange ---------------------------
(* An instance of JWEExchange for TLC.                                     *)
EXTENDS JWEExchange

CONSTANTS rsa, dir, a256, old, new, jwe, json, other, k1, k2, b1, b2, b3,
          p1, p2, p3, a1, noAuth, deflate

Typ(v) == [set |-> "typ", value |-> v]
Cty(v) == [set |-> "cty", value |-> v]
Compression == [set |-> "compression", value |-> Deflate]
With(n, v) == [set |-> "header", name |-> n, value |-> v]

\* Headers before and after the options they contradict, limits, crit, and
\* an algorithm the decrypter allows and the encrypter did not use.
MCOptionLists ==
    {<<>>, <<With("alg", dir)>>, <<Typ(jwe), Cty(json), With("keyset", old)>>,
     <<With("typ", other), Typ(jwe), With("keyset", new)>>,
     <<Cty(json), With("cty", other), With("cty", json)>>,
     <<Cty(json), With("cty", other), Compression>>,
     <<Compression, [set |-> "maxPlaintextSize", value |-> 2],
       [set |-> "maxTokenSize", value |-> 3], With("crit", other)>>,
     <<Compression, [set |-> "maxTokenSize", value |-> 3], With("keyset", old)>>}

For(alg, kid, buffer) == [alg |-> alg, kid |-> kid, buffer |-> buffer]
MCRecipientLists ==
    {<<>>, <<For(rsa, old, b1)>>, <<For(dir, NoText, b2)>>, <<For(rsa, new, b3)>>,
     <<For(rsa, old, b1), For(rsa, new, b3)>>}

MCKeyKinds == b1 :> "bytes" @@ b2 :> "jwk" @@ b3 :> "object"
MCInitialMemory == b1 :> k1 @@ b2 :> k1 @@ b3 :> k2

MCPlaintexts == {[id |-> p1, size |-> 1, packed |-> 1],
                 [id |-> p2, size |-> 3, packed |-> 1],
                 [id |-> p3, size |-> 0, packed |-> 1]}
MCAuthData == {[id |-> a1, size |-> 1], [id |-> noAuth, size |-> 0]}

MCUnprotected == {"typ" :> jwe, "keyset" :> new}

By(n, ks) == [by |-> n, keys |-> ks, errors |-> {"other"}]
MCRegistries == {By("nothing", NoText :> k1),
                 By("keyset", old :> k1 @@ new :> k2),
                 By("kid", old :> k2 @@ new :> k2)}
=============================================================================
