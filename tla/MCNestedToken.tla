--------------------------- MODULE MCNestedToken ---------------------------
(* An instance of NestedToken for TLC.                                     *)
EXTENDS NestedToken

CONSTANTS c1, es256, hs512, kidA, anon, none, jwt, jwe, other, rsa, a256, deflate,
          privA, pubA, privB, pubB, k1, k2, b1, noAlg

MCPublicOf == privA :> pubA @@ privB :> pubB
MCSuits == privA :> {es256} @@ privB :> {es256}
MCKeyKinds == b1 :> "jwk"
MCMemory == b1 :> k1

keyA == NewSigningKey(kidA, es256, privA).key
MCSigningKeys == {keyA}
MCSignerOptions == {<<>>}

Typ(v) == [set |-> "typ", value |-> v]
Cty(v) == [set |-> "cty", value |-> v]
With(n, v) == [set |-> "header", name |-> n, value |-> v]

\* With and without cty and typ; compressed, cty contradicted; with a limit
\* the JWT exceeds.
Labelled == <<Cty(JWT)>>
Tight == <<Cty(JWT), [set |-> "maxPlaintextSize", value |-> 1]>>
MCOuterOptions ==
    {Labelled, <<>>, Tight, <<Cty(JWT), Typ(jwe), With("kid", kidA)>>,
     <<[set |-> "compression", value |-> Deflate], Cty(JWT), With("cty", other)>>}

MCRecipient == [alg |-> rsa, kid |-> other, buffer |-> b1]

P == INSTANCE JWTPolicy WITH Methods <- Algorithms
MCConfigurations == {[P!DefaultConfig EXCEPT !.methods = {es256}]}

Claims(exp) == [Inner!NewClaims EXCEPT !.exp = exp]
MCClaimsPool == {Claims(1), Claims(Absent)}

\* A JWT of the stranger's own, with the issuer's kid, and no JWT at all.
MCStrangeContents ==
    LET own == [Signed(NewSigner(keyA, <<>>), Claims(1), 2)
                   EXCEPT !.signer = pubB] IN
    {own, [own EXCEPT !.wellFormed = FALSE]}

By(n, ks) == [by |-> n, keys |-> ks, errors |-> {"other"}]
MCRegistries == {By("nothing", none :> k1), By("kid", other :> k2)}
MCKeySources == {[kind |-> "static", keys |-> <<keyA.verification>>],
                 [kind |-> "failing", errors |-> {"ErrKeyUnavailable"}]}

-----------------------------------------------------------------------------
(* The run explores one call on everything above but tokens without exp,   *)
(* one JWT in one or two outer tokens, and a second call, with the claims  *)
(* value of the first, when the outer layer has one of three plain         *)
(* configurations, no keys are replaced and no token is altered.           *)

OneCall ==
    /\ \A c \in Callers : outerCalls[c] <= 1
    /\ \A v, w \in wire : /\ v.outer.content.claims = Claims(1)
                           /\ v.outer.content = w.outer.content
    /\ decrypter.maxPlaintextSize > 1 /\ issuer.encrypter.config.maxPlaintextSize > 1

PlainOptions == {Labelled, <<>>, Tight}
PlainConfigs == {Sealer!MakeConfig(o) : o \in PlainOptions}
PlainHeaders == {Sealer!ProtectedHeader(Encrypter(o)) : o \in PlainOptions}

TwoCalls ==
    /\ registry.by = "nothing" /\ keySource.kind = "static"
    /\ issuer.encrypter.config = Sealer!MakeConfig(Labelled)
    /\ \E p \in PlainConfigs : /\ decrypter.policy = p.policy
                              /\ decrypter.maxPlaintextSize = p.maxPlaintextSize
    /\ \A v \in wire : v.outer.protected \in PlainHeaders /\ v.origin # "altered"
    /\ \A c \in Callers : outerSeen[c] \subseteq {registry} /\ innerSeen[c] \subseteq {keySource}

Explored == OneCall \/ TwoCalls

\* Next, with the environment kept to these parts; tokens are made and altered
\* between the calls, and the keys and the clock move during a call, as they
\* have any value at its beginning.
Between == \A c \in Callers : stage[c] \in {"idle", "done"}

MCNext ==
    \/ \E c \in Callers : Call(c)
    \/ Between /\ (Issue \/ Forward \/ \E v \in wire : Alter(v)) /\ Explored'
    \/ \E v \in wire, c \in Callers : VerifyToken(c, v) /\ Explored'
    \/ ~ Between /\ (RotateDecryptionKeys \/ RotateVerificationKeys \/ Tick)
       /\ Explored'

MCSpec == Init /\ [][MCNext]_vars
=============================================================================
