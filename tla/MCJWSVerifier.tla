---------------------------- MODULE MCJWSVerifier ----------------------------
(* Instances of JWSVerifier for TLC.                                       *)
EXTENDS JWSVerifierProps

CONSTANTS c1, c2, kidA, kidB, noKid, es256, eddsa, noAlg, none, jwt,
          rsaPub, edPub, secret, nilMaterial,
          text, other, huge, empty

Header(alg, kid) == [alg |-> alg, kid |-> kid, typ |-> jwt, cty |-> none,
                     extra |-> {}, wellFormed |-> TRUE]

Token(header, embedded, signed, signer) ==
    [size |-> 1, wellFormed |-> TRUE, header |-> header, embedded |-> embedded,
     signed |-> signed, signer |-> signer]

named == Token(Header(es256, kidA), text, text, rsaPub)
unnamed == Token(Header(es256, noKid), text, text, secret)
detached == Token(Header(eddsa, kidA), empty, text, secret)
emptySigned == Token(Header(eddsa, kidB), empty, empty, edPub)

MCTokens ==
    {named, unnamed, detached, emptySigned,
     [named EXCEPT !.signer = nilMaterial], [named EXCEPT !.signed = other],
     [named EXCEPT !.header.typ = none], [named EXCEPT !.header.extra = {"b64"}],
     [named EXCEPT !.embedded = huge, !.signed = huge],
     [named EXCEPT !.header.alg = noAlg], [named EXCEPT !.size = 3]}

JWK(keyID, material, alg, use) ==
    [material |-> material, keyID |-> keyID, alg |-> alg, use |-> use]

Raw(material) == [kind |-> "raw", material |-> material]
Single(jwk) == [kind |-> "jwk", jwk |-> jwk]
Set(keys) == [kind |-> "jwks", keys |-> keys]
Function(a, b, anon) ==
    [kind |-> "function",
     answers |-> [kid \in {kidA, kidB, noKid} |->
         CASE kid = kidA -> a [] kid = kidB -> b [] OTHER -> anon]]

rsaKey == JWK(kidA, rsaPub, es256, "sig")
hmacKey == JWK(kidA, secret, eddsa, "")
anyAlg == JWK(kidA, secret, noAlg, "sig")
encKey == JWK(kidA, rsaPub, es256, "enc")
anonymous == JWK(noKid, secret, noAlg, "")

\* One set through a rotation: a key for each algorithm under one kid, then
\* a key without alg beside them, in front and behind.
MCResolvers ==
    {Raw(secret), Single(rsaKey), Single(anonymous), Single(encKey),
     Set(<<rsaKey, hmacKey>>), Set(<<rsaKey, anyAlg>>), Set(<<anyAlg, rsaKey>>),
     Set(<<encKey, anonymous, JWK(kidB, edPub, eddsa, "sig")>>), Set(<<>>),
     [kind |-> "nil"], Single(JWK(kidA, nilMaterial, noAlg, "")),
     Function(Found(kidB, rsaPub), Failure("ErrKeyNotFound"), Failure("other")),
     Function(Found(kidA, secret), Found(kidB, nilMaterial), Found(kidA, secret))}

\* Two calls at once.
PairTokens == {named, unnamed, detached, [named EXCEPT !.header.typ = none]}
PairResolvers ==
    {Raw(secret), Set(<<rsaKey, hmacKey>>),
     Function(Found(kidB, rsaPub), Failure("ErrKeyNotFound"), Failure("other")),
     Function(Found(kidA, secret), Found(kidB, nilMaterial), Found(kidA, secret))}

SnapshotTokens == {named, detached, emptySigned}
SnapshotResolvers ==
    {Raw(secret), Raw(edPub), Set(<<JWK(kidB, edPub, eddsa, "sig"), hmacKey>>)}

-----------------------------------------------------------------------------
(* The run explores one call on everything above, and two calls, the second*)
(* beginning after the first, on a part of it.                             *)

OneCall == pc[c2] = "idle"

TwoCalls ==
    /\ pc[c1] # "idle"
    /\ resolver \in PairResolvers
    /\ \A c \in Calls : /\ token[c] \in PairTokens \cup {NoToken}
                        /\ seen[c] \subseteq PairResolvers

Explored == OneCall \/ TwoCalls

\* Next, with the environment kept to these parts.
MCNext ==
    \/ \E c \in Calls : Step(c)
    \/ \E c \in Calls : (VerifyMessage(c) \/ VerifyDetached(c)) /\ Explored'
    \/ (ChangeAnswers \/ Rebuild) /\ Explored'
    \/ \E material \in Wipeable : Wipe(material)

MCSpec == Init /\ [][MCNext]_vars
=============================================================================
