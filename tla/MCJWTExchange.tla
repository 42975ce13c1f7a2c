--------------------------- MODULE MCJWTExchange ---------------------------
(* An instance of JWTExchange for TLC.                                     *)
EXTENDS JWTExchange

CONSTANTS es256, hs512, kidA, kidB, longKid, anon, jwt, access, none,
          privA, privB, pubA, pubB, secret, mute, noAlg

MCPublicOf == privA :> pubA @@ privB :> pubB @@ secret :> secret @@ mute :> NilMaterial
MCSuits == privA :> {es256} @@ privB :> {es256} @@ secret :> {hs512} @@ mute :> {es256}

Local(id, method, material) ==
    [id |-> id, method |-> method, local |-> material, public |-> NilMaterial,
     backend |-> NilMaterial]
External(id, method, public, material) ==
    [id |-> id, method |-> method, local |-> NilMaterial, public |-> public,
     backend |-> material]

\* Keys of one and of two names; an anonymous key, which cannot be rotated;
\* those the constructors refuse.
MCKeySpecs ==
    {Local(kidA, es256, privA), External(kidB, es256, pubB, privB),
     Local(kidB, hs512, secret), Local(anon, es256, privA),
     Local(longKid, es256, privA), Local(kidA, es256, mute),
     External(kidA, es256, pubA, NilMaterial), Local(kidA, noAlg, privA)}

MCSignerOptions == {<<[set |-> "maxTokenSize", value |-> 2]>>,
                    <<[set |-> "maxTokenSize", value |-> 0]>>}

MCShapes == {[start |-> 0, life |-> 1], [start |-> 1, life |-> 2]}

P == INSTANCE JWTPolicy WITH Methods <- Algorithms
Base == [P!DefaultConfig EXCEPT !.methods = {es256, hs512}]
MCConfigurations ==
    {[Base EXCEPT !.leeway = 1, !.typ = jwt],
     [Base EXCEPT !.maxAge = 1, !.requireIAT = TRUE, !.validateIAT = TRUE]}
=============================================================================
