--------------------------- MODULE MCJWEDecrypter ---------------------------
(* Instances of JWEDecrypter for TLC.                                      *)
EXTENDS JWEDecrypterProps

CONSTANTS c1, c2, rsa, kw, a256, old, new, jwe, json, wrong, k1, k2, deflate

Compact == [multi |-> FALSE, keyAlgorithms |-> {rsa},
            contentEncryptions |-> {a256}, maxTokenSize |-> 3,
            maxPlaintextSize |-> 2,
            policy |-> [typ |-> jwe, cty |-> NoText, compression |-> NoText]]
Compressed == [Compact EXCEPT !.policy = [typ |-> NoText, cty |-> json,
                                          compression |-> Deflate]]
Multi == [Compact EXCEPT !.multi = TRUE, !.keyAlgorithms = {rsa, kw}]
MultiCompressed == [Compressed EXCEPT !.multi = TRUE, !.keyAlgorithms = {rsa, kw}]

MCDecrypters == {Compact, Compressed, Multi, MultiCompressed}

\* Compact tokens; header is the protected header of the only recipient.
Token(header, k) ==
    [size |-> 1, wellFormed |-> TRUE, protected |-> header,
     unprotected |-> NoHeader, enc |-> a256,
     recipients |-> <<[header |-> NoHeader, key |-> k, alg |-> rsa]>>,
     intact |-> TRUE, plaintext |-> 1]

base == [alg |-> rsa, enc |-> a256, kid |-> old, typ |-> jwe, cty |-> json]
fit == Token(base, k1)
rotated == Token([base EXCEPT !.kid = new], k2)
swapped == Token([base EXCEPT !.kid = new], k1)

Without(header, n) == [m \in DOMAIN header \ {n} |-> header[m]]

CompactTokens ==
    {fit, rotated, swapped, [fit EXCEPT !.size = 0], [fit EXCEPT !.size = 4],
     [fit EXCEPT !.wellFormed = FALSE], [fit EXCEPT !.intact = FALSE],
     [fit EXCEPT !.plaintext = 3]}
    \cup {Token(h, k1) : h \in
            {Without(base, n) : n \in DOMAIN base}
            \cup {[base EXCEPT ![n] = v] : n \in {"alg", "enc", "typ", "cty"},
                                           v \in {wrong, Unfit, NotAString}}
            \cup {base @@ ("zip" :> v) : v \in {Deflate, wrong, NotAString}}
            \cup {base @@ ("crit" :> NotAString)}}

\* JSON tokens: who has which parameter, and who opens them.
General(protected, unprotected, recipients) ==
    [fit EXCEPT !.protected = protected, !.unprotected = unprotected,
                !.recipients = recipients]

For(alg, kid, k) == [header |-> ("alg" :> alg @@ "kid" :> kid), key |-> k, alg |-> alg]
Saying(recipient, n, v) == [recipient EXCEPT !.header = (n :> v) @@ @]

shared == [enc |-> a256, typ |-> jwe, cty |-> json, keyset |-> old]

JSONTokens ==
    {General(p, u, rs) :
        p \in {shared, Without(shared, "typ"), Without(shared, "enc"), [shared EXCEPT !.typ = wrong],
               shared @@ ("zip" :> Deflate), Without(shared, "cty")},
        u \in {NoHeader, "typ" :> jwe, "typ" :> wrong},
        rs \in {<<For(rsa, old, k1), For(kw, new, k2)>>,
                <<For(rsa, old, k2), Saying(For(kw, new, k1), "typ", jwe)>>,
                <<For(rsa, old, k1), For(rsa, new, k1)>>,
                <<[For(rsa, old, k1) EXCEPT !.alg = kw], For(rsa, new, k1)>>,
                <<Saying(For(rsa, old, k1), "zip", Deflate)>>,
                <<For(rsa, old, k2), Saying(For(rsa, new, k1), "crit", wrong)>>,
                <<Saying(For(rsa, old, k1), "cty", wrong)>>,
                <<For(rsa, old, k1), For(wrong, new, k2)>>}}

AllTokens == CompactTokens \cup JSONTokens

\* One key for all; two keys by kid or by the application's own parameter;
\* after the rotation; a nil key; failures.
Static(k) == [by |-> "nothing", keys |-> NoText :> k, errors |-> {"other"}]
By(n, ks) == [by |-> n, keys |-> ks, errors |-> {"other"}]
AllRegistries ==
    {Static(k1), Static(NoKey), By("kid", old :> k1 @@ new :> k2),
     By("keyset", old :> k1), By("keyset", old :> k2), By("kid", new :> k2),
     [by |-> "nothing", keys |-> <<>>, errors |-> {"context"}]}

PairTokens == {fit, rotated, [fit EXCEPT !.plaintext = 3]}
PairRegistries == {By("kid", old :> k1 @@ new :> k2), By("kid", new :> k2)}

-----------------------------------------------------------------------------
(* The run explores one call on everything above and, on a part of it, a   *)
(* second one that another caller makes at the same time.                  *)

Small ==
    /\ decrypter = Compact /\ registry \in PairRegistries
    /\ seen[c1] \subseteq PairRegistries

FirstCall == calls[c1] = 0 /\ \E t \in Tokens : DecryptToken(c1, t)

OtherCaller ==
    /\ calls[c1] = 1 /\ token[c1] \in PairTokens /\ Small
    /\ \E t \in PairTokens : DecryptToken(c2, t)

\* Next, with the environment kept to these parts.
MCNext ==
    \/ \E c \in Callers : Step(c)
    \/ FirstCall \/ OtherCaller
    \/ ChangeRegistry /\ (calls[c2] = 1 => Small')

MCSpec == Init /\ [][MCNext]_vars
=============================================================================
