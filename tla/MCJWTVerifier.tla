--------------------------- MODULE MCJWTVerifier ---------------------------
(* Instances of JWTVerifier for TLC.                                       *)
EXTENDS JWTVerifierProps

CONSTANTS c1, c2, es256, rs256, hs512, pq99, noAlg, old, new, overlong, anon, notAString,
          pubOld, pubNew, secret, nilMaterial, access, api, empty

\* Configurations: the defaults; short-lived access tokens with an age and
\* leeway; tokens that never expire unless they say so, but not for long.
Default == [DefaultConfig EXCEPT !.methods = {es256, rs256}]
Strict == [Default EXCEPT !.typ = access, !.validateIAT = TRUE,
                          !.requireIAT = TRUE, !.maxAge = 1, !.leeway = 1]
Lenient == [Default EXCEPT !.requireExp = FALSE, !.maxLifetime = 2, !.maxAge = 2]
MCConfigurations == {Default, Strict, Lenient}

Claims(iat, exp) == [NewClaims EXCEPT !.iat = iat, !.exp = exp, !.sub = api]

Header(alg, kid) == [alg |-> alg, kid |-> kid, typ |-> access, extra |-> {}]

Token(header, claims_, signer) ==
    [size |-> 1, wellFormed |-> TRUE, header |-> header, claims |-> claims_,
     encoded |-> TRUE, signer |-> signer]

fit == Token(Header(es256, old), Claims(1, 3), pubOld)
rotated == Token(Header(rs256, new), Claims(1, 2), pubNew)
forged == [fit EXCEPT !.signer = nilMaterial]
swapped == [fit EXCEPT !.header.kid = new]
confused == Token(Header(rs256, old), Claims(1, 3), pubOld)
anonymous == [fit EXCEPT !.header.kid = anon]
undated == [fit EXCEPT !.claims = Claims(Absent, Absent)]
unread == [fit EXCEPT !.claims = Claims(Unreadable, 3)]
longLived == [fit EXCEPT !.claims = Claims(0, 3)]
early == [fit EXCEPT !.claims = [Claims(2, 3) EXCEPT !.nbf = 2]]

AllTokens ==
    {fit, rotated, forged, swapped, confused, anonymous, undated, unread,
     longLived, early,
     [fit EXCEPT !.size = 0], [fit EXCEPT !.size = 3],
     [fit EXCEPT !.wellFormed = FALSE], [fit EXCEPT !.encoded = FALSE],
     [fit EXCEPT !.header.alg = pq99], [fit EXCEPT !.header.alg = hs512],
     [fit EXCEPT !.header.kid = overlong], [fit EXCEPT !.header.typ = empty],
     [fit EXCEPT !.header.extra = {"crit"}]}

VKey(id, method, material) ==
    [id |-> id, method |-> method, material |-> material]

oldKey == VKey(old, es256, pubOld)
newKey == VKey(new, rs256, pubNew)

Static(keys) == [kind |-> "static", keys |-> keys]
Set(keys) == [kind |-> "set", keys |-> FromStaticKeySet(keys)]
Function(k) == [kind |-> "function", key |-> k]
Failing(es) == [kind |-> "failing", errors |-> es]

\* During a rotation; after it, as a JWK Set; a single anonymous key; an
\* application that ignores the header, or returns the zero key; failures, of
\* which some look like the parser's or the verifier's judgement of a token.
AllRegistries ==
    {Static(<<oldKey, newKey>>), Set(<<newKey>>), Static(<<VKey(anon, es256, pubOld)>>),
     Function(oldKey), Function(ZeroKey), Failing({"ErrKeyUnavailable"}),
     Failing({"ErrKeyUnavailable", "context"}), Failing({"other"}),
     Failing({"jwt.Expired"}), Failing({"ErrUnexpectedType"})}

PairTokens == {fit, rotated}
PairRegistries == {Static(<<oldKey, newKey>>), Set(<<newKey>>)}

ReuseTokens ==
    {fit, [undated EXCEPT !.signer = nilMaterial], undated, longLived}

-----------------------------------------------------------------------------
(* The run explores one call on everything above and, on a part of it, a   *)
(* second one: of another caller at the same time, or of the same caller   *)
(* afterwards, with a new claims value or with that of the first call.     *)

Small ==
    /\ registry \in PairRegistries /\ clock \in {1, 2}
    /\ \A c \in Callers : seen[c] \subseteq PairRegistries /\ clocks[c] \subseteq {1, 2}

FirstCall ==
    calls[c1] = 0 /\ (RefuseCall(c1) \/ \E t \in Tokens : VerifyToken(c1, t))

OtherCaller ==
    /\ calls[c1] = 1 /\ token[c1] \in PairTokens /\ Small
    /\ \E t \in PairTokens : VerifyToken(c2, t)

SecondCall ==
    /\ calls[c1] = 1 /\ token[c1] \in ReuseTokens /\ Small
    /\ calls[c2] = 0
    /\ RefuseCall(c1) \/ \E t \in ReuseTokens : VerifyToken(c1, t)

OnlyCall == calls[c1] + calls[c2] = 1 /\ InProgress(c1)

\* Next, with the environment kept to these parts. It need not move when no
\* call is in progress and none follows.
MCNext ==
    \/ \E c \in Callers : Step(c)
    \/ FirstCall \/ OtherCaller \/ SecondCall
    \/ (MoveClock \/ ChangeRegistry) /\ (OnlyCall \/ Small')

MCSpec == Init /\ [][MCNext]_vars
=============================================================================
