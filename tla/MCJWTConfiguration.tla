-------------------------- MODULE MCJWTConfiguration --------------------------
(***************************************************************************)
(* For TLC, what a jwt.Verifier is configured with: the claims policy of   *)
(* JWTPolicyEvaluation, every sequence of up to MaxOptions options and     *)
(* claims on both sides of every boundary, and the key sets of             *)
(* KeySetRotation.                                                         *)
(***************************************************************************)
EXTENDS JWTPolicyEvaluation, KeySetRotation

CONSTANTS api, web, other, rs256,
          es256, pq99, noAlg, old, new, overlong, anon,
          pubOld, pubNew, secret, nilMaterial

-----------------------------------------------------------------------------
(* Options and claims.                                                     *)

Option(kind, value) == [kind |-> kind, value |-> value]

MCOptions ==
    {[kind |-> k] : k \in FlagOptions \ {"requireExpiration"}}
        \cup {Option("methods", {rs256}), Option("leeway", 1),
              Option("maxAge", 2), Option("maxLifetime", 2),
              Option("issuer", api), Option("audience", {api, web}),
              Option("allAudiences", {api, web}), Option("leeway", -1)}

MCReadings == 0 .. 5

\* A token issued at 2 that is fit for everyone, and what may be wrong with it.
Fit == [exp |-> 4, nbf |-> 1, iat |-> 2, iss |-> api, sub |-> api,
        aud |-> {api, web}, selfValid |-> TRUE]

MCClaims ==
    {Fit, [Fit EXCEPT !.iss = other], [Fit EXCEPT !.aud = {web, other}],
     [Fit EXCEPT !.aud = {}], [Fit EXCEPT !.selfValid = FALSE]}
        \cup {[Fit EXCEPT !.exp = e] : e \in {2, 5, Absent, Unreadable}}
        \cup {[Fit EXCEPT !.iat = i] : i \in {0, 4, Absent, Unreadable}}
        \cup {[Fit EXCEPT !.nbf = n] : n \in {3, Absent}}
        \cup {[Fit EXCEPT !.exp = Absent, !.iat = Absent],
              [Fit EXCEPT !.exp = 1, !.nbf = 5]}

-----------------------------------------------------------------------------
(* Keys.                                                                   *)

VerifierKey(id, method, material) ==
    [id |-> id, method |-> method, material |-> material]

\* Two named keys, the new key under the old kid, the old material for
\* another algorithm, an anonymous key, an HMAC secret and the zero value.
MCKeyPool ==
    {VerifierKey(old, es256, pubOld), VerifierKey(new, rs256, pubNew),
     VerifierKey(old, rs256, pubNew), VerifierKey(anon, es256, pubOld),
     VerifierKey(new, es256, secret),
     VerifierKey(anon, noAlg, nilMaterial)}

MCForeignJWKs ==
    {[material |-> pubNew, keyID |-> old, alg |-> noAlg, use |-> ""],
     [material |-> pubNew, keyID |-> new, alg |-> noAlg, use |-> "enc"],
     [material |-> pubOld, keyID |-> anon, alg |-> pq99, use |-> "sig"],
     [material |-> secret, keyID |-> new, alg |-> es256, use |-> "sig"],
     [material |-> pubOld, keyID |-> overlong, alg |-> es256, use |-> ""]}

MCHeaderPool ==
    [alg : {es256, rs256, pq99}, kid : {old, new, anon}]

-----------------------------------------------------------------------------
(* The two share no state: a behaviour is one of either of them.           *)

MCInit == EvaluationInit /\ RotationInit

MCNext ==
    \/ EvaluationNext /\ static = <<>> /\ document = <<>> /\ UNCHANGED rotationVars
    \/ RotationNext /\ EvaluationInit /\ UNCHANGED evaluationVars

MCSpec == MCInit /\ [][MCNext]_<<evaluationVars, rotationVars>>
=============================================================================
