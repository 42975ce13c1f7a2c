---------------------------- MODULE JWTExchange ----------------------------
(***************************************************************************)
(* An issuer of JWTs that rotates its signing key while tokens of the old  *)
(* one are under way, and the verifier of JWTVerifier, whose key source is *)
(* a StaticKeySet or jwk.Set of the keys the issuer's application last     *)
(* published. The application keeps to the documented order (DESIGN.md:288,*)
(* DESIGN.md:691-693): it publishes a key before tokens are signed with    *)
(* it, and withdraws it when all of them are outside the acceptance window.*)
(* Tokens are delayed, reordered, duplicated, lost and altered; the clock  *)
(* is the same on both sides and does not go back. A caller makes one call,*)
(* with a claims value of its own; JWTVerifier has callers that use one    *)
(* again.                                                                  *)
(***************************************************************************)
EXTENDS JWTSigners, FiniteSets

CONSTANTS
    Absent, Unreadable, NotAString,                     \* see JWTVerifier
    Callers, Configurations, MaxTokenSize, Times,
    MaxChanges,
    Workers,        \* goroutines that call Sign on the issuer's signer
    KeySpecs,       \* what the issuer's keys are built from:
                    \* [id, method, local, public, backend]
    SignerOptions,  \* option lists of NewSigner
    Shapes,         \* claims: [start, life], from the moment of issue on
    Sizes,          \* the sizes of compact tokens
    MaxIssued,      \* bound: tokens signed
    MaxAltered      \* bound: tokens altered

\* A local key, or an external one for those with a public key.
Built(spec) ==
    IF spec.public = NilMaterial
    THEN NewSigningKey(spec.id, spec.method, spec.local)
    ELSE NewExternalSigningKey(spec.id, spec.method, spec.public, spec.backend)

SigningKeys == {Built(spec).key : spec \in {s \in KeySpecs : Built(s).error = "none"}}

\* The documents that can be published: at most two keys at a time.
KeyLists ==
    {keys \in {<<a.verification>> : a \in SigningKeys}
              \cup {<<a.verification, b.verification>> : a, b \in SigningKeys} :
        ValidStaticKeySet(keys)}

\* As the verifier's key source: jwk publishes public keys only.
Sources(keys) ==
    {[kind |-> "static", keys |-> keys]}
    \cup {[kind |-> "set", keys |-> FromStaticKeySet(k)] :
             k \in {l \in {keys} : \A i \in DOMAIN l : Exportable(l[i])}}

AllSources == UNION {Sources(keys) : keys \in KeyLists}

VARIABLES
    signer,     \* the issuer's Signer
    published,  \* the verification keys it publishes
    signing,    \* the claims and signer of each worker's call: [signer, claims]
    wire,       \* the tokens that may arrive: [token, altered]
    config, registry, clock, pc, calls, token, claims, found, errors,
    blank, seen, clocks

issuerVars == <<signer, published, signing, wire>>
receiverVars == <<config, registry, clock, pc, calls, token, claims, found, errors,
                  blank, seen, clocks>>
vars == <<issuerVars, receiverVars>>

Receiver == INSTANCE JWTVerifier WITH
    Tokens <- {}, Methods <- Algorithms, Registries <- AllSources, MaxCalls <- 1,
    key <- found

\* A backend is that of its public key; no constructor can tell.
ASSUME IssuerAssumption ==
    /\ KeySpecs \subseteq [id : AnyKeyID, method : Algorithms \cup {NoAlgorithm},
                           local : DOMAIN PublicOf \cup {NilMaterial},
                           public : Material \cup {NilMaterial},
                           backend : DOMAIN PublicOf \cup {NilMaterial}]
    /\ \A s \in KeySpecs : s.public # NilMaterial /\ s.backend # NilMaterial
                           => PublicOf[s.backend] = s.public
    /\ SignerOptions \subseteq Seq(Options)
    /\ Shapes \subseteq [start : Nat, life : Nat \ {0}]
    /\ Sizes \subseteq Nat \ {0}
    /\ {MaxIssued, MaxAltered} \subseteq Nat

ASSUME ReceiverAssumption ==
    /\ NotAString \notin AnyKeyID \cup Texts \cup {NoText}
    /\ {Absent, Unreadable} \cap Int = {} /\ NoText \notin Texts
    /\ Configurations \subseteq {c \in Receiver!Configs : c.methods # {}}
    /\ MaxTokenSize \in Nat \ {0}
    /\ Times \subseteq Int
    /\ MaxChanges \in Nat

Idle == [claims |-> Receiver!NewClaims]

\* The verifier holds the keys published at present, this one among them.
Distributed(k) == Holds(published, k) /\ registry \in Sources(published)

-----------------------------------------------------------------------------
Init ==
    /\ \E k \in SigningKeys, options \in SignerOptions :
          /\ ValidSigner(k, options)
          /\ signer = NewSigner(k, options)
          /\ published = <<k.verification>>
          /\ ValidStaticKeySet(published)
    /\ signing = [w \in Workers |-> Idle]
    /\ wire = {}
    /\ Receiver!Init
    /\ registry \in Sources(published)
    /\ \A t \in Times : clock <= t

\* The application publishes another key.
Introduce(k) ==
    /\ Append(published, k.verification) \in KeyLists
    /\ published' = Append(published, k.verification)
    /\ UNCHANGED <<signer, signing, wire, receiverVars>>

\* The verifier's application replaces its key source by one of that kind.
Fetch ==
    /\ Receiver!ChangeRegistry
    /\ registry' \in Sources(published) /\ registry'.kind = registry.kind
    /\ UNCHANGED issuerVars

\* The issuer's application replaces its signer by one for another key.
Adopt(k) ==
    /\ k # signer.key
    /\ Distributed(k.verification)
    /\ \E options \in SignerOptions :
          /\ ValidSigner(k, options)
          /\ signer' = NewSigner(k, options)
    /\ UNCHANGED <<published, signing, wire, receiverVars>>

Dated(shape, now) ==
    [Receiver!NewClaims EXCEPT !.iat = now, !.exp = now + shape.start + shape.life,
                               !.nbf = IF shape.start = 0 THEN Absent
                                       ELSE now + shape.start]

AllClaims == {Dated(shape, now) : shape \in Shapes, now \in Times}

\* Sign: an external backend may take its time.
Sign(w, shape) ==
    /\ signing[w] = Idle
    /\ Cardinality({v \in wire : ~ v.altered})
          + Cardinality({v \in Workers : signing[v] # Idle}) < MaxIssued
    /\ signing' = [signing EXCEPT ![w] =
                     [signer |-> signer, claims |-> Dated(shape, clock)]]
    /\ UNCHANGED <<signer, published, wire, receiverVars>>

\* A token, an error that leaves nothing or, of an external backend, either.
Issue(w) ==
    /\ signing[w] # Idle
    /\ signing' = [signing EXCEPT ![w] = Idle]
    /\ LET call == signing[w] IN
       \/ \E size \in Sizes :
             /\ SignErrors(call.signer, size) = {}
             /\ wire' = wire \cup
                  {[token |-> Signed(call.signer, call.claims, size),
                    altered |-> FALSE]}
       \/ /\ \/ call.signer.key.backend # NilMaterial
             \/ \E size \in Sizes : SignErrors(call.signer, size) # {}
          /\ wire' = wire
    /\ UNCHANGED <<signer, published, receiverVars>>

\* The instants at which the verifier's configuration takes the claims.
Window(c) ==
    {now \in Times :
        /\ now < c.exp + config.leeway
        /\ c.nbf = Absent \/ now >= c.nbf - config.leeway
        /\ config.maxAge = 0 \/ now <= c.iat + config.maxAge + config.leeway}

\* The claims of tokens signed, or being signed, with a key.
ClaimsUnder(k) ==
    {v.token.claims : v \in {u \in wire : u.token.signer = k.verification.material}}
    \cup {signing[w].claims :
             w \in {v \in Workers :
                      /\ signing[v] # Idle
                      /\ signing[v].signer.key.verification = k.verification}}

\* The application withdraws a key that is not the signer's.
Retire(k) ==
    /\ Holds(published, k.verification) /\ k.verification # signer.key.verification
    /\ \A c \in ClaimsUnder(k) : \A now \in Window(c) : now < clock
    /\ published' \in KeyLists
    /\ {published'[i] : i \in DOMAIN published'}
          = {published[i] : i \in DOMAIN published} \ {k.verification}
    /\ UNCHANGED <<signer, signing, wire, receiverVars>>

\* Another kid or other claims do not go with the signature.
Alter(v) ==
    /\ Cardinality({u \in wire : u.altered}) < MaxAltered
    /\ LET broken == [v EXCEPT !.altered = TRUE, !.token.signer = NilMaterial] IN
       \/ \E k \in SigningKeys :
             wire' = wire \cup {[broken EXCEPT !.token.header.kid = k.id]}
       \/ wire' = wire \cup {[broken EXCEPT !.token.claims.exp = @ + 1]}
    /\ UNCHANGED <<signer, published, signing, receiverVars>>

Tick ==
    /\ Receiver!MoveClock
    /\ clock' = clock + 1
    /\ UNCHANGED issuerVars

Present(c, v) == Receiver!VerifyToken(c, v.token) /\ UNCHANGED issuerVars

Verify(c) == Receiver!Step(c) /\ UNCHANGED issuerVars

Next ==
    \/ \E k \in SigningKeys : Introduce(k) \/ Adopt(k) \/ Retire(k)
    \/ Fetch \/ Tick
    \/ \E w \in Workers : Issue(w) \/ \E shape \in Shapes : Sign(w, shape)
    \/ \E v \in wire : Alter(v) \/ \E c \in Callers : Present(c, v)
    \/ \E c \in Callers : Verify(c)

Spec == Init /\ [][Next]_vars

-----------------------------------------------------------------------------
Names(r) ==
    {[name |-> IF r.kind = "set" THEN k.keyID ELSE k.id, key |-> k.material] :
        k \in {r.keys[i] : i \in DOMAIN r.keys}}

Channel == INSTANCE SignedChannel WITH
    Verifiers <- Callers, SignKeys <- Material, Identities <- AnyKeyID,
    Messages <- AllClaims,
    Nothing <- NoKeyID,
    signed <- {[message |-> v.token.claims, key |-> v.token.signer] :
                  v \in {u \in wire : ~ u.altered}},
    known <- UNION {Names(r) : r \in {registry} \cup UNION {seen[c] : c \in Callers}},
    verified <- [c \in Callers |->
                    IF pc[c] # "accepted" THEN NoKeyID
                    ELSE [message |-> claims[c], name |-> token[c].header.kid]]

\* The claims a call accepts are those of a token the issuer signed with a key
\* that was published under the token's kid, whichever keys are adopted and
\* withdrawn while it is under way and whatever the transport makes of it:
\* issuer, transport and verifier together are a SignedChannel.
ImplementsChannel == Channel!Spec

\* The verifier is configured for what the signer makes, and asks for no claims
\* it does not.
Agreement(t) ==
    /\ config.typ \in {NoText, t.header.typ}
    /\ t.header.alg \in config.methods
    /\ t.size <= MaxTokenSize
    /\ ~ Receiver!ClaimsInvalid(config, t.claims)
    /\ config.maxLifetime = 0 \/ t.claims.exp - t.claims.iat <= config.maxLifetime

\* Rotation is seamless: an unaltered token is refused only by a call that saw
\* an instant outside its acceptance window. In the documented order of
\* publication, signing and withdrawal no token meets a key set that does not
\* know its key or takes another key for it: neither the first ones of a new
\* key, nor the last ones of an old key, nor one whose signature, or whose
\* verification, takes so long that keys are replaced meanwhile.
RotationIsSeamless ==
    \A c \in Callers, v \in wire :
        /\ pc[c] = "rejected" /\ token[c] = v.token
        /\ ~ v.altered /\ Agreement(v.token)
        => \E now \in clocks[c] : now \notin Window(v.token.claims)
=============================================================================
