----------------------------- MODULE JWSSender -----------------------------
(***************************************************************************)
(* Concurrent Sign and SignDetached calls on one jws.Signer, or Sign calls *)
(* on one jws.MultiSigner (jws/signer.go, jws/multi_signer.go), while the  *)
(* application overwrites the key material it built the signer from and    *)
(* the key behind an opaque signer is rotated.                             *)
(***************************************************************************)
EXTENDS JWSSigners

CONSTANTS
    Senders,        \* concurrent calls
    Payloads, EmptyPayload, NilPayload,
    PayloadSize,    \* bytes of each payload
    KeyLists,       \* sequences of SigningKeys signers are built from
    OptionLists,    \* the options they are built with
    OpaqueKeys,     \* the public JWKs an opaque signer may have: [keyID,
                    \* material]
    OpaqueAlgorithms,
    Wipeable,       \* material the application overwrites once it is given;
                    \* other keys "must not be mutated" (key.go:18-20)
    MaxMessages     \* bound: messages on the wire when a call begins

ASSUME SenderAssumption ==
    /\ EmptyPayload \in Payloads /\ NilPayload \notin Payloads
    /\ PayloadSize \in [Payloads -> Nat]
    /\ KeyLists \subseteq Seq(SigningKeys) /\ OptionLists \subseteq Seq(Options)
    /\ OpaqueKeys \subseteq [keyID : KeyHints \cup {NoKid}, material : Material]
    /\ OpaqueAlgorithms \subseteq Algorithms
    /\ Wipeable \subseteq ByteMaterial
    /\ MaxMessages \in Nat

VARIABLES
    signer,     \* the signer all calls share
    opaqueKey,  \* what the opaque signer's Public returns, and it signs with
    wiped,      \* material overwritten since the signer was built
    signing,    \* the calls in progress; publics are the opaque keys there
                \* have been since a call began
    wire        \* the messages that may arrive, and what is known of them

senderVars == <<signer, opaqueKey, wiped, signing, wire>>

Idle == [busy |-> FALSE]
NoHeader == Unset

SenderInit ==
    /\ \E keys \in KeyLists, options \in OptionLists, multi \in BOOLEAN :
          /\ ~ multi => Len(keys) = 1
          /\ NewSignerErrors(multi, keys, options, OpaqueAlgorithms) = {}
          /\ signer = NewSigner(multi, keys, options)
    /\ opaqueKey \in OpaqueKeys
    /\ wiped = {}
    /\ signing = [c \in Senders |-> Idle]
    /\ wire = {}

\* Up to the backend; a payload that is refused changes nothing.
Sign(c, payload, detached) ==
    /\ signing[c] = Idle
    /\ Cardinality({w \in wire : ~ w.altered}) < MaxMessages
    /\ detached => ~ signer.multi
    /\ payload # NilPayload
    /\ PayloadSize[payload] <= signer.config.maxPayloadSize
    /\ signing' = [signing EXCEPT ![c] =
          [busy |-> TRUE, payload |-> payload, detached |-> detached,
           signatures |-> <<>>, header |-> NoHeader, publics |-> {opaqueKey}]]
    /\ UNCHANGED <<signer, opaqueKey, wiped, wire>>

\* The key whose signature the call has to make next.
Pending(c) == signing[c].busy /\ Len(signing[c].signatures) < Len(signer.keys)
CurrentKey(c) == signer.keys[Len(signing[c].signatures) + 1]

\* Mutant: an opaque signer is asked for its kid when the signer is built.
KidOfFirst(key) ==
    IF key.material = OpaqueMaterial
    THEN (CHOOSE k \in OpaqueKeys : TRUE).keyID ELSE key.kid

KidNow(key) == IF key.material = OpaqueMaterial THEN opaqueKey.keyID ELSE key.kid

\* The header of the next signature is made, from the public JWK.
PrepareHeader(c) ==
    /\ Pending(c) /\ signing[c].header = NoHeader
    /\ signing' = [signing EXCEPT ![c].header =
          ProtectedHeader(signer.config, CurrentKey(c).alg, KidNow(CurrentKey(c)))]
    /\ UNCHANGED <<signer, opaqueKey, wiped, wire>>

\* Whose signature it becomes: nobody's if the material held is overwritten.
SignsAs(key) ==
    IF key.material = OpaqueMaterial THEN opaqueKey.material
    ELSE IF key.material \in wiped /\ ~ Cloned(key.material) THEN NilMaterial
    ELSE key.material

\* go-jose demands a Boolean of a b64 parameter, once the header is made; what
\* is no string stands for one here.
Base64Fits ==
    LET extra == signer.config.extra IN
    "b64" \in DOMAIN extra => extra["b64"] = NotAString

SignInput(c) ==
    /\ Pending(c) /\ signing[c].header # NoHeader
    /\ Base64Fits
    /\ signing' = [signing EXCEPT
          ![c].signatures = Append(@, [alg |-> signing[c].header.alg,
                                       protected |-> signing[c].header,
                                       signer |-> SignsAs(CurrentKey(c))]),
          ![c].header = NoHeader]
    /\ UNCHANGED <<signer, opaqueKey, wiped, wire>>

\* An opaque signer may fail at either call, go-jose because of a header.
SigningFails(c) ==
    /\ Pending(c)
    /\ \/ CurrentKey(c).material = OpaqueMaterial
       \/ signing[c].header # NoHeader /\ ~ Base64Fits
    /\ signing' = [signing EXCEPT ![c] = Idle]
    /\ UNCHANGED <<signer, opaqueKey, wiped, wire>>

\* Bytes of the serialization.
MessageSize(call) ==
    Len(call.signatures) + IF call.detached THEN 0 ELSE PayloadSize[call.payload]

Message(call) ==
    [size |-> MessageSize(call), wellFormed |-> TRUE,
     embedded |-> IF call.detached THEN EmptyPayload ELSE call.payload,
     signed |-> call.payload, signatures |-> call.signatures,
     publics |-> call.publics, altered |-> FALSE]

\* Serialization, and the limit on it; the call returns.
Serialize(c) ==
    /\ signing[c].busy /\ ~ Pending(c)
    /\ signing' = [signing EXCEPT ![c] = Idle]
    /\ \/ /\ MessageSize(signing[c]) \in 1 .. signer.config.maxTokenSize
          /\ wire' = wire \cup {Message(signing[c])}
       \/ /\ MessageSize(signing[c]) \notin 1 .. signer.config.maxTokenSize
          /\ UNCHANGED wire
    /\ UNCHANGED <<signer, opaqueKey, wiped>>

-----------------------------------------------------------------------------
(* The application; what it does to keys the signer has not changes        *)
(* nothing.                                                                *)

Uses(material) == \E i \in DOMAIN signer.keys : signer.keys[i].material = material

RotateOpaqueKey ==
    /\ Uses(OpaqueMaterial)
    /\ opaqueKey' \in OpaqueKeys \ {opaqueKey}
    /\ signing' = [c \in Senders |->
          IF signing[c].busy THEN [signing[c] EXCEPT !.publics = @ \cup {opaqueKey'}]
                             ELSE Idle]
    /\ UNCHANGED <<signer, wiped, wire>>

Overwrite(material) ==
    /\ Uses(material)
    /\ wiped' = wiped \cup {material}
    /\ UNCHANGED <<signer, opaqueKey, signing, wire>>

SenderNext ==
    \/ \E c \in Senders :
          \/ \E p \in Payloads \cup {NilPayload}, d \in BOOLEAN : Sign(c, p, d)
          \/ PrepareHeader(c) \/ SignInput(c) \/ SigningFails(c) \/ Serialize(c)
    \/ RotateOpaqueKey
    \/ \E material \in Wipeable : Overwrite(material)

-----------------------------------------------------------------------------
\* Whatever is overwritten after the signer has been built, before or in the
\* middle of a call, its signatures are those of the keys it was built from,
\* in their order (SigningKey, key.go:18-20).
SignersKeepTheirKeys ==
    \A w \in wire : ~ w.altered =>
        \A i \in DOMAIN signer.keys :
            LET key == signer.keys[i] IN
            w.signatures[i].signer \in
                IF key.material = OpaqueMaterial
                THEN {k.material : k \in OpaqueKeys} ELSE {key.material}

\* A key rotated behind an opaque signer, while the signer is in use, takes
\* its kid with it ("the protected kid value and public verification material
\* are obtained from the JWK returned by OpaqueSigner.Public()",
\* jws/README.md:416): a signature's kid and key are those of one JWK, or, if
\* there were several since the call began, of two of these. The kid of any
\* other key is the key's own; one that the application sets itself wins.
SignedUnderItsKid ==
    \A w \in wire : ~ w.altered =>
        \A i \in DOMAIN signer.keys :
            LET key == signer.keys[i]
                sent == w.signatures[i]
                extra == signer.config.extra
                kid == sent.protected.kid
            IN /\ "kid" \in DOMAIN extra => kid = extra["kid"]
               /\ "kid" \notin DOMAIN extra /\ key.material # OpaqueMaterial
                  => kid = key.kid
               /\ key.material = OpaqueMaterial =>
                     \E k, l \in w.publics :
                        /\ "kid" \notin DOMAIN extra => kid = k.keyID
                        /\ sent.signer = l.material

-----------------------------------------------------------------------------
\* The last of the options that set the parameter sets it to what a verifier
\* expects (WithHeader, options.go:164-167).
LastSays(n, expected) ==
    LET header == signer.config.extra IN
    expected # NoText => n \in DOMAIN header /\ header[n] = expected

\* Signer and verifier are configured for each other, but for their keys.
Agreement ==
    LET extra == signer.config.extra IN
    /\ LastSays("typ", ExpectedTyp) /\ LastSays("cty", ExpectedCty)
    /\ DOMAIN extra \cap {"alg", "crit", "b64"} = {}
    /\ \A n \in {"typ", "cty"} \cap DOMAIN extra : extra[n] # NotAString
    /\ signer.config.maxTokenSize <= MaxTokenSize
    /\ signer.config.maxPayloadSize <= MaxPayloadSize
=============================================================================
