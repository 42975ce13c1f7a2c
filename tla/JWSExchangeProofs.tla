------------------------- MODULE JWSExchangeProofs -------------------------
(***************************************************************************)
(* For any options, keys, payloads, resolvers, number of calls and any     *)
(* traffic: jws signers sign with the keys they were built from, under the *)
(* kid of the key; what a jws.Verifier verifies was signed by the key it   *)
(* names; and it verifies what the signer it agrees with has signed.       *)
(***************************************************************************)
EXTENDS JWSExchange, JWSSenderProofs

-----------------------------------------------------------------------------
(* What resolvers answer.                                                  *)

Trusted == {r \in Resolvers : r.kind # "nil"}

Kids == KeyHints \cup {NoKid}

\* A resolver answers with keys it names.
LEMMA AnswersAreNamed ==
    ASSUME NEW r \in Trusted, NEW header, header.kid \in Kids,
           Receiver!Answer(r, header).error = "none",
           Receiver!Answer(r, header).material # NilMaterial
    PROVE  [name |-> Receiver!Answer(r, header).keyID,
            key |-> Receiver!Answer(r, header).material] \in
               {n \in Named(r) : n.key \in Material}
<1> DEFINE a == Receiver!Answer(r, header)
           name == [name |-> a.keyID, key |-> a.material]
<1>1. Receiver!KeyArgument(r) /\ r.kind # "nil"
  BY ResolversAssumption DEF Trusted
<1>2. CASE r.kind = "function"
  <2>1. a = r.answers[header.kid] /\ header.kid \in DOMAIN r.answers
        /\ r.answers[header.kid] \in Replies
    BY <1>1, <1>2 DEF Receiver!KeyArgument, Receiver!IsFunction, Receiver!Answer, Kids,
                      Replies, Receiver!Replies, Material, Receiver!Material
  <2>2. Named(r) = {[name |-> x.keyID, key |-> x.material] :
                       x \in {r.answers[k] : k \in DOMAIN r.answers}}
    BY <1>2, Zenon DEF Named
  <2> QED
    BY <2>1, <2>2 DEF Replies
<1>3. CASE r.kind = "raw"
  <2>1. a = Receiver!Found(NoKid, r.material)
    BY <1>3, Zenon DEF Receiver!Answer, Receiver!IsFunction, Receiver!StaticResolve
  <2>2. a.keyID = NoKid /\ a.material = r.material
    BY <2>1 DEF Receiver!Found
  <2>3. r.material \in Material \cup {NilMaterial}
    BY <1>1, <1>3 DEF Receiver!KeyArgument, Material, Receiver!Material
  <2>4. Named(r) = {[name |-> NoKid, key |-> r.material]}
    BY <1>3, Zenon DEF Named
  <2> QED
    BY <2>2, <2>3, <2>4
<1>4. CASE r.kind = "jwk"
  <2>1. a = Receiver!JWKResolve(r.jwk, header)
    BY <1>4, Zenon DEF Receiver!Answer, Receiver!IsFunction, Receiver!StaticResolve
  <2>2. a.keyID = r.jwk.keyID /\ a.material = r.jwk.material
    BY <2>1 DEF Receiver!JWKResolve, Receiver!Found, Receiver!Failure
  <2>3. r.jwk.material \in Material \cup {NilMaterial}
    BY <1>1, <1>4 DEF Receiver!KeyArgument, Receiver!JWKs, Material, Receiver!Material
  <2>4. Named(r) = {[name |-> r.jwk.keyID, key |-> r.jwk.material]}
    BY <1>4, Zenon DEF Named
  <2> QED
    BY <2>2, <2>3, <2>4
<1>5. CASE r.kind = "jwks"
  <2>1. a = Receiver!JWKSResolve(r.keys, header)
    BY <1>5, Zenon DEF Receiver!Answer, Receiver!IsFunction, Receiver!StaticResolve
  <2> DEFINE matches == Receiver!Matches(r.keys, header)
             i == CHOOSE i \in matches : TRUE
  <2>2. matches # {} /\ a = Receiver!Found(r.keys[i].keyID, r.keys[i].material)
    BY <2>1 DEF Receiver!JWKSResolve, Receiver!Failure
  <2>3. i \in DOMAIN r.keys
    BY <2>2 DEF Receiver!Matches
  <2> HIDE DEF i, matches
  <2>4. r.keys[i] \in Receiver!JWKs
    BY <1>1, <1>5, <2>3 DEF Receiver!KeyArgument
  <2>5. r.keys[i].material \in Material \cup {NilMaterial}
    BY <2>4 DEF Receiver!JWKs, Material, Receiver!Material
  <2>6. Named(r) = {[name |-> r.keys[j].keyID, key |-> r.keys[j].material] :
                       j \in DOMAIN r.keys}
    BY <1>5, Zenon DEF Named
  <2>7. a.keyID = r.keys[i].keyID /\ a.material = r.keys[i].material
    BY <2>2 DEF Receiver!Found
  <2> QED
    BY <2>3, <2>5, <2>6, <2>7
<1> QED
  BY <1>1, <1>2, <1>3, <1>4, <1>5 DEF Receiver!KeyArgument

\* No resolver answers that a message is verified.
LEMMA AnswerError ==
    ASSUME NEW r \in Trusted, NEW header, header.kid \in Kids
    PROVE  Receiver!Answer(r, header).error # "verified"
<1> DEFINE a == Receiver!Answer(r, header)
<1>1. Receiver!KeyArgument(r) /\ r.kind # "nil"
  BY ResolversAssumption DEF Trusted
<1>2. CASE r.kind = "function"
  BY <1>1, <1>2 DEF Receiver!KeyArgument, Receiver!IsFunction, Receiver!Answer, Kids,
                    Receiver!Replies
<1>3. CASE r.kind = "raw"
  <2>1. a = Receiver!Found(NoKid, r.material)
    BY <1>3, Zenon DEF Receiver!Answer, Receiver!IsFunction, Receiver!StaticResolve
  <2> QED
    BY <2>1 DEF Receiver!Found
<1>4. CASE r.kind = "jwk"
  <2>1. a = Receiver!JWKResolve(r.jwk, header)
    BY <1>4, Zenon DEF Receiver!Answer, Receiver!IsFunction, Receiver!StaticResolve
  <2> QED
    BY <2>1 DEF Receiver!JWKResolve, Receiver!Found, Receiver!Failure
<1>5. CASE r.kind = "jwks"
  <2>1. a = Receiver!JWKSResolve(r.keys, header)
    BY <1>5, Zenon DEF Receiver!Answer, Receiver!IsFunction, Receiver!StaticResolve
  <2> QED
    BY <2>1 DEF Receiver!JWKSResolve, Receiver!Found, Receiver!Failure
<1> QED
  BY <1>1, <1>2, <1>3, <1>4, <1>5 DEF Receiver!KeyArgument

\* The names of keys are kid values.
LEMMA NamedType ==
    ASSUME NEW r \in Trusted
    PROVE  {n \in Named(r) : n.key \in Material} \subseteq [name : Kids, key : Material]
<1>1. Receiver!KeyArgument(r) /\ r.kind # "nil"
  BY ResolversAssumption DEF Trusted
<1>2. CASE r.kind = "function"
  <2>1. \A k \in DOMAIN r.answers : r.answers[k].keyID \in Kids
    BY <1>1, <1>2 DEF Receiver!KeyArgument, Receiver!IsFunction, Receiver!Replies, Kids
  <2>2. Named(r) = {[name |-> x.keyID, key |-> x.material] :
                       x \in {r.answers[k] : k \in DOMAIN r.answers}}
    BY <1>2, Zenon DEF Named
  <2> QED
    BY <2>1, <2>2
<1>3. CASE r.kind = "raw"
  <2>1. Named(r) = {[name |-> NoKid, key |-> r.material]}
    BY <1>3, Zenon DEF Named
  <2> QED
    BY <2>1 DEF Kids
<1>4. CASE r.kind = "jwk"
  <2>1. r.jwk.keyID \in Kids
    BY <1>1, <1>4 DEF Receiver!KeyArgument, Receiver!JWKs, Kids
  <2>2. Named(r) = {[name |-> r.jwk.keyID, key |-> r.jwk.material]}
    BY <1>4, Zenon DEF Named
  <2> QED
    BY <2>1, <2>2
<1>5. CASE r.kind = "jwks"
  <2>1. \A i \in DOMAIN r.keys : r.keys[i] \in Receiver!JWKs
    BY <1>1, <1>5 DEF Receiver!KeyArgument
  <2>2. \A i \in DOMAIN r.keys : r.keys[i].keyID \in Kids
    BY <2>1 DEF Receiver!JWKs, Kids
  <2>3. Named(r) = {[name |-> r.keys[j].keyID, key |-> r.keys[j].material] :
                       j \in DOMAIN r.keys}
    BY <1>5, Zenon DEF Named
  <2> QED
    BY <2>2, <2>3
<1> QED
  BY <1>1, <1>2, <1>3, <1>4, <1>5 DEF Receiver!KeyArgument

-----------------------------------------------------------------------------
(* The exchange's invariant.                                               *)

Sent == {[message |-> w.signed, key |-> w.signatures[1].signer] :
            w \in {v \in wire : ~ v.altered}}

\* A signature that is not corrupted was made by the signer, for what it is
\* said to be made for.
Traceable(message, key) ==
    key # NilMaterial => [message |-> message, key |-> key] \in Sent

TransportInv ==
    \A w \in wire : Traceable(w.signed, w.signatures[1].signer)

Judged(c) == IF offered[c].detached
             THEN Receiver!DetachedError(token[c], offered[c].payload)
             ELSE Receiver!MessageError(token[c])

\* Why a call may end without success: its message, the answer it got, or a
\* signature that is not for this key or this payload.
Refused(c) ==
    \/ Judged(c) # "none"
    \/ \E r \in seen[c] :
          LET reply == Receiver!Answer(r, token[c].header) IN
          \/ reply.error # "none"
          \/ reply.material \in {NilMaterial} \/ reply.material # token[c].signer
          \/ token[c].signed # offered[c].payload

Shape ==
    /\ DOMAIN offered = Calls /\ DOMAIN pc = Calls /\ DOMAIN token = Calls
    /\ DOMAIN payload = Calls /\ DOMAIN resolved = Calls /\ DOMAIN outcome = Calls
    /\ DOMAIN verifiedID = Calls /\ DOMAIN seen = Calls
    /\ resolver \in Trusted

VerifyInv(c) ==
    /\ seen[c] \subseteq Trusted
    /\ pc[c] \in {"idle", "resolving", "verifying", "done"}
    /\ pc[c] = "idle" => seen[c] = {} /\ outcome[c] = "none"
    /\ pc[c] # "idle" => /\ Traceable(token[c].signed, token[c].signer)
                         /\ token[c].header.kid \in Kids
                         /\ \/ offered[c].detached
                            \/ offered[c].payload = token[c].embedded
    /\ pc[c] \in {"resolving", "verifying"} =>
          /\ outcome[c] = "none" /\ Judged(c) = "none"
          /\ payload[c] = offered[c].payload /\ resolver \in seen[c]
    /\ pc[c] = "verifying" =>
          /\ \E r \in seen[c] : resolved[c] = Receiver!Answer(r, token[c].header)
          /\ resolved[c].error = "none" /\ resolved[c].material # NilMaterial
    /\ pc[c] = "done" /\ outcome[c] # "verified" => Refused(c)

IInv ==
    /\ SenderInv /\ ~ signer.multi
    /\ TransportInv
    /\ Shape
    /\ \A c \in Calls : VerifyInv(c)

LEMMA InitInv == Init => IInv
<1>1. SUFFICES ASSUME Init
               PROVE  IInv
  OBVIOUS
<1>2. SenderInv /\ ~ signer.multi /\ wire = {}
  BY <1>1, SenderInitInv DEF Init, SenderInit
<1>3. Shape /\ \A c \in Calls : /\ pc[c] = "idle" /\ outcome[c] = "none"
                               /\ seen[c] = {}
  BY <1>1 DEF Init, Receiver!Init, Receiver!ValidKeyArgument, Shape, Trusted
<1> QED
  BY <1>2, <1>3 DEF IInv, TransportInv, VerifyInv

\* A signer of one key makes one signature per message.
LEMMA OneSignature ==
    ASSUME SenderInv
    PROVE  1 \in DOMAIN signer.keys
  BY DEF SenderInv, SignerType

LEMMA SentHeaderKid ==
    ASSUME SenderInv, ~ signer.multi, NEW w \in wire
    PROVE  w.signatures[1].protected \in SignerHeaders(signer)
           /\ w.signatures[1].protected.kid \in Kids
<1>1. /\ MessageShape(signer, w) /\ Len(signer.keys) >= 1
      /\ Len(signer.keys) \in Nat
  BY DEF SenderInv, SignerType
<1>2. w.signatures[1] \in SignaturesBy(signer)
  <2> DEFINE S == SignaturesBy(signer)
  <2>1. w.signatures \in Seq(S) /\ Len(w.signatures) >= 1
    BY <1>1 DEF MessageShape
  <2> HIDE DEF S
  <2>2. w.signatures[1] \in S
    BY <2>1
  <2> QED
    BY <2>2 DEF S
<1>3. w.signatures[1].protected \in SignerHeaders(signer)
  BY <1>2 DEF SignaturesBy
<1> QED
  BY <1>3, SentKidType DEF Kids

\* A step that leaves a call alone keeps its invariant.
LEMMA CallKept ==
    ASSUME NEW c \in Calls, VerifyInv(c), Sent \subseteq Sent',
           resolver' = resolver \/ pc[c] \in {"idle", "done"},
           pc'[c] = pc[c], token'[c] = token[c], payload'[c] = payload[c],
           resolved'[c] = resolved[c], outcome'[c] = outcome[c],
           offered'[c] = offered[c], seen'[c] = seen[c]
    PROVE  VerifyInv(c)'
<1>1. Judged(c)' = Judged(c)
  BY DEF Judged
<1>2. Refused(c)' <=> Refused(c)
  BY <1>1 DEF Refused
<1>3. Traceable(token[c].signed, token[c].signer) =>
         Traceable(token[c].signed, token[c].signer)'
  BY DEF Traceable
<1> QED
  BY <1>1, <1>2, <1>3 DEF VerifyInv

LEMMA SendKeeps ==
    ASSUME IInv, Send
    PROVE  IInv'
<1>1. SenderInv /\ SenderInv' /\ signer' = signer /\ ~ signer'.multi
  BY SenderNextKeeps, SenderWrites DEF IInv, Send
<1>2. wire \subseteq wire' /\ Sent \subseteq Sent'
  BY SenderWrites DEF Send, Sent
<1>3. ASSUME NEW w \in wire'
      PROVE  Traceable(w.signed, w.signatures[1].signer)'
  <2>1. CASE w \in wire
    <3>1. Traceable(w.signed, w.signatures[1].signer)
      BY <2>1 DEF IInv, TransportInv
    <3> QED
      BY <1>2, <3>1 DEF Traceable
  <2>2. CASE w \notin wire
    <3>1. PICK c \in Senders :
              /\ Serialize(c)
              /\ MessageSize(signing[c]) \in 1 .. signer.config.maxTokenSize
              /\ wire' = wire \cup {Message(signing[c])}
      BY <1>3, <2>2, SenderWrites DEF Send
    <3>2. w = Message(signing[c])
      BY <1>3, <2>2, <3>1
    <3>3. ~ w.altered
      BY <1>1, <3>1, <3>2, SerializedMessage
    <3> QED
      BY <1>3, <3>3 DEF Traceable, Sent
  <2> QED
    BY <2>1, <2>2
<1>4. UNCHANGED <<offered, receiverVars>>
  BY DEF Send
<1>5. \A c \in Calls : VerifyInv(c)'
  BY <1>2, <1>4, CallKept DEF IInv, receiverVars
<1>6. TransportInv'
  BY <1>3 DEF TransportInv
<1>7. Shape'
  BY <1>4 DEF IInv, Shape, receiverVars
<1> QED
  BY <1>1, <1>5, <1>6, <1>7 DEF IInv

LEMMA Replaced ==
    ASSUME NEW S, NEW q \in Seq(S), q # <<>>, NEW x \in S
    PROVE  LET new == [q EXCEPT ![1] = x] IN
           new \in Seq(S) /\ Len(new) = Len(q) /\ new[1] = x
  OBVIOUS

\* What the transport makes of a message.
LEMMA AlterAdds ==
    ASSUME SenderInv, ~ signer.multi, TransportInv, NEW w \in wire, Alter(w)
    PROVE  \E new : /\ wire' = wire \cup {new}
                    /\ new.altered /\ MessageShape(signer, new)
                    /\ Traceable(new.signed, new.signatures[1].signer)
<1> DEFINE S == SignaturesBy(signer)
<1>1. MessageShape(signer, w) /\ 1 \in DOMAIN signer.keys
      /\ Traceable(w.signed, w.signatures[1].signer)
  BY OneSignature DEF SenderInv, TransportInv
<1>2. CASE wire' = wire \cup {[w EXCEPT !.altered = TRUE,
                                      !.signatures[1].signer = NilMaterial]}
  <2>1. PICK new : new = [w EXCEPT !.altered = TRUE, !.signatures[1].signer = NilMaterial]
    OBVIOUS
  <2>2. PICK corrupted : corrupted = [w.signatures[1] EXCEPT !.signer = NilMaterial]
    OBVIOUS
  <2>3. /\ DOMAIN new = DOMAIN w /\ new.altered = TRUE
        /\ new.size = w.size /\ new.wellFormed = w.wellFormed
        /\ new.publics = w.publics
        /\ new.signed = w.signed /\ new.embedded = w.embedded
        /\ new.signatures = [w.signatures EXCEPT ![1] = corrupted]
    BY <1>1, <2>1, <2>2 DEF MessageShape
  <2>4. w.signatures \in Seq(S) /\ w.signatures[1] \in S /\ w.signatures # <<>>
    <3>1. /\ w.signatures \in Seq(S) /\ Len(signer.keys) \in Nat
          /\ Len(w.signatures) = Len(signer.keys) /\ Len(signer.keys) >= 1
      BY <1>1 DEF MessageShape, SenderInv, SignerType
    <3> HIDE DEF S
    <3> QED
      BY <3>1
  <2>5. corrupted \in S /\ corrupted.signer = NilMaterial
    BY <2>2, <2>4 DEF SignaturesBy
  <2>6. /\ new.signatures \in Seq(S) /\ Len(new.signatures) = Len(w.signatures)
        /\ new.signatures[1] = corrupted
    <3> HIDE DEF S
    <3> QED
      BY <2>3, <2>4, <2>5, Replaced
  <2>7. MessageShape(signer, new)
    BY <1>1, <2>3, <2>6 DEF MessageShape
  <2>8. Traceable(new.signed, new.signatures[1].signer)
    BY <2>5, <2>6 DEF Traceable
  <2> QED
    BY <1>2, <2>1, <2>3, <2>7, <2>8
<1>3. ASSUME NEW p \in Payloads \ {w.embedded},
             wire' = wire \cup {[w EXCEPT !.altered = TRUE, !.embedded = p]}
      PROVE  \E new : /\ wire' = wire \cup {new}
                      /\ new.altered /\ MessageShape(signer, new)
                      /\ Traceable(new.signed, new.signatures[1].signer)
  <2>1. PICK new : new = [w EXCEPT !.altered = TRUE, !.embedded = p]
    OBVIOUS
  <2>2. /\ DOMAIN new = DOMAIN w /\ new.altered = TRUE
        /\ new.size = w.size /\ new.wellFormed = w.wellFormed
        /\ new.publics = w.publics
        /\ new.signed = w.signed /\ new.embedded = p
        /\ new.signatures = w.signatures
    BY <1>1, <2>1 DEF MessageShape
  <2>3. MessageShape(signer, new)
    BY <1>1, <2>2 DEF MessageShape
  <2> QED
    BY <1>1, <1>3, <2>1, <2>2, <2>3
<1> QED
  BY <1>2, <1>3 DEF Alter

LEMMA AlterKeeps ==
    ASSUME IInv, NEW w \in wire, Alter(w)
    PROVE  IInv' /\ Sent' = Sent
<1>1. PICK new : /\ wire' = wire \cup {new}
                 /\ new.altered /\ MessageShape(signer, new)
                 /\ Traceable(new.signed, new.signatures[1].signer)
  BY AlterAdds DEF IInv
<1>2. /\ UNCHANGED <<signer, opaqueKey, wiped, signing>>
      /\ UNCHANGED <<offered, receiverVars>>
  BY DEF Alter
<1>3. Sent' = Sent
  BY <1>1 DEF Sent
<1>4. SenderInv'
  BY <1>1, <1>2 DEF IInv, SenderInv
<1>5. TransportInv'
  BY <1>1, <1>3 DEF IInv, TransportInv, Traceable
<1>6. \A c \in Calls : VerifyInv(c)'
  BY <1>2, <1>3, CallKept DEF IInv, receiverVars
<1>7. Shape'
  BY <1>2 DEF IInv, Shape, receiverVars
<1> QED
  BY <1>2, <1>3, <1>4, <1>5, <1>6, <1>7 DEF IInv

\* What the steps of one call leave alone.
LEMMA OneCallMoves ==
    ASSUME IInv, NEW c \in Calls, Verify(c) \/ \E w \in wire : Receive(c, w)
    PROVE  /\ UNCHANGED senderVars /\ resolver' = resolver /\ Sent' = Sent
           /\ Shape'
           /\ \A d \in Calls \ {c} :
                 /\ pc'[d] = pc[d] /\ token'[d] = token[d] /\ payload'[d] = payload[d]
                 /\ resolved'[d] = resolved[d] /\ outcome'[d] = outcome[d]
                 /\ offered'[d] = offered[d] /\ seen'[d] = seen[d]
                 /\ verifiedID'[d] = verifiedID[d]
<1> USE DEF IInv, Shape, senderVars, Sent, Receiver!given, Receiver!Return
<1>1. CASE \E w \in wire : Receive(c, w)
  BY <1>1 DEF Receive, Receiver!Begin
<1>2. CASE Receiver!ResolverFailure(c) /\ UNCHANGED <<senderVars, offered>>
  BY <1>2 DEF Receiver!ResolverFailure
<1>3. CASE Receiver!NilKeyResolved(c) /\ UNCHANGED <<senderVars, offered>>
  BY <1>3 DEF Receiver!NilKeyResolved
<1>4. CASE Receiver!KeyResolved(c) /\ UNCHANGED <<senderVars, offered>>
  BY <1>4 DEF Receiver!KeyResolved
<1>5. CASE Receiver!SignatureInvalid(c) /\ UNCHANGED <<senderVars, offered>>
  BY <1>5 DEF Receiver!SignatureInvalid
<1>6. CASE Receiver!Verified(c) /\ UNCHANGED <<senderVars, offered>>
  BY <1>6 DEF Receiver!Verified
<1> QED
  BY <1>1, <1>2, <1>3, <1>4, <1>5, <1>6 DEF Verify, Receiver!Step

\* It is enough to look at the call that moves.
LEMMA OneCallKeeps ==
    ASSUME IInv, NEW c \in Calls, Verify(c) \/ \E w \in wire : Receive(c, w),
           VerifyInv(c)'
    PROVE  IInv'
<1>1. /\ UNCHANGED senderVars /\ resolver' = resolver /\ Sent' = Sent
      /\ Shape'
      /\ \A d \in Calls \ {c} :
            /\ pc'[d] = pc[d] /\ token'[d] = token[d] /\ payload'[d] = payload[d]
            /\ resolved'[d] = resolved[d] /\ outcome'[d] = outcome[d]
            /\ offered'[d] = offered[d] /\ seen'[d] = seen[d]
            /\ verifiedID'[d] = verifiedID[d]
  BY OneCallMoves
<1>2. SenderInv'
  BY <1>1, SenderNextKeeps DEF IInv
<1>3. \A d \in Calls : VerifyInv(d)'
  BY <1>1, CallKept DEF IInv
<1>4. TransportInv'
  BY <1>1 DEF IInv, TransportInv, Traceable, senderVars
<1> QED
  BY <1>1, <1>2, <1>3, <1>4 DEF IInv, senderVars

LEMMA ReceiveKeeps ==
    ASSUME IInv, NEW c \in Calls, NEW w \in wire, Receive(c, w)
    PROVE  VerifyInv(c)'
<1>1. PICK d \in BOOLEAN, p \in Payloads \cup {NilPayload} :
         /\ ~ d => p = w.embedded
         /\ offered' = [offered EXCEPT ![c] = [detached |-> d, payload |-> p]]
         /\ Receiver!Begin(c, Parsed(w),
                IF d THEN Receiver!DetachedError(Parsed(w), p)
                     ELSE Receiver!MessageError(Parsed(w)), p)
  BY DEF Receive
<1>2. PICK error : error = IF d THEN Receiver!DetachedError(Parsed(w), p)
                                ELSE Receiver!MessageError(Parsed(w))
  OBVIOUS
<1>3. Receiver!Begin(c, Parsed(w), error, p)
  BY <1>1, <1>2
<1>4. /\ offered'[c] = [detached |-> d, payload |-> p] /\ token'[c] = Parsed(w)
      /\ seen'[c] = {resolver} /\ resolver' = resolver /\ pc[c] = "idle"
      /\ resolver \in Trusted /\ outcome[c] = "none"
  BY <1>1, <1>3 DEF Receiver!Begin, IInv, Shape, VerifyInv
<1>5. Judged(c)' = error
  BY <1>2, <1>4 DEF Judged
<1>6. /\ Parsed(w).signed = w.signed /\ Parsed(w).signer = w.signatures[1].signer
      /\ Parsed(w).header = w.signatures[1].protected
      /\ Parsed(w).embedded = w.embedded
  BY DEF Parsed
<1>7. Traceable(token[c].signed, token[c].signer)' /\ token'[c].header.kid \in Kids
      /\ (offered'[c].detached \/ offered'[c].payload = token'[c].embedded)
  <2>1. Traceable(w.signed, w.signatures[1].signer)
    BY DEF IInv, TransportInv
  <2>2. Sent' = Sent
    BY OneCallMoves
  <2>3. w.signatures[1].protected.kid \in Kids
    BY SentHeaderKid DEF IInv
  <2> QED
    BY <1>1, <1>4, <1>6, <2>1, <2>2, <2>3 DEF Traceable
<1>8. CASE error = "none"
  <2>1. pc'[c] = "resolving" /\ payload'[c] = p /\ outcome'[c] = "none"
    BY <1>3, <1>4, <1>8 DEF Receiver!Begin, IInv, Shape
  <2> QED
    BY <1>4, <1>5, <1>7, <1>8, <2>1 DEF VerifyInv
<1>9. CASE error # "none"
  <2>1. pc'[c] = "done"
    BY <1>3, <1>9 DEF Receiver!Begin, Receiver!Return, IInv, Shape
  <2>2. Refused(c)'
    BY <1>5, <1>9 DEF Refused
  <2> QED
    BY <1>4, <1>7, <2>1, <2>2 DEF VerifyInv
<1> QED
  BY <1>8, <1>9

LEMMA ResolverRefusesKeeps ==
    ASSUME IInv, NEW c \in Calls,
           Receiver!ResolverFailure(c) \/ Receiver!NilKeyResolved(c),
           UNCHANGED <<senderVars, offered>>
    PROVE  VerifyInv(c)'
<1>1. /\ pc[c] = "resolving" /\ pc'[c] = "done" /\ VerifyInv(c)
      /\ seen'[c] = seen[c] /\ token'[c] = token[c] /\ offered'[c] = offered[c]
      /\ resolver \in seen[c]
      /\ \/ Receiver!Answer(resolver, token[c].header).error # "none"
         \/ Receiver!Answer(resolver, token[c].header).material = NilMaterial
  BY DEF IInv, Shape, VerifyInv, Receiver!ResolverFailure, Receiver!NilKeyResolved,
         Receiver!Return, Receiver!given, Receiver!Reply
<1>2. Refused(c)
  BY <1>1 DEF Refused
<1>3. Refused(c)'
  BY <1>1, <1>2 DEF Refused, Judged
<1>4. Traceable(token[c].signed, token[c].signer)'
  BY <1>1 DEF VerifyInv, Traceable, Sent, senderVars
<1> QED
  BY <1>1, <1>3, <1>4 DEF VerifyInv

LEMMA KeyResolvedKeeps ==
    ASSUME IInv, NEW c \in Calls, Receiver!KeyResolved(c), UNCHANGED <<senderVars, offered>>
    PROVE  VerifyInv(c)'
<1>1. /\ pc[c] = "resolving" /\ pc'[c] = "verifying" /\ VerifyInv(c)
      /\ seen'[c] = seen[c] /\ token'[c] = token[c] /\ offered'[c] = offered[c]
      /\ outcome'[c] = outcome[c] /\ payload'[c] = payload[c] /\ resolver' = resolver
      /\ resolved'[c] = Receiver!Answer(resolver, token[c].header)
      /\ resolved'[c].error = "none" /\ resolved'[c].material # NilMaterial
  BY DEF IInv, Shape, Receiver!KeyResolved, Receiver!given, Receiver!Reply
<1>2. Judged(c)' = Judged(c)
  BY <1>1 DEF Judged
<1>3. Traceable(token[c].signed, token[c].signer)'
  BY <1>1 DEF VerifyInv, Traceable, Sent, senderVars
<1> QED
  BY <1>1, <1>2, <1>3 DEF VerifyInv

LEMMA SignatureInvalidKeeps ==
    ASSUME IInv, NEW c \in Calls, Receiver!SignatureInvalid(c),
           UNCHANGED <<senderVars, offered>>
    PROVE  VerifyInv(c)'
<1>1. /\ pc[c] = "verifying" /\ pc'[c] = "done" /\ VerifyInv(c)
      /\ seen'[c] = seen[c] /\ token'[c] = token[c] /\ offered'[c] = offered[c]
      /\ token[c].signer # resolved[c].material \/ token[c].signed # payload[c]
  BY DEF IInv, Shape, Receiver!SignatureInvalid, Receiver!SignatureValid,
         Receiver!Intact, Receiver!Return, Receiver!given
<1>2. PICK r \in seen[c] : resolved[c] = Receiver!Answer(r, token[c].header)
  BY <1>1 DEF VerifyInv
<1>3. payload[c] = offered[c].payload
  BY <1>1 DEF VerifyInv
<1>4. Refused(c)
  BY <1>1, <1>2, <1>3 DEF Refused
<1>5. Refused(c)'
  BY <1>1, <1>4 DEF Refused, Judged
<1>6. Traceable(token[c].signed, token[c].signer)'
  BY <1>1 DEF VerifyInv, Traceable, Sent, senderVars
<1> QED
  BY <1>1, <1>5, <1>6 DEF VerifyInv

LEMMA VerifiedKeeps ==
    ASSUME IInv, NEW c \in Calls, Receiver!Verified(c), UNCHANGED <<senderVars, offered>>
    PROVE  VerifyInv(c)'
<1>1. /\ pc[c] = "verifying" /\ pc'[c] = "done" /\ outcome'[c] = "verified"
      /\ VerifyInv(c) /\ seen'[c] = seen[c] /\ token'[c] = token[c]
      /\ offered'[c] = offered[c]
  BY DEF IInv, Shape, Receiver!Verified, Receiver!Return, Receiver!given
<1>2. Traceable(token[c].signed, token[c].signer)'
  BY <1>1 DEF VerifyInv, Traceable, Sent, senderVars
<1> QED
  BY <1>1, <1>2 DEF VerifyInv

LEMMA ChangeKeysKeeps ==
    ASSUME IInv, ChangeKeys
    PROVE  IInv' /\ Sent' = Sent
<1>1. PICK r \in Resolvers : /\ Receiver!IsFunction(r) /\ resolver' = r
                             /\ Receiver!Record(r)
  BY DEF ChangeKeys, Receiver!ChangeAnswers
<1>2. /\ UNCHANGED <<senderVars, offered>>
      /\ UNCHANGED <<pc, token, payload, resolved, outcome, verifiedID>>
  BY DEF ChangeKeys, Receiver!ChangeAnswers
<1>3. r \in Trusted
  BY <1>1 DEF Receiver!IsFunction, Trusted
<1>4. Sent' = Sent
  BY <1>2 DEF Sent, senderVars
<1>5. SenderInv'
  BY <1>2, SenderNextKeeps DEF IInv
<1>6. TransportInv'
  BY <1>2, <1>4 DEF IInv, TransportInv, Traceable, senderVars
<1>7. Shape'
  BY <1>1, <1>2, <1>3 DEF IInv, Shape, Receiver!Record
<1>8. ASSUME NEW c \in Calls
      PROVE  VerifyInv(c)'
  <2>1. CASE pc[c] \in {"idle", "done"}
    <3>1. seen'[c] = seen[c]
      BY <1>1, <2>1 DEF Receiver!Record, Receiver!InProgress
    <3> QED
      BY <1>2, <1>4, <2>1, <3>1, CallKept DEF IInv
  <2>2. CASE pc[c] \in {"resolving", "verifying"}
    <3>1. seen'[c] = seen[c] \cup {r}
      BY <1>1, <2>2 DEF Receiver!Record, Receiver!InProgress
    <3>2. Judged(c)' = Judged(c)
      BY <1>2 DEF Judged
    <3>3. VerifyInv(c)
      BY DEF IInv
    <3>4. Traceable(token[c].signed, token[c].signer)'
      BY <1>2, <1>4, <2>2, <3>3 DEF VerifyInv, Traceable
    <3> QED
      BY <1>1, <1>2, <1>3, <2>2, <3>1, <3>2, <3>3, <3>4 DEF VerifyInv
  <2> QED
    BY <2>1, <2>2 DEF IInv, VerifyInv
<1> QED
  BY <1>2, <1>4, <1>5, <1>6, <1>7, <1>8 DEF IInv, senderVars

LEMMA NextKeeps == IInv /\ [Next]_vars => IInv'
<1>1. SUFFICES ASSUME IInv, [Next]_vars
               PROVE  IInv'
  OBVIOUS
<1>2. CASE Send
  BY <1>1, <1>2, SendKeeps
<1>3. ASSUME NEW w \in wire, Alter(w)
      PROVE  IInv'
  BY <1>1, <1>3, AlterKeeps
<1>4. ASSUME NEW w \in wire, NEW c \in Calls, Receive(c, w)
      PROVE  IInv'
  BY <1>1, <1>4, ReceiveKeeps, OneCallKeeps
<1>5. ASSUME NEW c \in Calls, Verify(c)
      PROVE  IInv'
  <2>1. VerifyInv(c)'
    BY <1>1, <1>5, ResolverRefusesKeeps, KeyResolvedKeeps, SignatureInvalidKeeps,
       VerifiedKeeps DEF Verify, Receiver!Step
  <2> QED
    BY <1>1, <1>5, <2>1, OneCallKeeps
<1>6. CASE ChangeKeys
  BY <1>1, <1>6, ChangeKeysKeeps
<1>7. CASE UNCHANGED vars
  <2>1. Sent' = Sent /\ UNCHANGED <<senderVars, offered, receiverVars>>
    BY <1>7 DEF vars, Sent, senderVars
  <2>2. SenderInv'
    BY <1>1, <2>1, SenderNextKeeps DEF IInv
  <2>3. \A c \in Calls : VerifyInv(c)'
    BY <1>1, <2>1, CallKept DEF IInv, receiverVars
  <2>4. TransportInv' /\ Shape' /\ ~ signer'.multi
    BY <1>1, <2>1 DEF IInv, TransportInv, Traceable, Shape, senderVars, receiverVars
  <2> QED
    BY <2>2, <2>3, <2>4 DEF IInv
<1> QED
  BY <1>1, <1>2, <1>3, <1>4, <1>5, <1>6, <1>7 DEF Next

\* The invariant of sender, transport and verifier: a signature on the wire is
\* the signer's own or corrupted, and the end of every call has a cause.
THEOREM IInvAlways == Spec => []IInv
  BY InitInv, NextKeeps, PTL DEF Spec

\* The signatures of a signer are those of the keys it was built from, in their
\* order, whatever is overwritten meanwhile (key.go:18-20).
THEOREM SignersKeepTheirKeysAlways == Spec => []SignersKeepTheirKeys
<1>1. IInv => SignersKeepTheirKeys
  BY SenderInvKeepsKeys DEF IInv
<1> QED
  BY <1>1, IInvAlways, PTL

\* Every signature's kid is the one the application set, or else its key's; an
\* opaque signer's kid and key are those of one JWK, or of two that succeeded
\* each other during the call.
THEOREM SignedUnderItsKidAlways == Spec => []SignedUnderItsKid
<1>1. IInv => SignedUnderItsKid
  BY SenderInvSignsUnderKid DEF IInv
<1> QED
  BY <1>1, IInvAlways, PTL

-----------------------------------------------------------------------------
(* The signer's own messages.                                              *)

\* The header of a signer that agrees with the verifier passes its checks.
LEMMA AgreedHeaderPasses ==
    ASSUME SenderInv, Agreement, NEW header \in SignerHeaders(signer),
           header.kid \notin UnfitKids
    PROVE  Receiver!HeaderError(header) = "none"
  BY AgreedHeader DEF Receiver!HeaderError, Receiver!ParseProtectedHeader,
                      ParseProtectedHeader, ValidateHeaderPolicy

\* What an unaltered message carries.
LEMMA UnalteredMessage ==
    ASSUME SenderInv, ~ signer.multi, NEW w \in wire, ~ w.altered
    PROVE  /\ w.size \in 1 .. signer.config.maxTokenSize /\ w.wellFormed
           /\ w.signed \in Payloads /\ w.embedded \in {w.signed, EmptyPayload}
           /\ PayloadSize[w.signed] <= signer.config.maxPayloadSize
           /\ w.signatures[1].protected \in SignerHeaders(signer)
           /\ w.signatures[1].signer \in Material
<1>1. MessageShape(signer, w) /\ MessageInv(signer, w) /\ 1 \in DOMAIN signer.keys
  BY OneSignature DEF SenderInv
<1>2. signer.keys[1] \in BuiltKeys
  BY <1>1 DEF SenderInv, SignerType
<1>3. w.signatures[1].signer \in Material
  BY <1>1, <1>2, SignerOfType DEF MessageInv, MessageShape, MadeBy
<1> QED
  BY <1>1, <1>3, SentHeaderKid DEF MessageInv, MessageShape

LEMMA OwnMessagePasses ==
    ASSUME SenderInv, ~ signer.multi, Agreement, NEW w \in wire, ~ w.altered, NEW c \in Calls,
           token[c] = Parsed(w), offered[c].payload = w.signed,
           offered[c].detached => w.embedded = EmptyPayload,
           ~ offered[c].detached => w.embedded = w.signed,
           w.signatures[1].protected.kid \notin UnfitKids,
           w.signatures[1].protected.alg \in AllowedAlgorithms
    PROVE  Judged(c) = "none"
<1> DEFINE t == Parsed(w)
<1>1. /\ t.size = w.size /\ t.wellFormed = w.wellFormed
      /\ t.header = w.signatures[1].protected /\ t.embedded = w.embedded
  BY DEF Parsed
<1>2. /\ w.size \in 1 .. signer.config.maxTokenSize /\ w.wellFormed
      /\ w.signed \in Payloads
      /\ PayloadSize[w.signed] <= signer.config.maxPayloadSize
      /\ w.signatures[1].protected \in SignerHeaders(signer)
  BY UnalteredMessage
<1>3. /\ signer.config.maxTokenSize \in Nat /\ signer.config.maxPayloadSize \in Nat
  BY DEF SenderInv, SignerType, ConfigType, Limits
<1>4. /\ signer.config.maxTokenSize <= MaxTokenSize
      /\ signer.config.maxPayloadSize <= MaxPayloadSize
      /\ MaxTokenSize \in Nat /\ MaxPayloadSize \in Nat
  BY HeadersAssumption DEF Agreement
<1>5. Receiver!RawTokenError(t) = "none"
  BY <1>1, <1>2, <1>3, <1>4 DEF Receiver!RawTokenError
<1>6. w.signed \notin LargePayloads
  <2>1. PayloadSize[w.signed] \in Nat
    BY <1>2, SenderAssumption
  <2> QED
    BY <1>2, <1>3, <1>4, <2>1 DEF LargePayloads
<1>7. Receiver!PayloadError(w.signed) = "none"
  BY <1>2, <1>6, SenderAssumption DEF Receiver!PayloadError
<1>8. Receiver!HeaderError(t.header) = "none"
  BY <1>1, <1>2, AgreedHeaderPasses
<1>9. Receiver!ParseSignedCompact(t)
  BY <1>1, <1>2 DEF Receiver!ParseSignedCompact
<1> HIDE DEF t
<1>10. CASE offered[c].detached
  <2>1. Receiver!DetachedError(t, w.signed) = "none"
    BY <1>1, <1>5, <1>7, <1>8, <1>9, <1>10
       DEF Receiver!DetachedError, Receiver!ParseDetached
  <2> QED
    BY <1>10, <2>1 DEF Judged, t
<1>11. CASE ~ offered[c].detached
  <2>1. Receiver!MessageError(t) = "none"
    BY <1>1, <1>5, <1>6, <1>8, <1>9, <1>11 DEF Receiver!MessageError
  <2> QED
    BY <1>11, <2>1 DEF Judged, t
<1> QED
  BY <1>10, <1>11

\* A message that arrives unaltered is verified, if the two applications agree
\* on its header, limits and keys.
THEOREM OwnMessagesVerifyAlways == Spec => []OwnMessagesVerify
<1>1. ASSUME IInv, NEW c \in Calls, NEW w \in wire, NEW r \in seen[c],
             pc[c] = "done", seen[c] = {r}, ~ w.altered, token[c] = Parsed(w),
             offered[c].payload = w.signed,
             offered[c].detached => w.embedded = EmptyPayload,
             Understands(r, w), outcome[c] # "verified"
      PROVE  FALSE
  <2> DEFINE sent == w.signatures[1]
             reply == Receiver!Answer(r, sent.protected)
  <2>1. /\ Agreement /\ sent.protected.kid \notin UnfitKids
        /\ sent.protected.alg \in AllowedAlgorithms
        /\ reply.error = "none" /\ reply.material = sent.signer
    BY <1>1 DEF Understands
  <2>2. /\ token[c].header = sent.protected /\ token[c].signer = sent.signer
        /\ token[c].signed = w.signed /\ token[c].embedded = w.embedded
    BY <1>1 DEF Parsed
  <2>3. VerifyInv(c) /\ SenderInv /\ ~ signer.multi
    BY <1>1 DEF IInv
  <2>4. ~ offered[c].detached => w.embedded = w.signed
    BY <1>1, <2>2, <2>3 DEF VerifyInv
  <2>5. Judged(c) = "none"
    BY <1>1, <2>1, <2>3, <2>4, OwnMessagePasses
  <2>6. sent.signer # NilMaterial
    BY <1>1, <2>3, UnalteredMessage, MaterialAssumption DEF Material
  <2>7. Refused(c)
    BY <1>1, <2>3 DEF VerifyInv
  <2>8. Receiver!Answer(r, token[c].header) = reply
    BY <2>2
  <2> HIDE DEF reply, sent
  <2> QED
    BY <1>1, <2>1, <2>2, <2>5, <2>6, <2>7, <2>8 DEF Refused
<1>2. IInv => OwnMessagesVerify
  BY <1>1 DEF OwnMessagesVerify
<1> QED
  BY <1>2, IInvAlways, PTL

-----------------------------------------------------------------------------
(* The signed channel.                                                     *)

\* The abstract state: what was signed (Sent), what is known, what is verified.
KnownNow == UNION {{n \in Named(r) : n.key \in Material} :
                      r \in {resolver} \cup UNION {seen[c] : c \in Calls}}
VerifiedNow == [c \in Calls |->
                   IF outcome[c] # "verified" THEN NoKid
                   ELSE [message |-> payload[c], name |-> verifiedID[c]]]

\* Names and keys are of the channel's types.
LEMMA KnownType == IInv => KnownNow \in SUBSET [name : Kids, key : Material]
<1>1. SUFFICES ASSUME IInv
               PROVE  KnownNow \in SUBSET [name : Kids, key : Material]
  OBVIOUS
<1>2. {resolver} \cup UNION {seen[c] : c \in Calls} \subseteq Trusted
  BY <1>1 DEF IInv, Shape, VerifyInv
<1> QED
  BY <1>2, NamedType DEF KnownNow

LEMMA ChannelInit == Init => Channel!Init
<1>1. SUFFICES ASSUME Init
               PROVE  Channel!Init
  OBVIOUS
<1>2. Sent = {}
  BY <1>1 DEF Init, SenderInit, Sent
<1>3. KnownNow \in SUBSET [name : Kids, key : Material]
  BY <1>1, InitInv, KnownType
<1>4. VerifiedNow = [c \in Calls |-> NoKid]
  BY <1>1 DEF Init, Receiver!Init, VerifiedNow
<1> QED
  BY <1>2, <1>3, <1>4 DEF Channel!Init, Sent, KnownNow, VerifiedNow, Kids

\* The actions of the channel in the terms of the exchange.
LEMMA ChannelActions ==
    /\ (\E m \in Payloads, k \in Material :
           Sent' = Sent \cup {[message |-> m, key |-> k]})
       /\ KnownNow' = KnownNow /\ VerifiedNow' = VerifiedNow => Channel!Next
    /\ KnownNow' \in SUBSET [name : Kids, key : Material]
       /\ Sent' = Sent /\ VerifiedNow' = VerifiedNow => Channel!Next
    /\ \A c \in Calls :
          VerifiedNow[c] = NoKid
          /\ (\E s \in Sent, k \in KnownNow :
                 /\ k.key = s.key
                 /\ VerifiedNow' = [VerifiedNow EXCEPT
                                       ![c] = [message |-> s.message, name |-> k.name]])
          /\ Sent' = Sent /\ KnownNow' = KnownNow => Channel!Next
    /\ Sent' = Sent /\ KnownNow' = KnownNow /\ VerifiedNow' = VerifiedNow
       => UNCHANGED Channel!vars
<1>1. Sent' = Sent /\ KnownNow' = KnownNow /\ VerifiedNow' = VerifiedNow
      => UNCHANGED Channel!vars
  BY Zenon DEF Channel!vars, Sent, KnownNow, VerifiedNow
<1>2. (\E m \in Payloads, k \in Material :
           Sent' = Sent \cup {[message |-> m, key |-> k]})
      /\ KnownNow' = KnownNow /\ VerifiedNow' = VerifiedNow => Channel!Sign
  BY Zenon DEF Channel!Sign, Sent, KnownNow, VerifiedNow
<1>3. KnownNow' \in SUBSET [name : Kids, key : Material]
      /\ Sent' = Sent /\ VerifiedNow' = VerifiedNow => Channel!Trust
  BY Zenon DEF Channel!Trust, Sent, KnownNow, VerifiedNow, Kids
<1>4. \A c \in Calls :
          VerifiedNow[c] = NoKid
          /\ (\E s \in Sent, k \in KnownNow :
                 /\ k.key = s.key
                 /\ VerifiedNow' = [VerifiedNow EXCEPT
                                       ![c] = [message |-> s.message, name |-> k.name]])
          /\ Sent' = Sent /\ KnownNow' = KnownNow => Channel!Verify(c)
  BY Zenon DEF Channel!Verify, Sent, KnownNow, VerifiedNow
<1> QED
  BY <1>1, <1>2, <1>3, <1>4, Zenon DEF Channel!Next

\* A call that does not succeed leaves what is verified as it is.
LEMMA VerifiedStays ==
    ASSUME IInv, IInv', NEW c \in Calls, Verify(c) \/ \E w \in wire : Receive(c, w),
           outcome[c] # "verified", outcome'[c] # "verified"
    PROVE  VerifiedNow' = VerifiedNow
<1>1. \A d \in Calls \ {c} : /\ outcome'[d] = outcome[d] /\ payload'[d] = payload[d]
                             /\ verifiedID'[d] = verifiedID[d]
  BY OneCallMoves
<1> QED
  BY <1>1 DEF VerifiedNow

LEMMA SendSteps ==
    ASSUME IInv, IInv', Send
    PROVE  [Channel!Next]_(Channel!vars)
<1>1. KnownNow' = KnownNow /\ VerifiedNow' = VerifiedNow
  BY DEF Send, receiverVars, KnownNow, VerifiedNow
<1>2. CASE wire' = wire
  <2>1. Sent' = Sent
    BY <1>2 DEF Sent
  <2> QED
    BY <1>1, <2>1, ChannelActions
<1>3. ASSUME NEW c \in Senders, Serialize(c),
             MessageSize(signing[c]) \in 1 .. signer.config.maxTokenSize,
             wire' = wire \cup {Message(signing[c])}
      PROVE  [Channel!Next]_(Channel!vars)
  <2>1. PICK w : w = Message(signing[c])
    OBVIOUS
  <2>2. /\ ~ w.altered /\ MessageShape(signer, w)
        /\ w.signatures[1].signer \in Material
    BY <1>3, <2>1, SerializedMessage, OneSignature DEF IInv
  <2>3. w.signed \in Payloads
    BY <2>2 DEF MessageShape
  <2>4. Sent' = Sent \cup {[message |-> w.signed, key |-> w.signatures[1].signer]}
    BY <1>3, <2>1, <2>2 DEF Sent
  <2>5. Channel!Next
    BY <1>1, <2>2, <2>3, <2>4, ChannelActions
  <2> QED
    BY <2>5
<1> QED
  BY <1>2, <1>3, SenderWrites DEF Send

LEMMA VerifiedStep ==
    ASSUME IInv, IInv', NEW c \in Calls, Receiver!Verified(c),
           UNCHANGED <<senderVars, offered>>
    PROVE  Channel!Next
<1>1. /\ pc[c] = "verifying" /\ outcome' = [outcome EXCEPT ![c] = "verified"]
      /\ verifiedID' = [verifiedID EXCEPT ![c] = resolved[c].keyID]
      /\ payload' = payload /\ resolver' = resolver /\ seen' = seen
      /\ token[c].signer = resolved[c].material /\ token[c].signed = payload[c]
  BY DEF Receiver!Verified, Receiver!SignatureValid, Receiver!Return, Receiver!given
<1>2. /\ outcome[c] = "none" /\ resolved[c].error = "none"
      /\ resolved[c].material # NilMaterial /\ token[c].header.kid \in Kids
      /\ Traceable(token[c].signed, token[c].signer) /\ seen[c] \subseteq Trusted
  BY <1>1 DEF IInv, VerifyInv
<1>3. PICK r \in seen[c] : resolved[c] = Receiver!Answer(r, token[c].header)
  BY <1>1 DEF IInv, VerifyInv
<1>4. PICK k : k = [name |-> resolved[c].keyID, key |-> resolved[c].material]
  OBVIOUS
<1>5. k \in {n \in Named(r) : n.key \in Material}
  BY <1>2, <1>3, <1>4, AnswersAreNamed
<1>6. k \in KnownNow
  BY <1>5 DEF KnownNow
<1>7. PICK s : s = [message |-> payload[c], key |-> resolved[c].material]
  OBVIOUS
<1>8. s \in Sent
  BY <1>1, <1>2, <1>7 DEF Traceable
<1>9. VerifiedNow' = [VerifiedNow EXCEPT ![c] = [message |-> s.message, name |-> k.name]]
  <2>1. DOMAIN outcome = Calls /\ DOMAIN verifiedID = Calls
    BY DEF IInv, Shape
  <2>2. s.message = payload[c] /\ k.name = resolved[c].keyID
    BY <1>4, <1>7
  <2> QED
    BY <1>1, <2>1, <2>2 DEF VerifiedNow
<1>10. VerifiedNow[c] = NoKid
  BY <1>2 DEF VerifiedNow
<1>11. Sent' = Sent /\ KnownNow' = KnownNow
  <2>1. Sent' = Sent
    BY DEF Sent, senderVars
  <2>2. KnownNow' = KnownNow
    BY <1>1 DEF KnownNow
  <2> QED
    BY <2>1, <2>2
<1>12. k.key = s.key
  BY <1>4, <1>7
<1> QED
  BY <1>6, <1>8, <1>9, <1>10, <1>11, <1>12, ChannelActions

\* Only Verified verifies.
LEMMA OthersFail ==
    ASSUME IInv, NEW c \in Calls, Verify(c) \/ \E w \in wire : Receive(c, w),
           ~ (Receiver!Verified(c) /\ UNCHANGED <<senderVars, offered>>)
    PROVE  outcome[c] # "verified" /\ outcome'[c] # "verified"
<1>1. VerifyInv(c) /\ DOMAIN outcome = Calls /\ resolver \in Trusted
  BY DEF IInv, Shape
<1>2. ASSUME NEW w \in wire, Receive(c, w)
      PROVE  outcome[c] = "none" /\ outcome'[c] # "verified"
  <2>1. PICK d \in BOOLEAN, p \in Payloads \cup {NilPayload} :
           Receiver!Begin(c, Parsed(w),
              IF d THEN Receiver!DetachedError(Parsed(w), p)
                   ELSE Receiver!MessageError(Parsed(w)), p)
    BY <1>2 DEF Receive
  <2>2. PICK error : error = IF d THEN Receiver!DetachedError(Parsed(w), p)
                                  ELSE Receiver!MessageError(Parsed(w))
    OBVIOUS
  <2>3. error # "verified"
    BY <2>2 DEF Receiver!DetachedError, Receiver!MessageError, Receiver!RawTokenError,
                Receiver!PayloadError, Receiver!HeaderError
  <2>4. Receiver!Begin(c, Parsed(w), error, p)
    BY <2>1, <2>2
  <2> QED
    BY <1>1, <2>3, <2>4 DEF Receiver!Begin, Receiver!Return, VerifyInv
<1>3. ASSUME Verify(c)
      PROVE  outcome[c] = "none" /\ outcome'[c] # "verified"
  <2>1. CASE Receiver!ResolverFailure(c)
    <3>1. /\ pc[c] = "resolving"
          /\ outcome'[c] = Receiver!Answer(resolver, token[c].header).error
      BY <1>1, <2>1 DEF Receiver!ResolverFailure, Receiver!Return, Receiver!Reply
    <3>2. outcome[c] = "none" /\ token[c].header.kid \in Kids
      BY <1>1, <3>1 DEF VerifyInv
    <3> QED
      BY <1>1, <3>1, <3>2, AnswerError
  <2>2. CASE Receiver!NilKeyResolved(c) \/ Receiver!SignatureInvalid(c)
    BY <1>1, <2>2 DEF Receiver!NilKeyResolved, Receiver!SignatureInvalid,
                      Receiver!Return, VerifyInv
  <2>3. CASE Receiver!KeyResolved(c)
    BY <1>1, <2>3 DEF Receiver!KeyResolved, VerifyInv
  <2> QED
    BY <1>3, <2>1, <2>2, <2>3 DEF Verify, Receiver!Step
<1> QED
  BY <1>2, <1>3

LEMMA CallSteps ==
    ASSUME IInv, IInv', NEW c \in Calls, Verify(c) \/ \E w \in wire : Receive(c, w)
    PROVE  [Channel!Next]_(Channel!vars)
<1>1. CASE Receiver!Verified(c) /\ UNCHANGED <<senderVars, offered>>
  BY <1>1, VerifiedStep
<1>2. CASE ~ (Receiver!Verified(c) /\ UNCHANGED <<senderVars, offered>>)
  <2>1. VerifiedNow' = VerifiedNow
    BY <1>2, OthersFail, VerifiedStays
  <2>2. Sent' = Sent
    BY OneCallMoves
  <2>3. KnownNow' \in SUBSET [name : Kids, key : Material]
    <3>1. (KnownNow \in SUBSET [name : Kids, key : Material])'
      BY KnownType, PTL
    <3> QED
      BY <3>1
  <2> QED
    BY <2>1, <2>2, <2>3, ChannelActions
<1> QED
  BY <1>1, <1>2

LEMMA ChannelNext == IInv /\ IInv' /\ [Next]_vars => [Channel!Next]_(Channel!vars)
<1>1. SUFFICES ASSUME IInv, IInv', [Next]_vars
               PROVE  [Channel!Next]_(Channel!vars)
  OBVIOUS
<1>2. CASE Send
  BY <1>1, <1>2, SendSteps
<1>3. ASSUME NEW w \in wire, Alter(w)
      PROVE  [Channel!Next]_(Channel!vars)
  <2>1. Sent' = Sent
    BY <1>1, <1>3, AlterKeeps
  <2>2. UNCHANGED receiverVars
    BY <1>3 DEF Alter
  <2>3. KnownNow' = KnownNow /\ VerifiedNow' = VerifiedNow
    BY <2>2 DEF receiverVars, KnownNow, VerifiedNow
  <2> QED
    BY <2>1, <2>3, ChannelActions
<1>4. ASSUME NEW c \in Calls, Verify(c) \/ \E w \in wire : Receive(c, w)
      PROVE  [Channel!Next]_(Channel!vars)
  BY <1>1, <1>4, CallSteps
<1>5. CASE ChangeKeys
  <2>1. Sent' = Sent
    BY <1>1, <1>5, ChangeKeysKeeps
  <2>2. VerifiedNow' = VerifiedNow
    BY <1>5 DEF ChangeKeys, Receiver!ChangeAnswers, VerifiedNow
  <2>3. KnownNow' \in SUBSET [name : Kids, key : Material]
    <3>1. (KnownNow \in SUBSET [name : Kids, key : Material])'
      BY <1>1, KnownType, PTL
    <3> QED
      BY <3>1
  <2> QED
    BY <2>1, <2>2, <2>3, ChannelActions
<1>6. CASE UNCHANGED vars
  <2>1. Sent' = Sent /\ KnownNow' = KnownNow /\ VerifiedNow' = VerifiedNow
    BY <1>6 DEF vars, senderVars, receiverVars, Sent, KnownNow, VerifiedNow
  <2> QED
    BY <2>1, ChannelActions
<1> QED
  BY <1>1, <1>2, <1>3, <1>4, <1>5, <1>6 DEF Next

\* Signer, transport and verifier together are a signed channel: what a call
\* verifies was signed by the key known under the identity it returns.
THEOREM ImplementsChannelAlways == Spec => ImplementsChannel
  BY ChannelInit, ChannelNext, IInvAlways, PTL DEF Spec, ImplementsChannel, Channel!Spec
=============================================================================
