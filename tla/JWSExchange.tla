---------------------------- MODULE JWSExchange ----------------------------
(***************************************************************************)
(* Two applications that exchange Compact JWS, attached and detached: the  *)
(* calls of JWSSender on a Signer, a transport that delays, reorders,      *)
(* duplicates, loses and alters messages, and the calls of JWSVerifier.    *)
(* The verifier is configured with options of its own.                     *)
(***************************************************************************)
EXTENDS JWSSender

CONSTANTS
    Calls, Resolvers, MaxSources,   \* see JWSVerifier
    VerifierOptions,    \* what NewVerifier is given
    MaxAlterations      \* bound: altered messages

LargePayloads == {p \in Payloads : PayloadSize[p] > MaxPayloadSize}

ASSUME ExchangeAssumption ==
    /\ ValidOptions(VerifierOptions)
    /\ LET config == MakeConfig(VerifierOptions) IN
       /\ VerifierConfig(config)
       /\ ExpectedTyp = config.typ /\ ExpectedCty = config.cty
       /\ MaxTokenSize = config.maxTokenSize
       /\ MaxPayloadSize = config.maxPayloadSize
    /\ MaxAlterations \in Nat

VARIABLES
    offered,    \* how each call verifies: [detached, payload]
    resolver, pc, token, payload, resolved, outcome, verifiedID, seen

receiverVars == <<resolver, pc, token, payload, resolved, outcome, verifiedID,
                  seen>>
vars == <<senderVars, offered, receiverVars>>

Receiver == INSTANCE JWSVerifier WITH Tokens <- {}, Wipeable <- {}, wiped <- {}

ASSUME ResolversAssumption == \A r \in Resolvers : Receiver!KeyArgument(r)

Init ==
    /\ SenderInit /\ ~ signer.multi
    /\ offered = [c \in Calls |-> [detached |-> FALSE, payload |-> NilPayload]]
    /\ Receiver!Init

Send == SenderNext /\ UNCHANGED <<offered, receiverVars>>

\* A corrupted signature or header, or another payload.
Alter(w) ==
    /\ Cardinality({v \in wire : v.altered}) < MaxAlterations
    /\ \/ wire' = wire \cup {[w EXCEPT !.altered = TRUE,
                                       !.signatures[1].signer = NilMaterial]}
       \/ \E p \in Payloads \ {w.embedded} :
             wire' = wire \cup {[w EXCEPT !.altered = TRUE, !.embedded = p]}
    /\ UNCHANGED <<signer, opaqueKey, wiped, signing, offered, receiverVars>>

\* A serialized message as the verifier sees it.
Parsed(w) == [size |-> w.size, wellFormed |-> w.wellFormed,
              header |-> w.signatures[1].protected, embedded |-> w.embedded,
              signed |-> w.signed, signer |-> w.signatures[1].signer]

\* VerifyMessage, or VerifyDetached with some payload.
Receive(c, w) ==
    /\ \E d \in BOOLEAN, p \in Payloads \cup {NilPayload} :
          /\ ~ d => p = w.embedded
          /\ offered' = [offered EXCEPT ![c] = [detached |-> d, payload |-> p]]
          /\ Receiver!Begin(c, Parsed(w),
                 IF d THEN Receiver!DetachedError(Parsed(w), p)
                      ELSE Receiver!MessageError(Parsed(w)), p)
    /\ UNCHANGED senderVars

Verify(c) == Receiver!Step(c) /\ UNCHANGED <<senderVars, offered>>

ChangeKeys == Receiver!ChangeAnswers /\ UNCHANGED <<senderVars, offered>>

Next ==
    \/ Send
    \/ \E w \in wire : Alter(w) \/ \E c \in Calls : Receive(c, w)
    \/ \E c \in Calls : Verify(c)
    \/ ChangeKeys

Spec == Init /\ [][Next]_vars

-----------------------------------------------------------------------------
\* The keys a resolver may answer with, and their names. A static raw key
\* has no name.
Named(r) ==
    CASE r.kind = "function" -> {[name |-> a.keyID, key |-> a.material] :
                                    a \in {r.answers[k] : k \in DOMAIN r.answers}}
      [] r.kind = "raw" -> {[name |-> NoKid, key |-> r.material]}
      [] r.kind = "jwk" -> {[name |-> r.jwk.keyID, key |-> r.jwk.material]}
      [] r.kind = "jwks" -> {[name |-> r.keys[i].keyID, key |-> r.keys[i].material] :
                                i \in DOMAIN r.keys}

Channel == INSTANCE SignedChannel WITH
    Verifiers <- Calls, Messages <- Payloads, SignKeys <- Material,
    Identities <- KeyHints \cup {NoKid}, Nothing <- NoKid,
    signed <- {[message |-> w.signed, key |-> w.signatures[1].signer] :
                  w \in {v \in wire : ~ v.altered}},
    known <- UNION {{n \in Named(r) : n.key \in Material} :
                       r \in {resolver} \cup UNION {seen[c] : c \in Calls}},
    verified <- [c \in Calls |->
                    IF outcome[c] # "verified" THEN NoKid
                    ELSE [message |-> payload[c], name |-> verifiedID[c]]]

\* The payload a call returns, attached or the caller's own, is one that was
\* signed by the key known under the identity returned, however the transport
\* mixes messages and payloads and whatever is rotated and overwritten
\* meanwhile: signer, transport and verifier together are a SignedChannel.
ImplementsChannel == Channel!Spec

\* What the verifier's application has to do to verify the sender's messages:
\* agree on the header, on limits and on the key of the kid that was sent.
Understands(r, w) ==
    LET sent == w.signatures[1] IN
    /\ Agreement
    /\ sent.protected.kid \notin UnfitKids
    /\ sent.protected.alg \in AllowedAlgorithms
    /\ Receiver!Answer(r, sent.protected).error = "none"
    /\ Receiver!Answer(r, sent.protected).material = sent.signer

\* A message that arrives unaltered is verified, by VerifyMessage or, given
\* the detached payload, by VerifyDetached, if the two applications agree on
\* its header and keys: type and content type mean the same in the options of
\* both sides, of several that set one parameter the last counts, and what the
\* signer's limits let out the same limits let in.
OwnMessagesVerify ==
    \A c \in Calls, w \in wire : \A r \in seen[c] :
        /\ pc[c] = "done" /\ seen[c] = {r}
        /\ ~ w.altered /\ token[c] = Parsed(w)
        /\ offered[c].payload = w.signed
        /\ offered[c].detached => w.embedded = EmptyPayload
        /\ Understands(r, w)
        => outcome[c] = "verified"
=============================================================================
