-------------------------- MODULE JWSMultiExchange --------------------------
(***************************************************************************)
(* Two applications that exchange JWS JSON: the calls of JWSSender on a    *)
(* MultiSigner, a transport that delays, reorders, duplicates, loses and   *)
(* alters messages or some of their signatures, and the calls of           *)
(* JWSMultiVerifier with a policy.                                         *)
(***************************************************************************)
EXTENDS JWSSender, JWSMultiVerifierProps

CONSTANTS
    VerifierOptions,    \* what NewMultiVerifier is given besides the policy
    MaxAlterations      \* bound: altered messages

\* What the options make of the constants, and how the verifier's constants
\* are called by the sender; for an instance to assume.
ExchangeConfig ==
    /\ ValidOptions(VerifierOptions)
    /\ LET config == MakeConfig(VerifierOptions) IN
       /\ MultiVerifierConfig(config)
       /\ ExpectedTyp = config.typ /\ ExpectedCty = config.cty
       /\ MaxTokenSize = config.maxTokenSize
       /\ MaxPayloadSize = config.maxPayloadSize
       /\ MaxSignatures = config.maxSignatures
    /\ Keys = Material /\ NilKey = NilMaterial
    /\ KeyIDs = KeyHints \cup {NoKid} /\ NoKeyID = NoKid
    /\ ListableKeyIDs = KeyHints \ UnfitKids
    /\ MaxAlterations \in Nat

receiverVars == vars
exchangeVars == <<senderVars, receiverVars>>

ExchangeInit == SenderInit /\ signer.multi /\ Init

Send == SenderNext /\ UNCHANGED receiverVars

\* Some signatures, all of them or the payload are corrupted, or one is lost.
Alter(w) ==
    /\ Cardinality({v \in wire : v.altered}) < MaxAlterations
    /\ \/ \E bad \in SUBSET DOMAIN w.signatures \ {{}} :
             wire' = wire \cup {[w EXCEPT
                 !.altered = TRUE,
                 !.signatures = [i \in DOMAIN @ |->
                     IF i \in bad THEN [@[i] EXCEPT !.signer = NilMaterial]
                                  ELSE @[i]]]}
       \/ \E i \in DOMAIN w.signatures :
             wire' = wire \cup {[w EXCEPT !.altered = TRUE,
                                          !.signatures = RemoveAt(@, i)]}
    /\ UNCHANGED <<signer, opaqueKey, wiped, signing, receiverVars>>

\* A serialized message as the verifier sees it.
Parsed(w) == [size |-> w.size, wellFormed |-> w.wellFormed,
              signatures |-> w.signatures, payloadSize |-> PayloadSize[w.signed]]

Receive(c, w) == VerifyToken(c, Parsed(w)) /\ UNCHANGED senderVars

Verify(c) == (Step(c) \/ Cancel(c)) /\ UNCHANGED senderVars

ChangeKeys == ChangeRegistry /\ UNCHANGED senderVars

ExchangeNext ==
    \/ Send
    \/ \E w \in wire : Alter(w) \/ \E c \in Calls : Receive(c, w)
    \/ \E c \in Calls : Verify(c)
    \/ ChangeKeys

ExchangeSpec == ExchangeInit /\ [][ExchangeNext]_exchangeVars

-----------------------------------------------------------------------------
Intact(w) == {i \in DOMAIN w.signatures : w.signatures[i].signer # NilMaterial}

\* The registry has the key of every signature, under some identity.
Knows(r, w) ==
    \A i \in DOMAIN w.signatures :
        LET sent == w.signatures[i] IN
        /\ sent.protected.kid \notin UnfitKids
        /\ sent.alg \in AllowedAlgorithms
        /\ r[sent.protected.kid].status = "found"
        /\ r[sent.protected.kid].key # NilMaterial
        /\ i \in Intact(w) => r[sent.protected.kid].key = sent.signer

\* What the verifier reports of it under r.
Findings(r, w) ==
    [i \in DOMAIN w.signatures |->
        [keyID |-> r[w.signatures[i].protected.kid].keyID,
         valid |-> i \in Intact(w)]]

\* A message of a MultiSigner, whatever became of some of its signatures on
\* the way, is accepted by a verifier that is configured for the signer and
\* knows its keys exactly if the signatures left intact satisfy the policy,
\* and the application's functions in it agree to the results.
\* In particular a signer makes no more signatures than the same options let
\* a verifier look at (multi_signer.go:41, validation.go:60), and a message
\* that lost nothing satisfies every policy on the signer's own keys.
IntactSignaturesDecide ==
    \A c \in Calls, w \in wire : \A r \in seen[c] :
        /\ pc[c] = "done" /\ seen[c] = {r} /\ ~ cancelled[c]
        /\ token[c] = Parsed(w) /\ w.signatures # <<>>
        /\ Agreement /\ signer.config.maxSignatures <= MaxSignatures
        /\ Knows(r, w)
        => (outcome[c] = "Accepted" <=>
              /\ Intact(w) # {}
              /\ Satisfied(policy, Approvals(Findings(r, w)), Len(w.signatures))
              /\ FunctionsAgree(policy, Findings(r, w)))
=============================================================================
