-------------------------- MODULE JWSMultiVerifier --------------------------
(***************************************************************************)
(* jws.MultiVerifier (jws/multi_verifier.go): concurrent VerifyMessage     *)
(* calls on one shared verifier, an application key resolver whose answers *)
(* change while calls are in progress (keys rotated or revoked, the key    *)
(* store failing and recovering), and contexts cancelled at any moment.    *)
(*                                                                         *)
(* Signatures are idealised: a signature is valid under a key exactly when *)
(* that key is its signer. A serialized message is a record of what the    *)
(* code asks of it: its size, whether it parses, its signatures, the size  *)
(* of its payload.                                                         *)
(***************************************************************************)
EXTENDS SignaturePolicies, JWSHeaders

CONSTANTS
    Calls,              \* concurrent VerifyMessage calls
    Keys, NilKey,       \* key material; the nil interface value
    MaxSignatures,      \* config.maxSignatures
    Tokens,             \* the serialized messages callers present
    Registries          \* the answers the resolver's key store may be giving

\* alg is the algorithm of the merged headers, the one go-jose checks; the
\* signer of a corrupted signature is NilKey, which no resolved key equals.
Signatures == [alg : Algorithms \cup {NoAlgorithm}, protected : Headers,
               signer : Keys \cup {NilKey}]

TokenType == [size : Nat, wellFormed : BOOLEAN,
              signatures : Seq(Signatures), payloadSize : Nat]

\* What Resolve returns: a ResolvedKey, ErrKeyNotFound, or any other error.
Resolutions == [status : {"found", "notFound", "failed"}, keyID : KeyIDs,
            key : Keys \cup {NilKey}]

NoReply == [status |-> "notFound", keyID |-> NoKeyID, key |-> NilKey]

ASSUME VerifierAssumption ==
    /\ NilKey \notin Keys
    /\ MaxSignatures \in Nat \ {0}
    /\ Tokens \subseteq TokenType
    /\ Registries \subseteq [KeyHints \cup {NoKid} -> Resolutions]

VARIABLES
    policy,     \* config.policy
    registry,   \* what the resolver answers for each protected kid, now
    pc,         \* where each call is
    token,      \* the message of each call
    cancelled,  \* whether the context of each call is done
    resolved,   \* the resolved key in hand, between Resolve and Verify
    results,    \* the results slice
    hasValid,   \* hasValidSignature
    outcome,    \* how each call returned
    seen        \* history: the registries in force since each call began

\* What the steps of a call never change.
given == <<policy, registry, token, cancelled, seen>>

vars == <<policy, registry, pc, token, cancelled, resolved, results,
          hasValid, outcome, seen>>

NoToken == [size |-> 0, wellFormed |-> FALSE, signatures |-> <<>>,
            payloadSize |-> 0]

\* object.Signatures, and the signature the loop is at.
SignaturesOf(c) == token[c].signatures
Current(c) == SignaturesOf(c)[Len(results[c]) + 1]
Exhausted(c) == Len(results[c]) = Len(SignaturesOf(c))

-----------------------------------------------------------------------------
(* Pure parts of the handler.                                              *)

\* The first of VerifyMessage's and verify's checks a message fails.
Admission(t) ==
    IF t.size = 0 THEN "MissingToken"
    ELSE IF t.size > MaxTokenSize THEN "TokenTooLarge"
    ELSE IF \/ ~ t.wellFormed \/ t.signatures = <<>>
            \/ \E i \in DOMAIN t.signatures :
                   t.signatures[i].alg \notin AllowedAlgorithms
         THEN "MalformedToken"
    ELSE IF Len(t.signatures) > MaxSignatures THEN "TooManySignatures"
    ELSE IF t.payloadSize > MaxPayloadSize THEN "PayloadTooLarge"
    ELSE "admitted"

HeaderAccepted(signature) ==
    /\ ParseProtectedHeader(signature.protected)
    /\ ValidateHeaderPolicy(signature.protected)

\* Mutant: AllOf(RequireAnySignature(), ...) stops early as well.
StopsForNestedAny == \E q \in Nodes(policy) : q.kind = "any"

\* The type assertion on config.policy: only a bare any policy stops early.
StopAfterFirstValid == policy.kind = "any"

-----------------------------------------------------------------------------
Init ==
    /\ policy \in {p \in Policies : ValidPolicy(p)}
    /\ registry \in Registries
    /\ pc = [c \in Calls |-> "idle"]
    /\ token = [c \in Calls |-> NoToken]
    /\ cancelled = [c \in Calls |-> FALSE]
    /\ resolved = [c \in Calls |-> NoReply]
    /\ results = [c \in Calls |-> <<>>]
    /\ hasValid = [c \in Calls |-> FALSE]
    /\ outcome = [c \in Calls |-> "none"]
    /\ seen = [c \in Calls |-> {}]

Return(c, how) ==
    /\ pc' = [pc EXCEPT ![c] = "done"]
    /\ outcome' = [outcome EXCEPT ![c] = how]

\* results = append(results, result), then the end of the loop body.
Record(c, keyID, valid) ==
    /\ results' = [results EXCEPT
                     ![c] = Append(@, [keyID |-> keyID, valid |-> valid])]
    /\ hasValid' = [hasValid EXCEPT ![c] = @ \/ valid]
    /\ pc' = [pc EXCEPT ![c] = IF valid /\ StopAfterFirstValid
                               THEN "evaluate" ELSE "loop"]

\* VerifyMessage up to the loop of verify.
VerifyToken(c, t) ==
    /\ pc[c] = "idle"
    /\ token' = [token EXCEPT ![c] = t]
    /\ \/ /\ Admission(t) = "admitted"
          /\ pc' = [pc EXCEPT ![c] = "loop"]
          /\ UNCHANGED outcome
       \/ /\ Admission(t) # "admitted"
          /\ Return(c, Admission(t))
    /\ seen' = [seen EXCEPT ![c] = {registry}]
    /\ UNCHANGED <<policy, registry, cancelled, resolved, results, hasValid>>

VerifyMessage(c) == \E t \in Tokens : VerifyToken(c, t)

\* verifySignature looks at the context before anything else.
CheckContext(c) ==
    /\ pc[c] = "loop" /\ ~ Exhausted(c)
    /\ cancelled[c]
    /\ Return(c, "Cancelled")
    /\ UNCHANGED <<given, resolved, results, hasValid>>

\* A malformed header or a header policy mismatch fails this signature only.
RejectHeader(c) ==
    /\ pc[c] = "loop" /\ ~ Exhausted(c)
    /\ ~ cancelled[c]
    /\ ~ HeaderAccepted(Current(c))
    /\ Record(c, NoKeyID, FALSE)
    /\ UNCHANGED <<given, resolved, outcome>>

\* Mutant: the context is not looked at between two signatures.
CallResolverAnyway(c) ==
    /\ pc[c] = "loop" /\ ~ Exhausted(c)
    /\ HeaderAccepted(Current(c))
    /\ pc' = [pc EXCEPT ![c] = "resolving"]
    /\ UNCHANGED <<given, resolved, results, hasValid, outcome>>

CallResolver(c) ==
    /\ pc[c] = "loop" /\ ~ Exhausted(c)
    /\ ~ cancelled[c]
    /\ HeaderAccepted(Current(c))
    /\ pc' = [pc EXCEPT ![c] = "resolving"]
    /\ UNCHANGED <<given, resolved, results, hasValid, outcome>>

\* What the resolver answers for the signature at hand. It reads its store
\* at some moment between the call and the return; this step is that moment.
Reply(c) == registry[Current(c).protected.kid]

\* Mutant: an unavailable key store is treated as a missing key.
AnyErrorAsMissingKey(c) ==
    /\ pc[c] = "resolving"
    /\ Reply(c).status # "found"
    /\ Record(c, NoKeyID, FALSE)
    /\ UNCHANGED <<given, resolved, outcome>>

\* errors.Is(err, ErrKeyNotFound) fails this signature only.
KeyNotFound(c) ==
    /\ pc[c] = "resolving"
    /\ Reply(c).status = "notFound"
    /\ Record(c, NoKeyID, FALSE)
    /\ UNCHANGED <<given, resolved, outcome>>

\* Any other error aborts the call; a resolver that watches the context may
\* give one up because it is done.
ResolverFailure(c) ==
    /\ pc[c] = "resolving"
    /\ Reply(c).status = "failed" \/ cancelled[c]
    /\ Return(c, "ResolverFailure")
    /\ UNCHANGED <<given, resolved, results, hasValid>>

NilKeyResolved(c) ==
    /\ pc[c] = "resolving"
    /\ Reply(c).status = "found" /\ Reply(c).key = NilKey
    /\ Return(c, "NilKey")
    /\ UNCHANGED <<given, resolved, results, hasValid>>

\* Mutant: the resolved key is kept in the shared verifier.
KeyResolvedShared(c) ==
    /\ pc[c] = "resolving"
    /\ Reply(c).status = "found" /\ Reply(c).key # NilKey
    /\ resolved' = [d \in Calls |-> Reply(c)]
    /\ pc' = [pc EXCEPT ![c] = "verifying"]
    /\ UNCHANGED <<given, results, hasValid, outcome>>

KeyResolved(c) ==
    /\ pc[c] = "resolving"
    /\ Reply(c).status = "found" /\ Reply(c).key # NilKey
    /\ resolved' = [resolved EXCEPT ![c] = Reply(c)]
    /\ pc' = [pc EXCEPT ![c] = "verifying"]
    /\ UNCHANGED <<given, results, hasValid, outcome>>

\* Mutant: the whole object is verified instead of the isolated signature,
\* so another signature of the message can vouch for this one.
VerifyWholeObject(c) ==
    /\ pc[c] = "verifying"
    /\ Record(c, resolved[c].keyID,
              \E i \in DOMAIN SignaturesOf(c) :
                  SignaturesOf(c)[i].signer = resolved[c].key)
    /\ resolved' = [resolved EXCEPT ![c] = NoReply]
    /\ UNCHANGED <<given, outcome>>

\* Mutant: the identity is the protected kid instead of the resolver's.
VerifyForHeaderKid(c) ==
    /\ pc[c] = "verifying"
    /\ Record(c, Current(c).protected.kid, Current(c).signer = resolved[c].key)
    /\ resolved' = [resolved EXCEPT ![c] = NoReply]
    /\ UNCHANGED <<given, outcome>>

\* isolated.Verify; a failed signature keeps the identity it failed under.
VerifySignature(c) ==
    /\ pc[c] = "verifying"
    /\ Record(c, resolved[c].keyID, Current(c).signer = resolved[c].key)
    /\ resolved' = [resolved EXCEPT ![c] = NoReply]
    /\ UNCHANGED <<given, outcome>>

LoopEnded(c) == pc[c] = "evaluate" \/ (pc[c] = "loop" /\ Exhausted(c))

NoValidSignature(c) ==
    /\ LoopEnded(c)
    /\ ~ hasValid[c]
    /\ Return(c, "NoValidSignature")
    /\ UNCHANGED <<given, resolved, results, hasValid>>

PolicyRejects(c) ==
    /\ LoopEnded(c)
    /\ hasValid[c]
    /\ ~ Evaluate(policy, results[c])
    /\ Return(c, "PolicyRejected")
    /\ UNCHANGED <<given, resolved, results, hasValid>>

\* Mutant: a custom policy alone decides.
AcceptByPolicyAlone(c) ==
    /\ LoopEnded(c)
    /\ Evaluate(policy, results[c])
    /\ Return(c, "Accepted")
    /\ UNCHANGED <<given, resolved, results, hasValid>>

Accept(c) ==
    /\ LoopEnded(c)
    /\ hasValid[c]
    /\ Evaluate(policy, results[c])
    /\ Return(c, "Accepted")
    /\ UNCHANGED <<given, resolved, results, hasValid>>

\* The environment: the caller's context ends, the key store changes.
Cancel(c) ==
    /\ pc[c] # "done" /\ ~ cancelled[c]
    /\ cancelled' = [cancelled EXCEPT ![c] = TRUE]
    /\ UNCHANGED <<policy, registry, pc, token, resolved, results, hasValid,
                   outcome, seen>>

InProgress(c) == pc[c] \notin {"idle", "done"}

ChangeRegistry ==
    /\ registry' \in Registries \ {registry}
    /\ seen' = [c \in Calls |-> IF InProgress(c) THEN seen[c] \cup {registry'}
                                ELSE seen[c]]
    /\ UNCHANGED <<policy, pc, token, cancelled, resolved, results, hasValid,
                   outcome>>

ProcessSignature(c) ==
    \/ CheckContext(c) \/ RejectHeader(c) \/ CallResolver(c)
    \/ KeyNotFound(c) \/ ResolverFailure(c) \/ NilKeyResolved(c)
    \/ KeyResolved(c) \/ VerifySignature(c)

Conclude(c) == NoValidSignature(c) \/ PolicyRejects(c) \/ Accept(c)

Step(c) == ProcessSignature(c) \/ Conclude(c)

Next ==
    \/ \E c \in Calls : VerifyMessage(c) \/ Step(c) \/ Cancel(c)
    \/ ChangeRegistry

Spec == Init /\ [][Next]_vars

\* A goroutine in a call keeps running, and the resolver returns.
Fairness == \A c \in Calls : WF_vars(Step(c))

FairSpec == Spec /\ Fairness
=============================================================================
