----------------------- MODULE JWSMultiVerifierProps -----------------------
(* What makes JWSMultiVerifier correct. *)
EXTENDS JWSMultiVerifier

Rejections == {"MissingToken", "TokenTooLarge", "MalformedToken",
               "TooManySignatures", "PayloadTooLarge"}
Aborts == {"Cancelled", "ResolverFailure", "NilKey"}
PolicyFailures == {"NoValidSignature", "PolicyRejected"}  \* ErrVerificationPolicy

TypeOK ==
    /\ policy \in Policies
    /\ registry \in Registries
    /\ pc \in [Calls -> {"idle", "loop", "resolving", "verifying",
                         "evaluate", "done"}]
    /\ token \in [Calls -> TokenType]
    /\ cancelled \in [Calls -> BOOLEAN]
    /\ resolved \in [Calls -> Resolutions]
    /\ results \in [Calls -> Results]
    /\ hasValid \in [Calls -> BOOLEAN]
    /\ outcome \in [Calls -> {"none", "Accepted"} \cup Rejections \cup Aborts
                               \cup PolicyFailures]
    /\ seen \in [Calls -> SUBSET Registries]

-----------------------------------------------------------------------------
(* The truth of a message under the registries a call has lived through.   *)

Answer(signature, r) == r[signature.protected.kid]

\* The key r gives for the signature really signed it.
Genuine(signature, r) ==
    /\ HeaderAccepted(signature)
    /\ Answer(signature, r).status = "found"
    /\ Answer(signature, r).key # NilKey
    /\ Answer(signature, r).key = signature.signer

\* Looking the signature's key up in r breaks the whole call.
Fatal(signature, r) ==
    /\ HeaderAccepted(signature)
    /\ \/ Answer(signature, r).status = "failed"
       \/ Answer(signature, r).status = "found"
          /\ Answer(signature, r).key = NilKey

Approval(i, keyID) == [index |-> i, keyID |-> keyID]

GenuineApprovals(t, r) ==
    {Approval(i, Answer(t.signatures[i], r).keyID) :
        i \in {j \in DOMAIN t.signatures : Genuine(t.signatures[j], r)}}

\* The approvals some registry in force during c vouches for.
Vouched(c) == UNION {GenuineApprovals(token[c], r) : r \in seen[c]}

\* A message is accepted only on signatures that are genuine under keys the
\* resolver trusted, for the identities it trusted them for, at some moment
\* of that very call, and these are enough for the policy: whatever is
\* rotated, revoked or restored meanwhile, no acceptance rests on a corrupted
\* signature, an unresolved key, an identity copied from a header, or a key
\* that another call saw. At least one such signature exists, whatever a
\* custom policy says (verify, multi_verifier.go:184-199).
AcceptedIsVouched ==
    \A c \in Calls : outcome[c] = "Accepted" =>
        /\ Vouched(c) # {}
        /\ Satisfied(policy, Vouched(c), Len(SignaturesOf(c)))

\* An acceptance has the evidence its policy is about: every signature of the
\* message was processed, except under the bare any policy, which stops at
\* its first valid signature and so returns it last (multi_verifier.go:157-180).
AcceptedEvidence ==
    \A c \in Calls : outcome[c] = "Accepted" =>
        \/ policy.kind # "any" /\ Exhausted(c)
        \/ /\ policy.kind = "any"
           /\ \A i \in DOMAIN results[c] :
                  results[c][i].valid <=> i = Len(results[c])

\* ErrVerificationPolicy is a statement about the whole message: every
\* signature was processed, and each one not counted as valid failed on its
\* own account under a registry of the call. Neither a cancelled context nor
\* a failing key store is ever reduced to it (multi_verifier.go:162-168).
RejectionIsPerSignature ==
    \A c \in Calls : outcome[c] \in PolicyFailures =>
        /\ Exhausted(c)
        /\ \A i \in DOMAIN SignaturesOf(c) :
              \/ results[c][i].valid
              \/ \E r \in seen[c] : /\ ~ Genuine(SignaturesOf(c)[i], r)
                                    /\ ~ Fatal(SignaturesOf(c)[i], r)

\* A configured policy accepts exactly the results its documentation promises
\* to accept and the application's functions in it agree to: the loops of
\* policy.go, which walk lists and rebuild the set of valid identities, decide
\* by the set of distinct approvers. Repeated signatures of one identity count
\* once, failed results lend their identity to nothing, and the anonymous
\* identity approves nothing. This holds of the results at every point of the
\* loop, not only of those of whole messages.
PolicyKeepsPromise ==
    \A c \in Calls :
        Evaluate(policy, results[c])
            <=> /\ Satisfied(policy, Approvals(results[c]), Len(results[c]))
                /\ FunctionsAgree(policy, results[c])

\* "Additional signatures do not affect the decision" (RequireKeyIDs), and
\* the early end of RequireAnySignature is sound: without RequireAllSignatures
\* and functions of the application in the policy, no further result, valid
\* or not, revokes an acceptance.
AcceptanceIsStable ==
    [][\A c \in Calls : Monotone(policy) /\ Evaluate(policy, results[c])
          => Evaluate(policy, results'[c])]_vars

-----------------------------------------------------------------------------
(* The verdict of a call nothing disturbs, as a function of its message.   *)

\* Under the bare any policy a fatal lookup only counts before the first
\* genuine signature.
Aborted(t, r) ==
    \E i \in DOMAIN t.signatures :
        /\ Fatal(t.signatures[i], r)
        /\ policy.kind = "any" =>
              \A j \in 1 .. i - 1 : ~ Genuine(t.signatures[j], r)

\* The identity reported of a signature, and what is reported of every
\* signature of t, when r gives the keys.
ReportedKeyID(signature, r) ==
    IF HeaderAccepted(signature) /\ Answer(signature, r).status = "found"
    THEN Answer(signature, r).keyID
    ELSE NoKeyID

Reported(t, r) ==
    [i \in DOMAIN t.signatures |->
        [keyID |-> ReportedKeyID(t.signatures[i], r),
         valid |-> Genuine(t.signatures[i], r)]]

UndisturbedVerdict(t, r) ==
    IF Admission(t) # "admitted" THEN {Admission(t)}
    ELSE IF Aborted(t, r) THEN {"ResolverFailure", "NilKey"}
    ELSE IF GenuineApprovals(t, r) = {} THEN {"NoValidSignature"}
    ELSE IF /\ Satisfied(policy, GenuineApprovals(t, r), Len(t.signatures))
            /\ FunctionsAgree(policy, Reported(t, r))
         THEN {"Accepted"}
    ELSE {"PolicyRejected"}

\* While the registry stays the same and the context lives, the verdict is a
\* function of the message and the registry: it does not depend on what other
\* calls do or on the order in which the steps of the calls interleave, and a
\* message that satisfies the policy is accepted, not only the converse.
UndisturbedCallIsDeterministic ==
    \A c \in Calls : \A r \in Registries :
        pc[c] = "done" /\ seen[c] = {r} /\ ~ cancelled[c] =>
            outcome[c] \in UndisturbedVerdict(token[c], r)

\* "Do not start processing another signature after cancellation"
\* (multi_verifier.go:216): once its context is done a call asks the resolver
\* nothing more, and the only result it can still add is that of the
\* signature in flight.
NothingStartsAfterCancellation ==
    [][\A c \in Calls : cancelled[c] =>
          /\ pc'[c] = "resolving" => pc[c] = "resolving"
          /\ results'[c] # results[c] => pc[c] \in {"resolving", "verifying"}]_vars

-----------------------------------------------------------------------------
(* The verifier implements SignatureAcceptance: its results, read as a set *)
(* of approvals, and its outcome are those of the abstract call.           *)

VerdictOf(c) ==
    CASE pc[c] = "idle" -> "idle"
      [] pc[c] # "idle" /\ pc[c] # "done" -> "pending"
      [] pc[c] = "done" /\ outcome[c] = "Accepted" -> "accepted"
      [] pc[c] = "done" /\ outcome[c] \in PolicyFailures -> "refused"
      [] OTHER -> "failed"

Acceptance == INSTANCE SignatureAcceptance WITH
    verdict <- [c \in Calls |-> VerdictOf(c)],
    approvals <- [c \in Calls |-> Approvals(results[c])],
    count <- [c \in Calls |-> Len(SignaturesOf(c))]

\* Every behaviour of the verifier is one of the abstract call: approvals are
\* gathered in the order of the message and never withdrawn, a returned call
\* is decided for good, a policy error is returned exactly when the approvals
\* gathered do not deserve acceptance or a function of the application may
\* have refused them, and a call in progress is decided.
ImplementsAcceptance == Acceptance!FairSpec
=============================================================================
