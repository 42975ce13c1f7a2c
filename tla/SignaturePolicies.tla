------------------------- MODULE SignaturePolicies -------------------------
(***************************************************************************)
(* The signature policies of jws/policy.go: what a MultiVerifier asks of   *)
(* the results of the signatures it has processed.                         *)
(*                                                                         *)
(* A policy is a record whose "kind" names the Go type it stands for:      *)
(*   [kind |-> "any"]                                requireAnyPolicy      *)
(*   [kind |-> "all"]                                requireAllProvided... *)
(*   [kind |-> "keyIDs", keyIDs |-> <<...>>]         requiredKeyIDsPolicy  *)
(*   [kind |-> "threshold", minimum, keyIDs]         thresholdPolicy       *)
(*   [kind |-> "allOf", policies |-> <<...>>]        allOfPolicy           *)
(*   [kind |-> "func", accepts |-> <set of results>] SignaturePolicyFunc   *)
(*   [kind |-> "nilFunc"]                            SignaturePolicyFunc(nil) *)
(*   [kind |-> "nil"]                                a nil interface value *)
(* An application's function is any function of the results, given by the  *)
(* set of the result sequences it accepts.                                 *)
(*                                                                         *)
(* A result is [keyID, valid]: SignatureResult without the header and with *)
(* the error reduced to Valid(); Index is its place in the sequence.       *)
(***************************************************************************)
EXTENDS Integers, Sequences, FiniteSets

CONSTANTS
    KeyIDs,          \* every canonical identity a resolver may return
    NoKeyID,         \* the empty identity ""
    ListableKeyIDs,  \* identities validateHeaderValue accepts: neither
                     \* empty nor over 256 bytes nor invalid UTF-8
    Policies         \* the policies an application tries to configure

Results == Seq([keyID : KeyIDs, valid : BOOLEAN])

\* The policies nested directly in a policy, and every policy of its tree.
\* The tree is at most two AllOf deep (AllOf of AllOf of simple policies).
Nested(policy) ==
    IF policy.kind = "allOf"
    THEN {policy.policies[i] : i \in DOMAIN policy.policies}
    ELSE {}

Nodes(policy) ==
    {policy} \cup Nested(policy) \cup UNION {Nested(q) : q \in Nested(policy)}

NamesKeyIDs(policy) == policy.kind \in {"keyIDs", "threshold"}

ASSUME KeyIDsAssumption ==
    /\ NoKeyID \in KeyIDs
    /\ ListableKeyIDs \subseteq KeyIDs \ {NoKeyID}

\* Policies are well typed, and none is nested deeper than Nodes reaches.
ASSUME PoliciesAssumption ==
    \A policy \in Policies : \A q \in Nodes(policy) :
        /\ q.kind \in {"any", "all", "keyIDs", "threshold", "allOf",
                       "func", "nilFunc", "nil"}
        /\ NamesKeyIDs(q) => q.keyIDs \in Seq(KeyIDs)
        /\ q.kind = "threshold" => q.minimum \in Int
        /\ q.kind = "func" => q.accepts \subseteq Results
        /\ q.kind = "allOf" => /\ DOMAIN q.policies = 1 .. Len(q.policies)
                               /\ Len(q.policies) \in Nat
                               /\ Nodes(q) \subseteq Nodes(policy)

-----------------------------------------------------------------------------
(* Validation: what WithSignaturePolicy and the policies' validate methods *)
(* refuse.                                                                 *)

NoDuplicates(s) == \A i, j \in DOMAIN s : s[i] = s[j] => i = j

\* Mutant: the duplicate test is missing from the loop.
ValidPolicyKeyIDsWithDuplicates(keyIDs) ==
    /\ Len(keyIDs) > 0
    /\ \A i \in DOMAIN keyIDs : keyIDs[i] \in ListableKeyIDs

ValidPolicyKeyIDs(keyIDs) ==
    /\ Len(keyIDs) > 0
    /\ \A i \in DOMAIN keyIDs : keyIDs[i] \in ListableKeyIDs
    /\ NoDuplicates(keyIDs)

ValidThreshold(policy) ==
    /\ ValidPolicyKeyIDs(policy.keyIDs)
    /\ policy.minimum \in 1 .. Len(policy.keyIDs)

\* One policy of the tree, without those nested in it.
ValidNode(policy) ==
    /\ policy.kind \notin {"nil", "nilFunc"}
    /\ policy.kind = "keyIDs" => ValidPolicyKeyIDs(policy.keyIDs)
    /\ policy.kind = "threshold" => ValidThreshold(policy)
    /\ policy.kind = "allOf" => Len(policy.policies) > 0

\* allOfPolicy.validate descends into every nested policy.
ValidPolicy(policy) == \A q \in Nodes(policy) : ValidNode(q)

-----------------------------------------------------------------------------
(* Evaluation.                                                             *)

ValidKeyIDs(results) ==
    {results[i].keyID : i \in {j \in DOMAIN results : results[j].valid}}
        \ {NoKeyID}

AnyValid(results) == \E i \in DOMAIN results : results[i].valid

AllProvidedValid(results) ==
    Len(results) > 0 /\ \A i \in DOMAIN results : results[i].valid

RequiredKeyIDsValid(policy, results) ==
    \A i \in DOMAIN policy.keyIDs : policy.keyIDs[i] \in ValidKeyIDs(results)

\* Mutant: the comparison with the minimum is made once, after the loop.
ThresholdExactlyReached(policy, results) ==
    /\ ValidThreshold(policy)
    /\ Cardinality({i \in DOMAIN policy.keyIDs :
                        policy.keyIDs[i] \in ValidKeyIDs(results)})
          = policy.minimum

\* The loop walks the configured list, so it counts places of the list; it
\* returns as soon as the count equals the minimum, which it does exactly
\* when the whole list holds at least that many.
ThresholdReached(policy, results) ==
    /\ ValidThreshold(policy)
    /\ Cardinality({i \in DOMAIN policy.keyIDs :
                        policy.keyIDs[i] \in ValidKeyIDs(results)})
          >= policy.minimum

\* Evaluate of one policy of the tree. allOfPolicy.Evaluate validates its
\* whole tree again; the policies nested in it are nodes of their own.
EvaluateNode(policy, results) ==
    /\ policy.kind \notin {"nil", "nilFunc"}
    /\ policy.kind = "any" => AnyValid(results)
    /\ policy.kind = "all" => AllProvidedValid(results)
    /\ policy.kind = "keyIDs" => RequiredKeyIDsValid(policy, results)
    /\ policy.kind = "threshold" => ThresholdReached(policy, results)
    /\ policy.kind = "allOf" => ValidPolicy(policy)
    /\ policy.kind = "func" => results \in policy.accepts

\* AllOf stops at the first nested error: the policy accepts when no node of
\* its tree refuses.
Evaluate(policy, results) ==
    \A q \in Nodes(policy) : EvaluateNode(q, results)

-----------------------------------------------------------------------------
(* Reference: what the policies promise (the comments of policy.go and the *)
(* README's "Signature Policies"), in terms of the set of approvals a      *)
(* message carries. An approval is a valid signature: its place in the     *)
(* message and the identity it was verified for.                           *)

Approvals(results) ==
    {[index |-> i, keyID |-> results[i].keyID] :
        i \in {j \in DOMAIN results : results[j].valid}}

Approvers(approvals) == {a.keyID : a \in approvals} \ {NoKeyID}

\* count is the number of signatures the message carries. An application's
\* function promises nothing in these terms.
SatisfiedNode(policy, approvals, count) ==
    /\ policy.kind \notin {"nil", "nilFunc"}
    /\ policy.kind = "any" => approvals # {}
    /\ policy.kind = "all" =>
           count > 0 /\ {a.index : a \in approvals} = 1 .. count
    /\ policy.kind = "keyIDs" =>
           {policy.keyIDs[i] : i \in DOMAIN policy.keyIDs}
               \subseteq Approvers(approvals)
    /\ policy.kind = "threshold" =>
           Cardinality({policy.keyIDs[i] : i \in DOMAIN policy.keyIDs}
                           \cap Approvers(approvals)) >= policy.minimum

Satisfied(policy, approvals, count) ==
    \A q \in Nodes(policy) : SatisfiedNode(q, approvals, count)

\* What the application's functions in a policy say of the results.
FunctionsAgree(policy, results) ==
    \A q \in Nodes(policy) : q.kind = "func" => results \in q.accepts

HasFunction(policy) == \E q \in Nodes(policy) : q.kind = "func"

\* A policy all of whose nodes can only gain from another result. A function
\* of the application may change its mind with every result.
Monotone(policy) ==
    \A q \in Nodes(policy) : q.kind \notin {"all", "func"}
=============================================================================
