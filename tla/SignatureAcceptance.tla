------------------------ MODULE SignatureAcceptance ------------------------
(***************************************************************************)
(* What a multi-signature verifier promises its callers, without headers,  *)
(* keys, resolvers or loops: a call gathers approvals of one message, in   *)
(* the order of the message and each at most once, and is then decided,    *)
(* for good, by what it gathered.                                          *)
(***************************************************************************)
EXTENDS SignaturePolicies

CONSTANT Calls

VARIABLES
    policy,
    verdict,    \* idle, pending, accepted, refused (policy) or failed
    approvals,  \* the approvals each call has gathered
    count       \* the number of signatures of its message

vars == <<policy, verdict, approvals, count>>

Init ==
    /\ policy \in {p \in Policies : ValidPolicy(p)}
    /\ verdict = [c \in Calls |-> "idle"]
    /\ approvals = [c \in Calls |-> {}]
    /\ count = [c \in Calls |-> 0]

\* The message becomes known; it may be refused unseen.
Submit(c) ==
    /\ verdict[c] = "idle"
    /\ \E v \in {"pending", "failed"} : verdict' = [verdict EXCEPT ![c] = v]
    /\ DOMAIN count' = Calls
    /\ count'[c] \in Nat
    /\ \A d \in Calls \ {c} : count'[d] = count[d]
    /\ UNCHANGED <<policy, approvals>>

Approve(c) ==
    /\ verdict[c] = "pending"
    /\ \E i \in 1 .. count[c], keyID \in KeyIDs :
          /\ \A a \in approvals[c] : a.index < i
          /\ approvals' = [approvals EXCEPT
                             ![c] = @ \cup {[index |-> i, keyID |-> keyID]}]
    /\ UNCHANGED <<policy, verdict, count>>

Deserved(c) ==
    approvals[c] # {} /\ Satisfied(policy, approvals[c], count[c])

Decide(c, v) ==
    /\ verdict[c] = "pending"
    /\ verdict' = [verdict EXCEPT ![c] = v]
    /\ UNCHANGED <<policy, approvals, count>>

Accept(c) == Deserved(c) /\ Decide(c, "accepted")
\* A function of the application may refuse what it likes.
Refuse(c) == (~ Deserved(c) \/ HasFunction(policy)) /\ Decide(c, "refused")
Fail(c) == Decide(c, "failed")

Next == \E c \in Calls :
            Submit(c) \/ Approve(c) \/ Accept(c) \/ Refuse(c) \/ Fail(c)

Spec == Init /\ [][Next]_vars

FairSpec ==
    /\ Spec
    /\ \A c \in Calls : WF_vars(Accept(c) \/ Refuse(c) \/ Fail(c))
=============================================================================
