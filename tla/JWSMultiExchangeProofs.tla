----------------------- MODULE JWSMultiExchangeProofs -----------------------
(***************************************************************************)
(* For any number of concurrent calls, any messages, any keys, policies    *)
(* and limits, and any sequence of changes of the registry: what a         *)
(* MultiVerifier accepts is vouched for; its policies keep their promises  *)
(* at any point of the loop of any call; each step is a step of            *)
(* SignatureAcceptance, or changes nothing there (the safety part of       *)
(* ImplementsAcceptance); and the verdict of a call nothing disturbs. Of   *)
(* the messages of a MultiSigner, the signatures left intact decide.       *)
(***************************************************************************)
EXTENDS JWSMultiExchange, JWSSenderProofs, FunctionTheorems

-----------------------------------------------------------------------------
(***************************************************************************)
(* Facts about the signature policies, for every list of key identities,   *)
(* every policy and every sequence of results.                             *)
(***************************************************************************)

\* Approvals are the valid results; their approvers are the valid key IDs.
\* So the loops of policy.go and the sets of the reference look at the same
\* identities (validKeyIDs, policy.go:270-283).
LEMMA ApproversAreValidKeyIDs ==
    ASSUME NEW reported \in Results
    PROVE  Approvers(Approvals(reported)) = ValidKeyIDs(reported)
<1>1. \A a \in Approvals(reported) :
         \E i \in DOMAIN reported : reported[i].valid /\ a.keyID = reported[i].keyID
  BY DEF Approvals
<1>2. ASSUME NEW i \in DOMAIN reported, reported[i].valid
      PROVE  \E a \in Approvals(reported) : a.keyID = reported[i].keyID
  <2>1. [index |-> i, keyID |-> reported[i].keyID] \in Approvals(reported)
    BY <1>2 DEF Approvals
  <2> QED
    BY <2>1
<1> QED
  BY <1>1, <1>2 DEF Approvers, ValidKeyIDs

\* On a list validatePolicyKeyIDs accepts, counting the places whose identity
\* has a valid signature is counting distinct approved identities: no
\* identity is worth two votes of a threshold.
LEMMA ThresholdCountsApprovers ==
    ASSUME NEW keyIDs \in Seq(KeyIDs), ValidPolicyKeyIDs(keyIDs), NEW V
    PROVE  LET places == {i \in DOMAIN keyIDs : keyIDs[i] \in V}
               listed == {keyIDs[i] : i \in DOMAIN keyIDs} \cap V
           IN  /\ IsFiniteSet(listed)
               /\ Cardinality(listed) = Cardinality(places)
               /\ Cardinality(listed) \in Nat
<1> DEFINE places == {i \in DOMAIN keyIDs : keyIDs[i] \in V}
           listed == {keyIDs[i] : i \in DOMAIN keyIDs} \cap V
           f == [i \in places |-> keyIDs[i]]
<1>1. IsFiniteSet(places)
  <2>1. IsFiniteSet(1 .. Len(keyIDs))
    BY FS_Interval
  <2>2. places \in SUBSET (1 .. Len(keyIDs))
    OBVIOUS
  <2> QED
    BY <2>1, <2>2, FS_Subset
<1>2. ExistsBijection(places, listed)
  <2>1. f \in [places -> listed]
    OBVIOUS
  <2>2. \A a, b \in places : f[a] = f[b] => a = b
    BY DEF ValidPolicyKeyIDs, NoDuplicates
  <2>3. \A t \in listed : \E s \in places : f[s] = t
    OBVIOUS
  <2> HIDE DEF f, places, listed
  <2>4. f \in Bijection(places, listed)
    BY <2>1, <2>2, <2>3, Fun_IsBij
  <2> QED
    BY <2>4 DEF ExistsBijection
<1>3. /\ IsFiniteSet(listed)
      /\ Cardinality(listed) = Cardinality(places)
  <2> HIDE DEF places, listed
  <2> QED
    BY <1>1, <1>2, FS_Bijection
<1>4. Cardinality(listed) \in Nat
  <2> HIDE DEF places, listed
  <2> QED
    BY <1>3, FS_CardinalityType
<1> QED
  BY <1>3, <1>4

-----------------------------------------------------------------------------
\* The policies of a configured policy's tree are well typed.
LEMMA NodesAreTyped ==
    ASSUME NEW tree \in Policies, NEW q \in Nodes(tree)
    PROVE  /\ q.kind \in {"any", "all", "keyIDs", "threshold", "allOf",
                           "func", "nilFunc", "nil"}
           /\ q.kind \in {"keyIDs", "threshold"} => q.keyIDs \in Seq(KeyIDs)
           /\ q.kind = "threshold" => q.minimum \in Int
           /\ q.kind = "allOf" => Nodes(q) \subseteq Nodes(tree)
BY PoliciesAssumption DEF NamesKeyIDs

\* A policy without AllOf is its whole tree.
LEMMA SimplePolicyIsItsTree ==
    ASSUME NEW tree, tree.kind # "allOf"
    PROVE  Nodes(tree) = {tree}
BY DEF Nodes, Nested

\* What one policy of the tree accepts, the reference accepts, for any set A
\* of approvals that holds those of the results: more signatures, or ones
\* that were not even looked at, take nothing away. For RequireAllSignatures
\* the results must be those of all n signatures.
LEMMA EvaluatedNodeIsSatisfied ==
    ASSUME NEW tree \in Policies, NEW q \in Nodes(tree),
           NEW reported \in Results, EvaluateNode(q, reported),
           NEW A, Approvals(reported) \subseteq A,
           NEW n \in Nat, \A a \in A : a.index \in 1 .. n,
           q.kind = "all" => n = Len(reported)
    PROVE  SatisfiedNode(q, A, n)
<1> USE NodesAreTyped
<1>1. ASSUME NEW i \in DOMAIN reported, reported[i].valid
      PROVE  \E a \in A : a.index = i /\ a.keyID = reported[i].keyID
  <2>1. [index |-> i, keyID |-> reported[i].keyID] \in A
    BY <1>1 DEF Approvals
  <2> QED
    BY <2>1
<1>2. ValidKeyIDs(reported) \subseteq Approvers(A)
  BY <1>1 DEF ValidKeyIDs, Approvers
<1>3. CASE q.kind = "any"
  BY <1>1, <1>3 DEF EvaluateNode, AnyValid, SatisfiedNode
<1>4. CASE q.kind = "all"
  <2>1. /\ Len(reported) > 0 /\ n = Len(reported)
        /\ \A i \in 1 .. n : reported[i].valid
        /\ DOMAIN reported = 1 .. n
    BY <1>4 DEF EvaluateNode, AllProvidedValid, Results
  <2>2. {a.index : a \in A} = 1 .. n
    BY <1>1, <2>1
  <2> QED
    BY <1>4, <2>1, <2>2 DEF SatisfiedNode
<1>5. CASE q.kind = "keyIDs"
  BY <1>2, <1>5 DEF EvaluateNode, RequiredKeyIDsValid, SatisfiedNode
<1>6. CASE q.kind = "threshold"
  <2> DEFINE ids == {q.keyIDs[i] : i \in DOMAIN q.keyIDs}
             places == {i \in DOMAIN q.keyIDs :
                            q.keyIDs[i] \in ValidKeyIDs(reported)}
             approved == ids \cap ValidKeyIDs(reported)
  <2>1. /\ q.keyIDs \in Seq(KeyIDs) /\ q.minimum \in Int
        /\ ValidPolicyKeyIDs(q.keyIDs)
        /\ Cardinality(places) >= q.minimum
    BY <1>6 DEF EvaluateNode, ThresholdReached, ValidThreshold
  <2>2. Cardinality(approved) = Cardinality(places) /\ Cardinality(approved) \in Nat
    BY <2>1, ThresholdCountsApprovers
  <2>3. IsFiniteSet(ids \cap Approvers(A))
    BY <2>1, ThresholdCountsApprovers
  <2>4. approved \in SUBSET (ids \cap Approvers(A))
    BY <1>2
  <2>5. /\ Cardinality(approved) <= Cardinality(ids \cap Approvers(A))
        /\ Cardinality(ids \cap Approvers(A)) \in Nat
    <3> HIDE DEF ids, approved
    <3> QED
      BY <2>3, <2>4, FS_Subset, FS_CardinalityType
  <2>6. Cardinality(ids \cap Approvers(A)) >= q.minimum
    BY <2>1, <2>2, <2>5
  <2> QED
    BY <1>6, <2>6 DEF SatisfiedNode
<1>7. CASE q.kind \in {"func", "allOf"}
  BY <1>7 DEF EvaluateNode, SatisfiedNode
<1> QED
  BY <1>3, <1>4, <1>5, <1>6, <1>7 DEF EvaluateNode

\* Conversely, a policy of a configured tree accepts what the reference
\* accepts and, if it is a function, the function does: validation leaves
\* nothing for Evaluate to refuse on its own.
LEMMA SatisfiedNodeIsEvaluated ==
    ASSUME NEW tree \in Policies, ValidPolicy(tree), NEW q \in Nodes(tree),
           NEW reported \in Results,
           SatisfiedNode(q, Approvals(reported), Len(reported)),
           q.kind = "func" => reported \in q.accepts
    PROVE  EvaluateNode(q, reported)
<1> USE NodesAreTyped
<1>0. ValidNode(q)
  BY DEF ValidPolicy
<1>1. ASSUME NEW a \in Approvals(reported)
      PROVE  a.index \in DOMAIN reported /\ reported[a.index].valid
  BY <1>1 DEF Approvals
<1>2. Approvers(Approvals(reported)) = ValidKeyIDs(reported)
  BY ApproversAreValidKeyIDs
<1>3. CASE q.kind = "any"
  BY <1>1, <1>3 DEF EvaluateNode, AnyValid, SatisfiedNode
<1>4. CASE q.kind = "all"
  <2>1. /\ Len(reported) > 0
        /\ {a.index : a \in Approvals(reported)} = 1 .. Len(reported)
    BY <1>4 DEF SatisfiedNode
  <2>2. \A i \in DOMAIN reported : reported[i].valid
    <3> SUFFICES ASSUME NEW i \in DOMAIN reported
                 PROVE  reported[i].valid
      OBVIOUS
    <3>1. i \in {a.index : a \in Approvals(reported)}
      <4>1. i \in 1 .. Len(reported)
        BY DEF Results
      <4> QED
        BY <2>1, <4>1, Zenon
    <3>2. PICK a \in Approvals(reported) : a.index = i
      BY <3>1
    <3> QED
      BY <1>1, <3>2
  <2> QED
    BY <1>4, <2>1, <2>2 DEF EvaluateNode, AllProvidedValid
<1>5. CASE q.kind = "keyIDs"
  BY <1>2, <1>5 DEF EvaluateNode, RequiredKeyIDsValid, SatisfiedNode
<1>6. CASE q.kind = "threshold"
  <2>1. ValidThreshold(q) /\ q.keyIDs \in Seq(KeyIDs) /\ q.minimum \in Int
    BY <1>0, <1>6 DEF ValidNode
  <2>2. Cardinality({q.keyIDs[i] : i \in DOMAIN q.keyIDs}
                        \cap ValidKeyIDs(reported)) >= q.minimum
    BY <1>2, <1>6 DEF SatisfiedNode
  <2>3. Cardinality({i \in DOMAIN q.keyIDs :
                        q.keyIDs[i] \in ValidKeyIDs(reported)}) >= q.minimum
    BY <2>1, <2>2, ThresholdCountsApprovers DEF ValidThreshold
  <2> QED
    BY <1>6, <2>1, <2>3 DEF EvaluateNode, ThresholdReached
<1>7. CASE q.kind \in {"func", "allOf"}
  BY <1>7 DEF EvaluateNode, SatisfiedNode, ValidPolicy
<1> QED
  BY <1>3, <1>4, <1>5, <1>6, <1>7 DEF SatisfiedNode

-----------------------------------------------------------------------------
(***************************************************************************)
(* The inductive invariant, call by call.                                  *)
(***************************************************************************)

\* Where the loop is.
LoopInv(c) ==
    /\ Len(results[c]) <= Len(SignaturesOf(c))
    /\ pc[c] = "idle" => results[c] = <<>>
    /\ pc[c] \in {"resolving", "verifying"} =>
          Len(results[c]) < Len(SignaturesOf(c)) /\ HeaderAccepted(Current(c))
    /\ InProgress(c) => registry \in seen[c]
    /\ pc[c] # "done" => outcome[c] = "none"

\* The key in hand is one a registry of this call gave for this signature.
KeyInv(c) ==
    pc[c] = "verifying" =>
        \E r \in seen[c] : /\ Answer(Current(c), r) = resolved[c]
                           /\ resolved[c].status = "found"
                           /\ resolved[c].key # NilKey

\* Every valid result is a genuine signature; every other one failed on its
\* own account; each names the identity the registry gives for it.
Explained(signature, result, r) ==
    /\ result.keyID = ReportedKeyID(signature, r)
    /\ IF result.valid THEN Genuine(signature, r)
       ELSE ~ Genuine(signature, r) /\ ~ Fatal(signature, r)

EvidenceInv(c) ==
    \A i \in DOMAIN results[c] :
        \E r \in seen[c] : Explained(SignaturesOf(c)[i], results[c][i], r)

\* hasValidSignature remembers the results; the bare any policy leaves the
\* loop with its first valid result.
FlagInv(c) ==
    /\ hasValid[c] <=> \E i \in DOMAIN results[c] : results[c][i].valid
    /\ pc[c] = "evaluate" => policy.kind = "any" /\ hasValid[c]
    /\ policy.kind = "any" =>
          /\ pc[c] \in {"loop", "resolving", "verifying"} => ~ hasValid[c]
          /\ \A i \in DOMAIN results[c] :
                 results[c][i].valid => i = Len(results[c])

\* What was decided rests on the results.
DecisionInv(c) ==
    /\ outcome[c] = "Accepted" =>
          /\ hasValid[c]
          /\ Evaluate(policy, results[c])
          /\ policy.kind = "any" \/ Exhausted(c)
    /\ outcome[c] \in PolicyFailures => Exhausted(c)

CallInv(c) == /\ LoopInv(c) /\ KeyInv(c) /\ EvidenceInv(c)
              /\ FlagInv(c) /\ DecisionInv(c)

IInv == TypeOK /\ \A c \in Calls : CallInv(c)

\* The steps of a verifier to which any message is presented, not only those
\* of Tokens: the invariant does not depend on where messages come from.
Presented(c) == \E t \in TokenType : VerifyToken(c, t)

Moves ==
    \/ \E c \in Calls : Presented(c) \/ Step(c) \/ Cancel(c)
    \/ ChangeRegistry

LEMMA NextMoves == [Next]_vars => [Moves]_vars
  BY VerifierAssumption DEF Next, Moves, VerifyMessage, Presented

-----------------------------------------------------------------------------
(* Types.                                                                  *)

LEMMA AdmissionType ==
    ASSUME NEW t
    PROVE  Admission(t) \in Rejections \cup {"admitted"}
BY DEF Admission, Rejections

LEMMA NoReplyType == NoReply \in Resolutions
BY KeyIDsAssumption DEF NoReply, Resolutions

\* The signature the loop is at is a signature of the message.
LEMMA CurrentType ==
    ASSUME TypeOK, NEW c \in Calls, Len(results[c]) < Len(SignaturesOf(c))
    PROVE  /\ Current(c) \in Signatures
           /\ Reply(c) \in Resolutions
           /\ Current(c).protected.kid \in KeyHints \cup {NoKid}
<1>1. /\ SignaturesOf(c) \in Seq(Signatures)
      /\ Len(results[c]) + 1 \in 1 .. Len(SignaturesOf(c))
  <2>1. token[c] \in TokenType /\ results[c] \in Results
    BY DEF TypeOK
  <2> QED
    BY <2>1 DEF TokenType, SignaturesOf, Results
<1>2. Current(c) \in Signatures
  BY <1>1 DEF Current
<1>3. Current(c).protected.kid \in KeyHints \cup {NoKid}
  BY <1>2 DEF Signatures, Headers
<1>4. registry \in [KeyHints \cup {NoKid} -> Resolutions]
  BY VerifierAssumption DEF TypeOK
<1> QED
  BY <1>2, <1>3, <1>4 DEF Reply

\* Recording a result keeps the types.
LEMMA RecordType ==
    ASSUME TypeOK, NEW c \in Calls, NEW keyID \in KeyIDs, NEW valid \in BOOLEAN,
           Record(c, keyID, valid)
    PROVE  /\ results' \in [Calls -> Results]
           /\ hasValid' \in [Calls -> BOOLEAN]
           /\ pc' \in [Calls -> {"idle", "loop", "resolving", "verifying",
                                 "evaluate", "done"}]
<1> DEFINE r == [keyID |-> keyID, valid |-> valid]
<1>1. Append(results[c], r) \in Results
  <2>1. r \in [keyID : KeyIDs, valid : BOOLEAN]
    OBVIOUS
  <2>2. results[c] \in Seq([keyID : KeyIDs, valid : BOOLEAN])
    BY DEF TypeOK, Results
  <2> HIDE DEF r
  <2> QED
    BY <2>1, <2>2 DEF Results
<1>2. results' \in [Calls -> Results]
  BY <1>1 DEF TypeOK, Record
<1>3. hasValid' \in [Calls -> BOOLEAN]
  BY DEF TypeOK, Record
<1>4. pc' \in [Calls -> {"idle", "loop", "resolving", "verifying",
                        "evaluate", "done"}]
  BY DEF TypeOK, Record
<1> QED
  BY <1>2, <1>3, <1>4

LEMMA TypeStep == IInv /\ [Moves]_vars => TypeOK'
<1> SUFFICES ASSUME IInv, [Moves]_vars
             PROVE  TypeOK'
  OBVIOUS
<1> USE DEF IInv
<1>1. CASE UNCHANGED vars
  BY <1>1 DEF vars, TypeOK
<1>2. ASSUME NEW c \in Calls, Presented(c)
      PROVE  TypeOK'
  BY <1>2, AdmissionType, VerifierAssumption DEF Presented, VerifyToken, TypeOK, Return
<1>3. ASSUME NEW c \in Calls, CheckContext(c)
      PROVE  TypeOK'
  BY <1>3 DEF CheckContext, TypeOK, Return, Aborts, given
<1>4. ASSUME NEW c \in Calls, RejectHeader(c) \/ KeyNotFound(c)
      PROVE  TypeOK'
  BY <1>4, RecordType, KeyIDsAssumption
     DEF RejectHeader, KeyNotFound, TypeOK, given
<1>5. ASSUME NEW c \in Calls, CallResolver(c)
      PROVE  TypeOK'
  BY <1>5 DEF CallResolver, TypeOK, given
<1>6. ASSUME NEW c \in Calls, ResolverFailure(c) \/ NilKeyResolved(c)
      PROVE  TypeOK'
  BY <1>6 DEF ResolverFailure, NilKeyResolved, TypeOK, Return, Aborts, given
<1>7. ASSUME NEW c \in Calls, KeyResolved(c)
      PROVE  TypeOK'
  <2>1. Reply(c) \in Resolutions
    BY <1>7, CurrentType DEF KeyResolved, CallInv, LoopInv
  <2> QED
    BY <1>7, <2>1 DEF KeyResolved, TypeOK, given
<1>8. ASSUME NEW c \in Calls, VerifySignature(c)
      PROVE  TypeOK'
  <2>1. resolved[c].keyID \in KeyIDs
    BY DEF TypeOK, Resolutions
  <2>2. (Current(c).signer = resolved[c].key) \in BOOLEAN
    OBVIOUS
  <2>3. resolved' \in [Calls -> Resolutions]
    BY <1>8, NoReplyType DEF VerifySignature, TypeOK
  <2> QED
    BY <1>8, <2>1, <2>2, <2>3, RecordType DEF VerifySignature, TypeOK, given
<1>9. ASSUME NEW c \in Calls, Conclude(c)
      PROVE  TypeOK'
  BY <1>9 DEF Conclude, NoValidSignature, PolicyRejects, Accept, TypeOK,
     Return, PolicyFailures, given
<1>10. ASSUME NEW c \in Calls, Cancel(c)
       PROVE  TypeOK'
  BY <1>10 DEF Cancel, TypeOK
<1>11. CASE ChangeRegistry
  BY <1>11 DEF ChangeRegistry, TypeOK
<1> QED
  BY <1>1, <1>2, <1>3, <1>4, <1>5, <1>6, <1>7, <1>8, <1>9, <1>10, <1>11
     DEF Moves, Step, ProcessSignature

-----------------------------------------------------------------------------
(* One call at a time.                                                     *)

\* What every step leaves alone in a call it does not run: registries may be
\* added to those the call has seen.
Kept(c) ==
    /\ token'[c] = token[c] /\ resolved'[c] = resolved[c]
    /\ results'[c] = results[c] /\ hasValid'[c] = hasValid[c]
    /\ seen[c] \subseteq seen'[c]
    /\ policy' = policy

\* More registries seen never hurt the invariant of a call.
LEMMA KeptCall ==
    ASSUME IInv, NEW c \in Calls, Kept(c), pc'[c] = pc[c],
           outcome'[c] = outcome[c],
           InProgress(c) => registry' \in seen'[c]
    PROVE  CallInv(c)'
<1> USE DEF IInv, CallInv, Kept
<1>1. LoopInv(c)'
  BY DEF LoopInv, SignaturesOf, Current, InProgress
<1>2. KeyInv(c)'
  BY DEF KeyInv, Current, SignaturesOf
<1>3. EvidenceInv(c)'
  BY DEF EvidenceInv, SignaturesOf
<1>4. FlagInv(c)'
  BY DEF FlagInv
<1>5. DecisionInv(c)'
  BY DEF DecisionInv, Exhausted, SignaturesOf
<1> QED
  BY <1>1, <1>2, <1>3, <1>4, <1>5

\* A call that returns without an acceptance keeps its invariant, if it is
\* not a policy that refuses before the last signature.
LEMMA ReturnedCall ==
    ASSUME IInv, NEW c \in Calls, Kept(c), NEW how, how # "Accepted",
           how \in PolicyFailures => Exhausted(c),
           pc'[c] = "done", outcome'[c] = how
    PROVE  CallInv(c)'
<1> USE DEF IInv, CallInv, Kept
<1>1. LoopInv(c)'
  BY DEF LoopInv, SignaturesOf, InProgress
<1>2. KeyInv(c)'
  BY DEF KeyInv
<1>3. EvidenceInv(c)'
  BY DEF EvidenceInv, SignaturesOf
<1>4. FlagInv(c)'
  BY DEF FlagInv
<1>5. DecisionInv(c)'
  BY DEF DecisionInv, Exhausted, SignaturesOf
<1> QED
  BY <1>1, <1>2, <1>3, <1>4, <1>5

\* Recording a result keeps the invariant when a registry explains it.
LEMMA RecordedCall ==
    ASSUME IInv, NEW c \in Calls, NEW keyID \in KeyIDs, NEW valid \in BOOLEAN,
           pc[c] \in {"loop", "resolving", "verifying"},
           Len(results[c]) < Len(SignaturesOf(c)),
           Record(c, keyID, valid),
           UNCHANGED <<given, outcome>>,
           \E r \in seen[c] :
               Explained(Current(c), [keyID |-> keyID, valid |-> valid], r)
    PROVE  CallInv(c)'
<1> USE DEF IInv, CallInv
<1> DEFINE n == Len(results[c])
<1>1. /\ results[c] \in Results /\ n \in Nat
      /\ DOMAIN results[c] = 1 .. n
      /\ Len(SignaturesOf(c)) \in Nat
  <2>1. results[c] \in Results /\ token[c] \in TokenType
    BY DEF TypeOK
  <2> QED
    BY <2>1 DEF Results, TokenType, SignaturesOf
<1>2. /\ Len(results'[c]) = n + 1
      /\ DOMAIN results'[c] = 1 .. n + 1
      /\ \A i \in 1 .. n : results'[c][i] = results[c][i]
      /\ results'[c][n + 1] = [keyID |-> keyID, valid |-> valid]
  <2>1. results'[c] = Append(results[c], [keyID |-> keyID, valid |-> valid])
    BY DEF Record, TypeOK
  <2> QED
    BY <1>1, <2>1 DEF Results
<1>3. /\ hasValid'[c] = (hasValid[c] \/ valid)
      /\ pc'[c] = IF valid /\ policy.kind = "any" THEN "evaluate" ELSE "loop"
  BY DEF Record, TypeOK, StopAfterFirstValid
<1>4. /\ SignaturesOf(c)' = SignaturesOf(c) /\ seen' = seen
      /\ policy' = policy /\ registry' = registry /\ outcome' = outcome
  BY DEF given, SignaturesOf
<1>5. LoopInv(c)'
  BY <1>1, <1>2, <1>3, <1>4 DEF LoopInv, InProgress
<1>6. KeyInv(c)'
  BY <1>3 DEF KeyInv
<1>7. EvidenceInv(c)'
  <2> SUFFICES ASSUME NEW i \in 1 .. n + 1
               PROVE  \E r \in seen[c] :
                        Explained(SignaturesOf(c)[i], results'[c][i], r)
    BY <1>2, <1>4 DEF EvidenceInv
  <2>1. CASE i \in 1 .. n
    BY <1>1, <1>2, <2>1 DEF EvidenceInv
  <2>2. CASE i = n + 1
    BY <1>2, <2>2 DEF Current
  <2> QED
    BY <1>1, <2>1, <2>2
<1>8. FlagInv(c)'
  <2>1. hasValid'[c] <=> \E i \in DOMAIN results'[c] : results'[c][i].valid
    <3>1. hasValid[c] <=> \E i \in 1 .. n : results[c][i].valid
      BY <1>1 DEF FlagInv
    <3>2. results'[c][n + 1].valid = valid
      BY <1>2
    <3>3. (\E i \in 1 .. n + 1 : results'[c][i].valid)
             <=> (\E i \in 1 .. n : results[c][i].valid) \/ valid
      <4>1. ASSUME NEW i \in 1 .. n + 1, results'[c][i].valid
            PROVE  (\E j \in 1 .. n : results[c][j].valid) \/ valid
        <5>1. CASE i \in 1 .. n
          BY <1>2, <4>1, <5>1
        <5>2. CASE i = n + 1
          BY <3>2, <4>1, <5>2
        <5> QED
          BY <1>1, <5>1, <5>2
      <4>2. ASSUME NEW j \in 1 .. n, results[c][j].valid
            PROVE  \E i \in 1 .. n + 1 : results'[c][i].valid
        BY <1>1, <1>2, <4>2
      <4>3. n + 1 \in 1 .. n + 1
        BY <1>1
      <4> QED
        BY <3>2, <4>1, <4>2, <4>3
    <3> QED
      BY <1>2, <1>3, <3>1, <3>3
  <2>2. pc'[c] = "evaluate" => policy'.kind = "any" /\ hasValid'[c]
    BY <1>3, <1>4
  <2>3. ASSUME policy.kind = "any"
        PROVE  /\ pc'[c] \in {"loop", "resolving", "verifying"} => ~ hasValid'[c]
               /\ \A i \in DOMAIN results'[c] :
                      results'[c][i].valid => i = Len(results'[c])
    <3>1. ~ hasValid[c] /\ \A i \in 1 .. n : ~ results[c][i].valid
      BY <1>1, <2>3 DEF FlagInv
    <3> QED
      BY <1>1, <1>2, <1>3, <2>3, <3>1
  <2> QED
    BY <1>4, <2>1, <2>2, <2>3 DEF FlagInv
<1>9. DecisionInv(c)'
  BY <1>4 DEF DecisionInv, LoopInv, PolicyFailures
<1> QED
  BY <1>5, <1>6, <1>7, <1>8, <1>9

\* Concurrent calls share only what no call writes: a step of one call
\* leaves every other call as it is.
LEMMA OthersUntouched ==
    ASSUME TypeOK, NEW d \in Calls, NEW c \in Calls, c # d,
           Presented(d) \/ Step(d) \/ Cancel(d)
    PROVE  /\ Kept(c) /\ pc'[c] = pc[c] /\ outcome'[c] = outcome[c]
           /\ registry' = registry
<1> USE DEF TypeOK, Kept, given
<1>1. CASE Presented(d)
  BY <1>1 DEF Presented, VerifyToken, Return
<1>2. CASE Cancel(d)
  BY <1>2 DEF Cancel
<1>3. CASE Conclude(d)
  BY <1>3 DEF Conclude, NoValidSignature, PolicyRejects, Accept, Return
<1>4. CASE CheckContext(d) \/ ResolverFailure(d) \/ NilKeyResolved(d)
  BY <1>4 DEF CheckContext, ResolverFailure, NilKeyResolved, Return
<1>5. CASE RejectHeader(d) \/ KeyNotFound(d) \/ VerifySignature(d)
  BY <1>5 DEF RejectHeader, KeyNotFound, VerifySignature, Record
<1>6. CASE CallResolver(d) \/ KeyResolved(d)
  BY <1>6 DEF CallResolver, KeyResolved
<1> QED
  BY <1>1, <1>2, <1>3, <1>4, <1>5, <1>6 DEF Step, ProcessSignature

LEMMA OtherCalls ==
    ASSUME IInv, NEW d \in Calls, NEW c \in Calls, c # d,
           Presented(d) \/ Step(d) \/ Cancel(d)
    PROVE  CallInv(c)'
<1>1. /\ Kept(c) /\ pc'[c] = pc[c] /\ outcome'[c] = outcome[c]
      /\ registry' = registry
  BY OthersUntouched DEF IInv
<1>2. InProgress(c) => registry' \in seen'[c]
  BY <1>1 DEF IInv, CallInv, LoopInv, Kept
<1> QED
  BY <1>1, <1>2, KeptCall

\* A step of a call keeps the invariant of that call.
LEMMA OwnCall ==
    ASSUME IInv, NEW c \in Calls, Presented(c) \/ Step(c) \/ Cancel(c)
    PROVE  CallInv(c)'
<1> USE DEF IInv, TypeOK
<1>1. CASE Presented(c)
  <2>1. PICK t \in TokenType :
          /\ token'[c] = t
          /\ \/ pc'[c] = "loop" /\ outcome'[c] = outcome[c]
             \/ pc'[c] = "done" /\ outcome'[c] = Admission(t)
    BY <1>1 DEF Presented, VerifyToken, Return
  <2>2. /\ results'[c] = <<>> /\ hasValid'[c] = hasValid[c] /\ ~ hasValid[c]
        /\ outcome[c] = "none" /\ registry' = registry /\ seen'[c] = {registry}
    BY <1>1 DEF Presented, VerifyToken, CallInv, LoopInv, FlagInv
  <2>3. Len(SignaturesOf(c)') \in Nat
    BY <2>1, VerifierAssumption DEF TokenType, SignaturesOf
  <2>4. Admission(t) \notin {"Accepted"} \cup PolicyFailures
    BY AdmissionType DEF Rejections, PolicyFailures
  <2> QED
    BY <2>1, <2>2, <2>3, <2>4
       DEF CallInv, LoopInv, KeyInv, EvidenceInv, FlagInv, DecisionInv,
           PolicyFailures, Exhausted,
           InProgress, SignaturesOf
<1>2. CASE CheckContext(c) \/ ResolverFailure(c) \/ NilKeyResolved(c)
            \/ NoValidSignature(c) \/ PolicyRejects(c)
  <2>1. PICK how \in Aborts \cup PolicyFailures :
          /\ pc'[c] = "done" /\ outcome'[c] = how
          /\ how \in PolicyFailures => NoValidSignature(c) \/ PolicyRejects(c)
    BY <1>2 DEF CheckContext, ResolverFailure, NilKeyResolved,
       NoValidSignature, PolicyRejects, Return, Aborts, PolicyFailures
  <2>2. Kept(c)
    BY <1>2 DEF CheckContext, ResolverFailure, NilKeyResolved,
       NoValidSignature, PolicyRejects, Kept, given
  <2>3. how # "Accepted"
    BY DEF Aborts, PolicyFailures
  <2>4. ASSUME NoValidSignature(c) \/ PolicyRejects(c), pc[c] = "evaluate"
        PROVE  FALSE
    <3>1. policy.kind = "any" /\ hasValid[c] /\ AnyValid(results[c])
      BY <2>4 DEF CallInv, FlagInv, AnyValid
    <3>2. Evaluate(policy, results[c])
      BY <3>1, SimplePolicyIsItsTree DEF Evaluate, EvaluateNode
    <3> QED
      BY <2>4, <3>1, <3>2 DEF NoValidSignature, PolicyRejects
  <2>5. how \in PolicyFailures => Exhausted(c)
    BY <2>1, <2>4 DEF NoValidSignature, PolicyRejects, LoopEnded
  <2> QED
    BY <2>1, <2>2, <2>3, <2>5, ReturnedCall
<1>3. CASE RejectHeader(c)
  <2>1. pc[c] = "loop" /\ Len(results[c]) < Len(SignaturesOf(c))
    <3>1. results[c] \in Results /\ token[c] \in TokenType
      OBVIOUS
    <3>2. Len(results[c]) \in Nat /\ Len(SignaturesOf(c)) \in Nat
      BY <3>1 DEF TokenType, SignaturesOf, Results
    <3> QED
      BY <1>3, <3>2 DEF RejectHeader, Exhausted, CallInv, LoopInv
  <2>2. registry \in seen[c]
    BY <2>1 DEF CallInv, LoopInv, InProgress
  <2>3. Explained(Current(c), [keyID |-> NoKeyID, valid |-> FALSE], registry)
    BY <1>3 DEF RejectHeader, Explained, ReportedKeyID, Genuine, Fatal
  <2> QED
    BY <1>3, <2>1, <2>2, <2>3, RecordedCall, KeyIDsAssumption
       DEF RejectHeader, given
<1>4. CASE KeyNotFound(c)
  <2>1. pc[c] = "resolving" /\ Len(results[c]) < Len(SignaturesOf(c))
        /\ registry \in seen[c]
    BY <1>4 DEF KeyNotFound, CallInv, LoopInv, InProgress
  <2>2. Explained(Current(c), [keyID |-> NoKeyID, valid |-> FALSE], registry)
    BY <1>4 DEF KeyNotFound, Explained, ReportedKeyID, Genuine, Fatal, Answer,
                Reply
  <2> QED
    BY <1>4, <2>1, <2>2, RecordedCall, KeyIDsAssumption DEF KeyNotFound, given
<1>5. CASE CallResolver(c)
  <2>1. Len(results[c]) < Len(SignaturesOf(c)) /\ HeaderAccepted(Current(c))
    BY <1>5 DEF CallResolver, Exhausted, CallInv, LoopInv, TokenType,
       SignaturesOf, Results
  <2>2. Kept(c) /\ pc'[c] = "resolving" /\ pc[c] = "loop"
        /\ registry' = registry /\ outcome'[c] = outcome[c]
    BY <1>5 DEF CallResolver, Kept, given
  <2> QED
    BY <2>1, <2>2
       DEF CallInv, LoopInv, KeyInv, EvidenceInv, FlagInv, DecisionInv,
           PolicyFailures, Exhausted,
           InProgress, SignaturesOf, Current, Kept
<1>6. CASE KeyResolved(c)
  <2>1. /\ resolved'[c] = Reply(c) /\ pc'[c] = "verifying"
        /\ pc[c] = "resolving" /\ registry' = registry
        /\ Reply(c).status = "found" /\ Reply(c).key # NilKey
        /\ token'[c] = token[c] /\ results'[c] = results[c]
        /\ hasValid'[c] = hasValid[c] /\ outcome'[c] = outcome[c]
        /\ seen' = seen /\ policy' = policy
    BY <1>6 DEF KeyResolved, given
  <2>2. registry \in seen[c] /\ Answer(Current(c), registry) = Reply(c)
    BY <2>1 DEF CallInv, LoopInv, InProgress, Answer, Reply
  <2>3. KeyInv(c)'
    <3>1. Current(c)' = Current(c)
      BY <2>1 DEF Current, SignaturesOf
    <3> QED
      BY <2>1, <2>2, <3>1 DEF KeyInv, Answer
  <2> QED
    BY <2>1, <2>3
       DEF CallInv, LoopInv, EvidenceInv, FlagInv, DecisionInv,
           PolicyFailures, Exhausted,
           InProgress, SignaturesOf, Current
<1>7. CASE VerifySignature(c)
  <2> DEFINE valid == Current(c).signer = resolved[c].key
  <2>1. /\ pc[c] = "verifying" /\ Len(results[c]) < Len(SignaturesOf(c))
        /\ HeaderAccepted(Current(c))
    BY <1>7 DEF VerifySignature, CallInv, LoopInv
  <2>2. \E r \in seen[c] :
          Explained(Current(c), [keyID |-> resolved[c].keyID, valid |-> valid], r)
    BY <2>1 DEF CallInv, LoopInv, KeyInv, Explained, ReportedKeyID, Genuine, Fatal
  <2>3. resolved[c].keyID \in KeyIDs /\ valid \in BOOLEAN
    BY DEF Resolutions
  <2>4. Record(c, resolved[c].keyID, valid) /\ UNCHANGED <<given, outcome>>
    BY <1>7 DEF VerifySignature
  <2> HIDE DEF valid
  <2> QED
    BY <2>1, <2>2, <2>3, <2>4, RecordedCall
<1>8. CASE Accept(c)
  <2>1. /\ Kept(c) /\ pc'[c] = "done" /\ outcome'[c] = "Accepted" /\ hasValid[c]
        /\ Evaluate(policy, results[c])
        /\ policy.kind = "any" \/ Exhausted(c)
    BY <1>8 DEF Accept, Return, Kept, given, LoopEnded, CallInv, FlagInv
  <2> QED
    BY <2>1
       DEF CallInv, LoopInv, KeyInv, EvidenceInv, FlagInv, DecisionInv,
           PolicyFailures, Exhausted,
           InProgress, SignaturesOf, Kept, Exhausted
<1>9. CASE Cancel(c)
  <2>1. Kept(c) /\ pc'[c] = pc[c] /\ outcome'[c] = outcome[c]
        /\ registry' = registry
    BY <1>9 DEF Cancel, Kept
  <2> QED
    BY <2>1, KeptCall DEF CallInv, LoopInv, Kept
<1> QED
  BY <1>1, <1>2, <1>3, <1>4, <1>5, <1>6, <1>7, <1>8, <1>9
     DEF Step, ProcessSignature, Conclude

\* The registry changes under every call in progress.
LEMMA RegistryChanged ==
    ASSUME IInv, ChangeRegistry, NEW c \in Calls
    PROVE  CallInv(c)'
<1>1. /\ Kept(c) /\ pc'[c] = pc[c] /\ outcome'[c] = outcome[c]
      /\ InProgress(c) => registry' \in seen'[c]
  BY DEF ChangeRegistry, Kept, IInv, TypeOK
<1> QED
  BY <1>1, KeptCall

LEMMA InitIInv == Init => IInv
<1> SUFFICES ASSUME Init
             PROVE  IInv
  OBVIOUS
<1>1. TypeOK
  BY NoReplyType DEF Init, TypeOK, NoToken, TokenType, Results
<1>2. ASSUME NEW c \in Calls
      PROVE  CallInv(c)
  BY DEF Init, CallInv, LoopInv, KeyInv, EvidenceInv, FlagInv, DecisionInv,
         PolicyFailures, Exhausted, InProgress, SignaturesOf, NoToken
<1> QED
  BY <1>1, <1>2 DEF IInv

LEMMA IInvStep == IInv /\ [Moves]_vars => IInv'
<1> SUFFICES ASSUME IInv, [Moves]_vars, NEW c \in Calls
             PROVE  CallInv(c)'
  BY TypeStep DEF IInv
<1>1. ASSUME NEW d \in Calls, Presented(d) \/ Step(d) \/ Cancel(d)
      PROVE  CallInv(c)'
  BY <1>1, OtherCalls, OwnCall
<1>2. CASE ChangeRegistry
  BY <1>2, RegistryChanged
<1>3. CASE UNCHANGED vars
  <2>1. /\ Kept(c) /\ pc'[c] = pc[c] /\ outcome'[c] = outcome[c]
        /\ registry' = registry
    BY <1>3 DEF vars, Kept
  <2> QED
    BY <2>1, KeptCall DEF IInv, CallInv, LoopInv, Kept
<1> QED
  BY <1>1, <1>2, <1>3 DEF Moves

THEOREM IInvAlways == Spec => []IInv
  BY InitIInv, IInvStep, NextMoves, PTL DEF Spec

-----------------------------------------------------------------------------
(* What follows.                                                           *)

\* Every variable keeps its type.
THEOREM TypeCorrect == Spec => []TypeOK
<1>1. IInv => TypeOK
  BY DEF IInv
<1> QED
  BY <1>1, IInvAlways, PTL

\* An approval that the results of a call hold is one that a registry in
\* force during the call vouches for.
LEMMA ApprovalsAreVouched ==
    ASSUME IInv, NEW c \in Calls
    PROVE  /\ Approvals(results[c]) \subseteq Vouched(c)
           /\ \A a \in Vouched(c) : a.index \in 1 .. Len(SignaturesOf(c))
<1> USE DEF IInv, TypeOK
<1>1. /\ SignaturesOf(c) = token[c].signatures
      /\ DOMAIN SignaturesOf(c) = 1 .. Len(SignaturesOf(c))
      /\ Len(SignaturesOf(c)) \in Nat
      /\ DOMAIN results[c] = 1 .. Len(results[c])
      /\ Len(results[c]) \in Nat
      /\ Len(results[c]) <= Len(SignaturesOf(c))
  <2>1. token[c] \in TokenType /\ results[c] \in Results
    OBVIOUS
  <2> QED
    BY <2>1 DEF TokenType, SignaturesOf, Results, CallInv, LoopInv
<1>2. ASSUME NEW i \in DOMAIN results[c], results[c][i].valid
      PROVE  [index |-> i, keyID |-> results[c][i].keyID] \in Vouched(c)
  <2>1. i \in DOMAIN SignaturesOf(c)
    BY <1>1
  <2>2. PICK r \in seen[c] : /\ Genuine(SignaturesOf(c)[i], r)
                             /\ Answer(SignaturesOf(c)[i], r).keyID
                                   = results[c][i].keyID
    BY <1>2 DEF CallInv, EvidenceInv, Explained, ReportedKeyID, Genuine
  <2>3. Approval(i, results[c][i].keyID) \in GenuineApprovals(token[c], r)
    BY <1>1, <2>1, <2>2 DEF GenuineApprovals
  <2> QED
    BY <2>3 DEF Vouched, Approval
<1>3. ASSUME NEW a \in Vouched(c)
      PROVE  a.index \in 1 .. Len(SignaturesOf(c))
  BY <1>1, <1>3 DEF Vouched, GenuineApprovals, Approval
<1> QED
  BY <1>2, <1>3 DEF Approvals

\* No acceptance without enough genuine signatures for identities the
\* resolver trusted during that call.
THEOREM AcceptedIsVouchedAlways == Spec => []AcceptedIsVouched
<1>1. IInv => AcceptedIsVouched
  <2> SUFFICES ASSUME IInv, NEW c \in Calls, outcome[c] = "Accepted"
               PROVE  /\ Vouched(c) # {}
                      /\ Satisfied(policy, Vouched(c), Len(SignaturesOf(c)))
    BY DEF AcceptedIsVouched
  <2>1. /\ hasValid[c] /\ Evaluate(policy, results[c])
        /\ policy.kind = "any" \/ Exhausted(c)
    BY DEF IInv, CallInv, DecisionInv
  <2>2. Vouched(c) # {}
    <3>1. PICK i \in DOMAIN results[c] : results[c][i].valid
      BY <2>1 DEF IInv, CallInv, FlagInv
    <3>2. [index |-> i, keyID |-> results[c][i].keyID] \in Approvals(results[c])
      BY <3>1 DEF Approvals
    <3> QED
      BY <3>2, ApprovalsAreVouched
  <2>3. ASSUME NEW q \in Nodes(policy)
        PROVE  SatisfiedNode(q, Vouched(c), Len(SignaturesOf(c)))
    <3>1. /\ policy \in Policies /\ results[c] \in Results
          /\ Len(SignaturesOf(c)) \in Nat
      <4>1. token[c] \in TokenType /\ policy \in Policies /\ results[c] \in Results
        BY DEF IInv, TypeOK
      <4> QED
        BY <4>1 DEF TokenType, SignaturesOf
    <3>2. q.kind = "all" => Len(SignaturesOf(c)) = Len(results[c])
      BY <2>1, SimplePolicyIsItsTree DEF Exhausted
    <3>3. EvaluateNode(q, results[c])
      BY <2>1 DEF Evaluate
    <3> QED
      BY <3>1, <3>2, <3>3, ApprovalsAreVouched, EvaluatedNodeIsSatisfied
  <2> QED
    BY <2>2, <2>3 DEF Satisfied
<1> QED
  BY <1>1, IInvAlways, PTL

\* The evidence returned with an acceptance is complete, or ends with the
\* only valid signature under the bare any policy.
THEOREM AcceptedEvidenceAlways == Spec => []AcceptedEvidence
<1>1. IInv => AcceptedEvidence
  <2> SUFFICES ASSUME IInv, NEW c \in Calls, outcome[c] = "Accepted"
               PROVE  \/ policy.kind # "any" /\ Exhausted(c)
                      \/ /\ policy.kind = "any"
                         /\ \A i \in DOMAIN results[c] :
                               results[c][i].valid <=> i = Len(results[c])
    BY DEF AcceptedEvidence
  <2>1. hasValid[c] /\ (policy.kind = "any" \/ Exhausted(c))
    BY DEF IInv, CallInv, DecisionInv
  <2>2. ASSUME policy.kind = "any", NEW i \in DOMAIN results[c]
        PROVE  results[c][i].valid <=> i = Len(results[c])
    <3>1. PICK j \in DOMAIN results[c] : results[c][j].valid
      BY <2>1 DEF IInv, CallInv, FlagInv
    <3>2. \A k \in DOMAIN results[c] :
              results[c][k].valid => k = Len(results[c])
      BY <2>2 DEF IInv, CallInv, FlagInv
    <3> QED
      BY <3>1, <3>2
  <2> QED
    BY <2>1, <2>2
<1> QED
  BY <1>1, IInvAlways, PTL

\* A policy error is a statement about every signature of the message.
THEOREM RejectionIsPerSignatureAlways == Spec => []RejectionIsPerSignature
<1>1. IInv => RejectionIsPerSignature
  <2> SUFFICES ASSUME IInv, NEW c \in Calls, outcome[c] \in PolicyFailures
               PROVE  /\ Exhausted(c)
                      /\ \A i \in DOMAIN SignaturesOf(c) :
                            \/ results[c][i].valid
                            \/ \E r \in seen[c] :
                                  /\ ~ Genuine(SignaturesOf(c)[i], r)
                                  /\ ~ Fatal(SignaturesOf(c)[i], r)
    BY DEF RejectionIsPerSignature
  <2>1. Exhausted(c)
    BY DEF IInv, CallInv, DecisionInv
  <2>2. DOMAIN SignaturesOf(c) = DOMAIN results[c]
    <3>1. token[c] \in TokenType /\ results[c] \in Results
      BY DEF IInv, TypeOK
    <3> QED
      BY <2>1, <3>1 DEF Exhausted, TokenType, SignaturesOf, Results
  <2> QED
    BY <2>1, <2>2 DEF IInv, CallInv, EvidenceInv, Explained
<1> QED
  BY <1>1, IInvAlways, PTL

\* The property for one call: none of its steps, and no step of another
\* call or of the environment, starts anything once its context is done.
LEMMA CancelledCallStarts ==
    ASSUME TypeOK, [Moves]_vars, NEW c \in Calls, cancelled[c]
    PROVE  /\ pc'[c] = "resolving" => pc[c] = "resolving"
           /\ results'[c] # results[c] => pc[c] \in {"resolving", "verifying"}
<1> USE DEF TypeOK
<1>1. ASSUME NEW d \in Calls, Presented(d)
      PROVE  /\ pc'[c] = "resolving" => pc[c] = "resolving"
             /\ results'[c] = results[c]
  BY <1>1, AdmissionType DEF Presented, VerifyToken, Return
<1>2. ASSUME NEW d \in Calls, RejectHeader(d) \/ KeyNotFound(d) \/ VerifySignature(d)
      PROVE  /\ pc'[c] = "resolving" => pc[c] = "resolving"
             /\ results'[c] # results[c] => pc[c] \in {"resolving", "verifying"}
  BY <1>2 DEF RejectHeader, KeyNotFound, VerifySignature, Record
<1>3. ASSUME NEW d \in Calls, CallResolver(d) \/ KeyResolved(d)
      PROVE  /\ pc'[c] = "resolving" => pc[c] = "resolving"
             /\ results'[c] = results[c]
  BY <1>3 DEF CallResolver, KeyResolved
<1>4. ASSUME NEW d \in Calls,
             CheckContext(d) \/ ResolverFailure(d) \/ NilKeyResolved(d)
               \/ Conclude(d)
      PROVE  /\ pc'[c] = "resolving" => pc[c] = "resolving"
             /\ results'[c] = results[c]
  BY <1>4 DEF CheckContext, ResolverFailure, NilKeyResolved, Conclude,
              NoValidSignature, PolicyRejects, Accept, Return
<1>5. ASSUME \/ ChangeRegistry
             \/ UNCHANGED vars
             \/ \E d \in Calls : Cancel(d)
      PROVE  pc' = pc /\ results' = results
  BY <1>5 DEF ChangeRegistry, Cancel, vars
<1> QED
  BY <1>1, <1>2, <1>3, <1>4, <1>5 DEF Moves, Step, ProcessSignature

\* Once its context is done a call asks the resolver nothing more and records
\* nothing but the signature in flight.
THEOREM NothingStartsAfterCancellationAlways ==
    Spec => NothingStartsAfterCancellation
<1>1. TypeOK /\ [Moves]_vars =>
        [\A c \in Calls : cancelled[c] =>
          /\ pc'[c] = "resolving" => pc[c] = "resolving"
          /\ results'[c] # results[c] => pc[c] \in {"resolving", "verifying"}]_vars
  BY CancelledCallStarts
<1> QED
  BY <1>1, TypeCorrect, NextMoves, PTL DEF Spec, NothingStartsAfterCancellation

-----------------------------------------------------------------------------
(* Policies.                                                               *)

LEMMA PolicyFixed ==
    [Moves]_vars => policy' = policy /\ (ValidPolicy(policy) => ValidPolicy(policy)')
<1>1. [Moves]_vars => policy' = policy
  BY DEF Moves, Presented, VerifyToken, Step, ProcessSignature, CheckContext,
         RejectHeader, CallResolver, KeyNotFound, ResolverFailure,
         NilKeyResolved, KeyResolved, VerifySignature, Conclude,
         NoValidSignature, PolicyRejects, Accept, Cancel, ChangeRegistry,
         given, vars
<1>2. policy' = policy => (ValidPolicy(policy) => ValidPolicy(policy)')
  BY DEF ValidPolicy, ValidNode, ValidThreshold, ValidPolicyKeyIDs, Nodes, Nested
<1> QED
  BY <1>1, <1>2

\* The strengthening: the policy in force went through WithSignaturePolicy.
Configured == TypeOK /\ ValidPolicy(policy)

\* A MultiVerifier only ever evaluates policies that validated, on results
\* with an identity and a verdict.
THEOREM ConfiguredAlways == Spec => []Configured
<1>1. Init => ValidPolicy(policy)
  BY DEF Init
<1>3. ValidPolicy(policy) /\ [Moves]_vars => ValidPolicy(policy)'
  BY PolicyFixed
<1>4. TypeOK /\ ValidPolicy(policy) => Configured
  BY DEF Configured
<1> QED
  BY <1>1, <1>3, <1>4, TypeCorrect, NextMoves, PTL DEF Spec

\* The results of a call stay, or one result more is appended to them.
LEMMA ResultsGrow ==
    ASSUME TypeOK, [Moves]_vars, NEW c \in Calls
    PROVE  \/ results'[c] = results[c]
           \/ \E r \in [keyID : KeyIDs, valid : BOOLEAN] :
                 results'[c] = Append(results[c], r)
<1> USE DEF TypeOK
<1>1. ASSUME NEW d \in Calls, NEW keyID \in KeyIDs, NEW valid \in BOOLEAN,
             Record(d, keyID, valid)
      PROVE  \/ results'[c] = results[c]
             \/ \E r \in [keyID : KeyIDs, valid : BOOLEAN] :
                   results'[c] = Append(results[c], r)
  <2> DEFINE r == [keyID |-> keyID, valid |-> valid]
  <2>1. r \in [keyID : KeyIDs, valid : BOOLEAN]
    OBVIOUS
  <2>2. results' = [results EXCEPT ![d] = Append(results[d], r)]
    BY <1>1 DEF Record
  <2> HIDE DEF r
  <2> QED
    BY <2>1, <2>2
<1>2. ASSUME NEW d \in Calls, RejectHeader(d) \/ KeyNotFound(d)
      PROVE  Record(d, NoKeyID, FALSE)
  BY <1>2 DEF RejectHeader, KeyNotFound
<1>3. ASSUME NEW d \in Calls, VerifySignature(d)
      PROVE  /\ Record(d, resolved[d].keyID, Current(d).signer = resolved[d].key)
             /\ resolved[d].keyID \in KeyIDs
  BY <1>3 DEF VerifySignature, Resolutions
<1>4. ASSUME \/ UNCHANGED vars \/ ChangeRegistry
             \/ \E d \in Calls : \/ Presented(d) \/ Cancel(d)
                                 \/ CheckContext(d) \/ CallResolver(d)
                                 \/ ResolverFailure(d) \/ NilKeyResolved(d)
                                 \/ KeyResolved(d) \/ Conclude(d)
      PROVE  results' = results
  BY <1>4 DEF vars, ChangeRegistry, Presented, VerifyToken, Cancel,
              CheckContext, CallResolver, ResolverFailure, NilKeyResolved,
              KeyResolved, Conclude, NoValidSignature, PolicyRejects, Accept
<1>5. ASSUME NEW d \in Calls, RejectHeader(d) \/ KeyNotFound(d) \/ VerifySignature(d)
      PROVE  \/ results'[c] = results[c]
             \/ \E r \in [keyID : KeyIDs, valid : BOOLEAN] :
                   results'[c] = Append(results[c], r)
  BY <1>1, <1>2, <1>3, <1>5, KeyIDsAssumption
<1> QED
  BY <1>4, <1>5 DEF Moves, Step, ProcessSignature

\* The loops of policy.go decide as the documentation promises, for every
\* policy that validates and every sequence of results.
THEOREM PolicyKeepsPromiseAlways == Spec => []PolicyKeepsPromise
<1>1. Configured => PolicyKeepsPromise
  <2> SUFFICES ASSUME Configured, NEW c \in Calls
               PROVE  Evaluate(policy, results[c]) <=>
                        /\ Satisfied(policy, Approvals(results[c]), Len(results[c]))
                        /\ FunctionsAgree(policy, results[c])
    BY DEF PolicyKeepsPromise
  <2>0. policy \in Policies /\ ValidPolicy(policy) /\ results[c] \in Results
    BY DEF Configured, TypeOK
  <2>1. ASSUME NEW q \in Nodes(policy), EvaluateNode(q, results[c])
        PROVE  SatisfiedNode(q, Approvals(results[c]), Len(results[c]))
    <3>1. \A a \in Approvals(results[c]) : a.index \in 1 .. Len(results[c])
      BY <2>0 DEF Approvals, Results
    <3>2. Len(results[c]) \in Nat
      BY <2>0 DEF Results
    <3> QED
      BY <2>0, <2>1, <3>1, <3>2, EvaluatedNodeIsSatisfied
  <2>2. ASSUME NEW q \in Nodes(policy),
               SatisfiedNode(q, Approvals(results[c]), Len(results[c])),
               q.kind = "func" => results[c] \in q.accepts
        PROVE  EvaluateNode(q, results[c])
    BY <2>0, <2>2, SatisfiedNodeIsEvaluated
  <2>3. Evaluate(policy, results[c]) => FunctionsAgree(policy, results[c])
    BY DEF Evaluate, EvaluateNode, FunctionsAgree
  <2> QED
    BY <2>1, <2>2, <2>3 DEF Evaluate, Satisfied, FunctionsAgree
<1> QED
  BY <1>1, ConfiguredAlways, PTL

\* One more result takes nothing from a policy without RequireAllSignatures
\* and functions of the application.
LEMMA AcceptedWithOneMore ==
    ASSUME NEW p \in Policies, ValidPolicy(p), Monotone(p),
           NEW old \in Results, Evaluate(p, old),
           NEW r \in [keyID : KeyIDs, valid : BOOLEAN],
           NEW new, new = Append(old, r)
    PROVE  Evaluate(p, new)
<1>1. /\ new \in Results
      /\ Len(new) = Len(old) + 1 /\ Len(old) \in Nat
      /\ DOMAIN old = 1 .. Len(old)
      /\ DOMAIN new = 1 .. Len(new)
      /\ \A i \in 1 .. Len(old) : new[i] = old[i]
  BY DEF Results
<1>2. Approvals(old) \subseteq Approvals(new)
  BY <1>1 DEF Approvals
<1>3. \A a \in Approvals(new) : a.index \in 1 .. Len(new)
  BY <1>1 DEF Approvals
<1>4. ASSUME NEW q \in Nodes(p)
      PROVE  EvaluateNode(q, new)
  <2>1. EvaluateNode(q, old) /\ q.kind \notin {"all", "func"}
    BY DEF Evaluate, Monotone
  <2>2. SatisfiedNode(q, Approvals(new), Len(new))
    BY <2>1, <1>1, <1>2, <1>3, EvaluatedNodeIsSatisfied
  <2> QED
    BY <2>1, <2>2, <1>1, SatisfiedNodeIsEvaluated
<1> QED
  BY <1>4 DEF Evaluate

\* Without RequireAllSignatures and functions of the application in the
\* policy, no further result revokes an acceptance.
THEOREM AcceptanceIsStableAlways == Spec => AcceptanceIsStable
<1>1. ASSUME Configured, [Moves]_vars, NEW c \in Calls,
             Monotone(policy), Evaluate(policy, results[c])
      PROVE  Evaluate(policy, results'[c])
  <2>1. policy \in Policies /\ ValidPolicy(policy) /\ results[c] \in Results
    BY <1>1 DEF Configured, TypeOK
  <2>2. CASE results'[c] = results[c]
    BY <1>1, <2>2
  <2>3. CASE results'[c] # results[c]
    <3>1. PICK r \in [keyID : KeyIDs, valid : BOOLEAN] :
              results'[c] = Append(results[c], r)
      BY <1>1, <2>3, ResultsGrow DEF Configured
    <3> QED
      BY <1>1, <2>1, <3>1, AcceptedWithOneMore
  <2> QED
    BY <2>2, <2>3
<1>2. Configured /\ [Moves]_vars =>
        [\A c \in Calls : Monotone(policy) /\ Evaluate(policy, results[c])
            => Evaluate(policy, results'[c])]_vars
  BY <1>1
<1> QED
  BY <1>2, ConfiguredAlways, NextMoves, PTL DEF Spec, AcceptanceIsStable

-----------------------------------------------------------------------------
(* The refinement.                                                         *)

\* The abstract specification is about the same policies.
LEMMA SameCardinality ==
    ASSUME NEW S
    PROVE  Acceptance!Cardinality(S) = Cardinality(S)
BY Zenon DEF Acceptance!Cardinality, Cardinality, Acceptance!IsFiniteSet,
             IsFiniteSet

LEMMA SameMeaning ==
    ASSUME NEW p, NEW A, NEW n
    PROVE  Acceptance!Satisfied(p, A, n) <=> Satisfied(p, A, n)
<1>1. Acceptance!Nodes(p) = Nodes(p)
  BY DEF Acceptance!Nodes, Acceptance!Nested, Nodes, Nested
<1>2. Acceptance!Approvers(A) = Approvers(A)
  BY DEF Acceptance!Approvers, Approvers
<1>3. ASSUME NEW q
      PROVE  Acceptance!SatisfiedNode(q, A, n) <=> SatisfiedNode(q, A, n)
  BY <1>2, SameCardinality, Zenon DEF Acceptance!SatisfiedNode, SatisfiedNode
<1> QED
  BY <1>1, <1>3 DEF Acceptance!Satisfied, Satisfied

\* What the refinement mapping shows of a call does not change.
SameView(c) ==
    /\ VerdictOf(c)' = VerdictOf(c)
    /\ Approvals(results[c])' = Approvals(results[c])
    /\ Len(SignaturesOf(c))' = Len(SignaturesOf(c))

LEMMA UnchangedView ==
    ASSUME policy' = policy, \A c \in Calls : SameView(c)
    PROVE  UNCHANGED Acceptance!vars
BY DEF Acceptance!vars, SameView

\* A call in progress is decided.
LEMMA DecidedView ==
    ASSUME policy' = policy, NEW c \in Calls, NEW v,
           \A d \in Calls \ {c} : SameView(d),
           VerdictOf(c) = "pending", VerdictOf(c)' = v,
           Approvals(results[c])' = Approvals(results[c]),
           Len(SignaturesOf(c))' = Len(SignaturesOf(c))
    PROVE  Acceptance!Decide(c, v)
BY DEF Acceptance!Decide, SameView

LEMMA KeptView ==
    ASSUME NEW c \in Calls, Kept(c), pc'[c] = pc[c], outcome'[c] = outcome[c]
    PROVE  SameView(c)
BY DEF Kept, SameView, VerdictOf, SignaturesOf, Approvals

\* The results of a call are as long as its message, at most, and each is
\* known by its place.
LEMMA ResultsType ==
    ASSUME IInv, NEW c \in Calls
    PROVE  /\ results[c] \in Results
           /\ DOMAIN results[c] = 1 .. Len(results[c])
           /\ Len(results[c]) \in Nat
           /\ Len(SignaturesOf(c)) \in Nat
           /\ Len(results[c]) <= Len(SignaturesOf(c))
<1>1. results[c] \in Results /\ token[c] \in TokenType
  BY DEF IInv, TypeOK
<1> QED
  BY <1>1 DEF Results, TokenType, SignaturesOf, IInv, CallInv, LoopInv

\* Appending a result adds its approval, if it is valid.
LEMMA AppendedApprovals ==
    ASSUME NEW s \in Results, NEW keyID \in KeyIDs, NEW valid \in BOOLEAN
    PROVE  Approvals(Append(s, [keyID |-> keyID, valid |-> valid]))
              = Approvals(s) \cup IF valid THEN {Approval(Len(s) + 1, keyID)}
                                           ELSE {}
<1> DEFINE n == Len(s)
           r == [keyID |-> keyID, valid |-> valid]
           t == Append(s, r)
<1>1. /\ n \in Nat /\ DOMAIN s = 1 .. n /\ DOMAIN t = 1 .. n + 1
      /\ \A i \in 1 .. n : t[i] = s[i]
      /\ t[n + 1] = r
  BY DEF Results
<1>2. n + 1 \in 1 .. n + 1 /\ 1 .. n + 1 = (1 .. n) \cup {n + 1}
  BY <1>1
<1>3. r.keyID = keyID /\ r.valid = valid
  OBVIOUS
<1> HIDE DEF t, r, n
<1>4. {j \in DOMAIN t : t[j].valid}
         = {j \in DOMAIN s : s[j].valid} \cup IF valid THEN {n + 1} ELSE {}
  BY <1>1, <1>2, <1>3
<1>5. \A j \in DOMAIN s : t[j].keyID = s[j].keyID
  BY <1>1
<1>6. Approvals(t) = Approvals(s) \cup IF valid THEN {Approval(n + 1, keyID)} ELSE {}
  BY <1>1, <1>3, <1>4, <1>5 DEF Approvals, Approval
<1> QED
  BY <1>6 DEF t, r, n

-----------------------------------------------------------------------------
\* The calls that do not take a step look the same afterwards.
LEMMA OtherViews ==
    ASSUME IInv, NEW c \in Calls, Presented(c) \/ Step(c) \/ Cancel(c)
    PROVE  /\ \A d \in Calls \ {c} : SameView(d)
           /\ policy' = policy
<1>1. ASSUME NEW d \in Calls \ {c}
      PROVE  SameView(d)
  BY OthersUntouched, KeptView DEF IInv
<1>2. policy' = policy
  BY DEF Presented, VerifyToken, Cancel, Step, ProcessSignature, Conclude, CheckContext,
         RejectHeader, CallResolver, KeyNotFound, ResolverFailure,
         NilKeyResolved, KeyResolved, VerifySignature, NoValidSignature,
         PolicyRejects, Accept, given
<1> QED
  BY <1>1, <1>2

LEMMA SubmitStep ==
    ASSUME IInv, NEW c \in Calls, Presented(c)
    PROVE  Acceptance!Submit(c)
<1> USE DEF IInv, TypeOK
<1>1. PICK t \in TokenType :
        /\ token' = [token EXCEPT ![c] = t]
        /\ \/ /\ Admission(t) = "admitted"
              /\ pc' = [pc EXCEPT ![c] = "loop"]
              /\ UNCHANGED outcome
           \/ /\ Admission(t) # "admitted"
              /\ Return(c, Admission(t))
  BY DEF Presented, VerifyToken
<1>2. pc[c] = "idle" /\ UNCHANGED <<policy, results>>
  BY DEF Presented, VerifyToken
<1>3. VerdictOf(c) = "idle" /\ VerdictOf(c)' \in {"pending", "failed"}
  BY <1>1, <1>2, AdmissionType DEF VerdictOf, Return, Rejections, PolicyFailures
<1>4. Len(SignaturesOf(c))' \in Nat
  BY <1>1, VerifierAssumption DEF SignaturesOf, TokenType
<1>5. \A d \in Calls \ {c} : SameView(d)
  BY OtherViews
<1> QED
  BY <1>2, <1>3, <1>4, <1>5 DEF Acceptance!Submit, SameView

\* A valid signature is an approval; one that failed leaves no trace.
LEMMA RecordStep ==
    ASSUME IInv, NEW c \in Calls, NEW keyID \in KeyIDs, NEW valid \in BOOLEAN,
           pc[c] \in {"loop", "resolving", "verifying"},
           Len(results[c]) < Len(SignaturesOf(c)),
           \A d \in Calls \ {c} : SameView(d),
           Record(c, keyID, valid), UNCHANGED <<given, outcome>>
    PROVE  Acceptance!Approve(c) \/ UNCHANGED Acceptance!vars
<1> USE DEF IInv, TypeOK
<1> DEFINE n == Len(results[c])
<1>1. /\ results'[c] = Append(results[c], [keyID |-> keyID, valid |-> valid])
      /\ pc'[c] \in {"evaluate", "loop"}
  BY DEF Record
<1>2. VerdictOf(c) = "pending" /\ VerdictOf(c)' = "pending"
  BY <1>1 DEF VerdictOf
<1>3. /\ SignaturesOf(c)' = SignaturesOf(c) /\ policy' = policy
  BY DEF given, SignaturesOf
<1>4. Approvals(results'[c]) = Approvals(results[c])
          \cup IF valid THEN {Approval(n + 1, keyID)} ELSE {}
  BY <1>1, ResultsType, AppendedApprovals
<1>5. CASE ~ valid
  BY <1>2, <1>3, <1>4, <1>5, UnchangedView DEF SameView
<1>6. CASE valid
  <2>1. n + 1 \in 1 .. Len(SignaturesOf(c))
    BY ResultsType
  <2>2. ASSUME NEW a \in Approvals(results[c])
        PROVE  a.index < n + 1
    BY <2>2, ResultsType DEF Approvals
  <2>3. Approvals(results'[c])
           = Approvals(results[c]) \cup {[index |-> n + 1, keyID |-> keyID]}
    BY <1>4, <1>6 DEF Approval
  <2>4. /\ [d \in Calls |-> VerdictOf(d)]' = [d \in Calls |-> VerdictOf(d)]
        /\ [d \in Calls |-> Len(SignaturesOf(d))]'
              = [d \in Calls |-> Len(SignaturesOf(d))]
    BY <1>2, <1>3 DEF SameView
  <2> DEFINE before == [d \in Calls |-> Approvals(results[d])]
             gained == {[index |-> n + 1, keyID |-> keyID]}
  <2>5. before' = [before EXCEPT ![c] = @ \cup gained]
    BY <2>3 DEF SameView
  <2> HIDE DEF n
  <2> QED
    BY <1>2, <1>3, <2>1, <2>2, <2>4, <2>5 DEF Acceptance!Approve
<1> QED
  BY <1>5, <1>6

\* The results of the whole message, or those the bare any policy stopped at,
\* deserve acceptance, and the functions agree, exactly when the policy accepts
\* them and one of them is valid.
LEMMA Deserving ==
    ASSUME IInv, ValidPolicy(policy), NEW c \in Calls,
           policy.kind = "any" \/ Exhausted(c)
    PROVE  Acceptance!Deserved(c) /\ FunctionsAgree(policy, results[c])
             <=> hasValid[c] /\ Evaluate(policy, results[c])
<1> USE DEF IInv, TypeOK
<1> DEFINE A == Approvals(results[c])
           n == Len(SignaturesOf(c))
<1>1. A # {} <=> hasValid[c]
  <2>1. A # {} <=> {j \in DOMAIN results[c] : results[c][j].valid} # {}
    BY DEF Approvals
  <2> QED
    BY <2>1 DEF CallInv, FlagInv
<1>2. policy \in Policies /\ results[c] \in Results /\ n \in Nat
  BY ResultsType
<1>3. policy.kind = "any" \/ n = Len(results[c])
  BY DEF Exhausted
<1>4. \A a \in A : a.index \in 1 .. n
  BY ResultsType DEF Approvals
<1>5. ASSUME hasValid[c], Evaluate(policy, results[c]), NEW q \in Nodes(policy)
      PROVE  SatisfiedNode(q, A, n)
  <2>1. q.kind = "all" => n = Len(results[c])
    BY <1>3, SimplePolicyIsItsTree
  <2>2. EvaluateNode(q, results[c])
    BY <1>5 DEF Evaluate
  <2> HIDE DEF A, n
  <2> QED
    BY <1>2, <1>4, <2>1, <2>2, EvaluatedNodeIsSatisfied DEF A
<1>6. ASSUME hasValid[c], Satisfied(policy, A, n),
             FunctionsAgree(policy, results[c]), NEW q \in Nodes(policy)
      PROVE  EvaluateNode(q, results[c])
  <2>1. /\ SatisfiedNode(q, A, n)
        /\ q.kind = "func" => results[c] \in q.accepts
    BY <1>6 DEF Satisfied, FunctionsAgree
  <2>2. CASE policy.kind = "any"
    BY <1>6, <2>2, SimplePolicyIsItsTree DEF EvaluateNode, AnyValid, CallInv, FlagInv
  <2>3. CASE n = Len(results[c])
    BY <1>2, <2>1, <2>3, SatisfiedNodeIsEvaluated
  <2> QED
    BY <1>3, <2>2, <2>3
<1>7. hasValid[c] => (Evaluate(policy, results[c])
                         <=> /\ Satisfied(policy, A, n)
                             /\ FunctionsAgree(policy, results[c]))
  <2>1. Evaluate(policy, results[c]) => FunctionsAgree(policy, results[c])
    BY DEF Evaluate, EvaluateNode, FunctionsAgree
  <2> QED
    BY <1>5, <1>6, <2>1 DEF Satisfied, Evaluate
<1> QED
  BY <1>1, <1>7, SameMeaning DEF Acceptance!Deserved

\* A call that leaves the loop is decided by what it deserves.
LEMMA ConcludeStep ==
    ASSUME IInv, ValidPolicy(policy), NEW c \in Calls, Conclude(c),
           \A d \in Calls \ {c} : SameView(d)
    PROVE  Acceptance!Accept(c) \/ Acceptance!Refuse(c)
<1> USE DEF IInv, TypeOK
<1>1. /\ LoopEnded(c) /\ VerdictOf(c) = "pending"
      /\ UNCHANGED <<given, results>>
  BY DEF Conclude, NoValidSignature, PolicyRejects, Accept, LoopEnded, VerdictOf
<1>2. /\ policy' = policy
      /\ Approvals(results[c])' = Approvals(results[c])
      /\ Len(SignaturesOf(c))' = Len(SignaturesOf(c))
  BY <1>1 DEF given, Approvals, SignaturesOf
<1> policy.kind = "any" \/ Exhausted(c)
  BY <1>1 DEF LoopEnded, CallInv, FlagInv
<1>3. CASE Accept(c)
  <2>1. VerdictOf(c)' = "accepted"
    BY <1>3 DEF Accept, Return, VerdictOf, PolicyFailures
  <2>2. Acceptance!Decide(c, "accepted")
    BY <1>1, <1>2, <2>1, DecidedView
  <2>3. Acceptance!Deserved(c)
    BY <1>1, <1>3, Deserving DEF Accept
  <2> QED
    BY <2>2, <2>3 DEF Acceptance!Accept
<1>4. CASE NoValidSignature(c) \/ PolicyRejects(c)
  <2>1. VerdictOf(c)' = "refused"
    BY <1>4 DEF NoValidSignature, PolicyRejects, Return, VerdictOf, PolicyFailures
  <2>2. Acceptance!Decide(c, "refused")
    BY <1>1, <1>2, <2>1, DecidedView
  <2>3. ~ Acceptance!Deserved(c) \/ ~ FunctionsAgree(policy, results[c])
    BY <1>1, <1>4, Deserving DEF NoValidSignature, PolicyRejects
  <2>4. ~ FunctionsAgree(policy, results[c]) => Acceptance!HasFunction(policy)
    BY DEF FunctionsAgree, Acceptance!HasFunction, Acceptance!Nodes,
           Acceptance!Nested, Nodes, Nested
  <2> QED
    BY <2>2, <2>3, <2>4 DEF Acceptance!Refuse
<1> QED
  BY <1>3, <1>4 DEF Conclude

\* A call that an error ends before the policy is asked.
LEMMA AbortStep ==
    ASSUME IInv, NEW c \in Calls,
           CheckContext(c) \/ ResolverFailure(c) \/ NilKeyResolved(c),
           \A d \in Calls \ {c} : SameView(d)
    PROVE  Acceptance!Fail(c)
<1> USE DEF IInv, TypeOK
<1>1. /\ VerdictOf(c) = "pending" /\ VerdictOf(c)' = "failed"
      /\ UNCHANGED <<given, results>>
  BY DEF CheckContext, ResolverFailure, NilKeyResolved, Return, VerdictOf,
         PolicyFailures
<1>2. /\ policy' = policy
      /\ Approvals(results[c])' = Approvals(results[c])
      /\ Len(SignaturesOf(c))' = Len(SignaturesOf(c))
  BY <1>1 DEF given, Approvals, SignaturesOf
<1> QED
  BY <1>1, <1>2, DecidedView DEF Acceptance!Fail

\* Steps the abstract specification does not see.
LEMMA HiddenStep ==
    ASSUME IInv, NEW c \in Calls, CallResolver(c) \/ KeyResolved(c) \/ Cancel(c),
           \A d \in Calls \ {c} : SameView(d)
    PROVE  UNCHANGED Acceptance!vars
<1> USE DEF IInv, TypeOK
<1>1. SameView(c) /\ policy' = policy
  BY DEF CallResolver, KeyResolved, Cancel, SameView, VerdictOf, given,
         SignaturesOf, Approvals
<1> QED
  BY <1>1, UnchangedView

LEMMA CallStep ==
    ASSUME IInv, ValidPolicy(policy), NEW c \in Calls,
           Presented(c) \/ Step(c) \/ Cancel(c)
    PROVE  Acceptance!Next \/ UNCHANGED Acceptance!vars
<1> USE DEF IInv, TypeOK
<1>1. \A d \in Calls \ {c} : SameView(d)
  BY OtherViews
<1>2. CASE Presented(c)
  BY <1>2, SubmitStep DEF Acceptance!Next
<1>3. CASE CheckContext(c) \/ ResolverFailure(c) \/ NilKeyResolved(c)
  BY <1>1, <1>3, AbortStep DEF Acceptance!Next
<1>4. CASE CallResolver(c) \/ KeyResolved(c) \/ Cancel(c)
  BY <1>1, <1>4, HiddenStep
<1>5. CASE RejectHeader(c) \/ KeyNotFound(c)
  <2>1. /\ pc[c] \in {"loop", "resolving"}
        /\ Len(results[c]) < Len(SignaturesOf(c))
        /\ Record(c, NoKeyID, FALSE) /\ UNCHANGED <<given, outcome>>
    <3>1. CASE RejectHeader(c)
      <4>1. pc[c] = "loop" /\ ~ Exhausted(c)
        BY <3>1 DEF RejectHeader
      <4>2. Len(results[c]) < Len(SignaturesOf(c))
        BY <4>1, ResultsType DEF Exhausted
      <4> QED
        BY <3>1, <4>1, <4>2 DEF RejectHeader
    <3>2. CASE KeyNotFound(c)
      BY <3>2 DEF KeyNotFound, CallInv, LoopInv
    <3> QED
      BY <1>5, <3>1, <3>2
  <2> QED
    BY <1>1, <2>1, RecordStep, KeyIDsAssumption DEF Acceptance!Next
<1>6. CASE VerifySignature(c)
  <2>1. /\ pc[c] = "verifying"
        /\ Len(results[c]) < Len(SignaturesOf(c))
        /\ Record(c, resolved[c].keyID, Current(c).signer = resolved[c].key)
        /\ UNCHANGED <<given, outcome>>
        /\ resolved[c].keyID \in KeyIDs
    BY <1>6 DEF VerifySignature, CallInv, LoopInv, Resolutions
  <2> QED
    BY <1>1, <2>1, RecordStep DEF Acceptance!Next
<1>7. CASE Conclude(c)
  BY <1>1, <1>7, ConcludeStep DEF Acceptance!Next
<1> QED
  BY <1>2, <1>3, <1>4, <1>5, <1>6, <1>7 DEF Step, ProcessSignature

-----------------------------------------------------------------------------
\* NewMultiVerifier refused every other policy, and no step replaces it.
COROLLARY PolicyIsConfigured == Spec => []ValidPolicy(policy)
<1>1. Configured => ValidPolicy(policy)
  BY DEF Configured
<1> QED
  BY <1>1, ConfiguredAlways, PTL

\* The verifier implements the safety part of its abstract specification:
\* approvals are gathered in order and never withdrawn, and acceptance and
\* refusal are exactly what the approvals gathered deserve, for good.
THEOREM ImplementsAcceptanceSafety == Spec => Acceptance!Spec
<1>1. Init => Acceptance!Init
  <2> SUFFICES ASSUME Init
               PROVE  Acceptance!Init
    OBVIOUS
  <2>1. policy \in {p \in Policies : Acceptance!ValidPolicy(p)}
    BY DEF Init, Acceptance!ValidPolicy, Acceptance!Nodes, Acceptance!Nested,
           Acceptance!ValidNode, Acceptance!ValidThreshold,
           Acceptance!ValidPolicyKeyIDs, Acceptance!NoDuplicates, ValidPolicy,
           Nodes, Nested, ValidNode, ValidThreshold, ValidPolicyKeyIDs,
           NoDuplicates
  <2>2. ASSUME NEW c \in Calls
        PROVE  /\ VerdictOf(c) = "idle"
               /\ Approvals(results[c]) = {}
               /\ Len(SignaturesOf(c)) = 0
    BY DEF Init, VerdictOf, Approvals, SignaturesOf, NoToken
  <2> QED
    BY <2>1, <2>2 DEF Acceptance!Init
<1>2. /\ IInv /\ ValidPolicy(policy) /\ [Moves]_vars
      => [Acceptance!Next]_Acceptance!vars
  <2> SUFFICES ASSUME IInv, ValidPolicy(policy), [Moves]_vars
               PROVE  Acceptance!Next \/ UNCHANGED Acceptance!vars
    OBVIOUS
  <2>1. CASE \E c \in Calls : Presented(c) \/ Step(c) \/ Cancel(c)
    BY <2>1, CallStep
  <2>2. CASE ChangeRegistry \/ UNCHANGED vars
    <3>1. policy' = policy /\ \A c \in Calls : SameView(c)
      BY <2>2 DEF ChangeRegistry, vars, SameView, VerdictOf, Approvals,
                  SignaturesOf
    <3> QED
      BY <3>1, UnchangedView
  <2> QED
    BY <2>1, <2>2 DEF Moves
<1> QED
  BY <1>1, <1>2, IInvAlways, PolicyIsConfigured, NextMoves, PTL
     DEF Spec, Acceptance!Spec
-----------------------------------------------------------------------------
(***************************************************************************)
(* The verdict of a call nothing disturbs.                                 *)
(***************************************************************************)

\* An aborted call stopped at a fatal lookup, unless its context was done.
AbortInv(c) ==
    outcome[c] \in {"ResolverFailure", "NilKey"} /\ ~ cancelled[c] =>
        /\ Len(results[c]) < Len(SignaturesOf(c))
        /\ policy.kind = "any" => ~ hasValid[c]
        /\ \E r \in seen[c] : Fatal(Current(c), r)

\* Why each call returned as it did.
CauseInv(c) ==
    /\ InProgress(c) => Admission(token[c]) = "admitted"
    /\ pc[c] = "done" =>
          \/ outcome[c] = Admission(token[c]) /\ Admission(token[c]) # "admitted"
          \/ /\ Admission(token[c]) = "admitted"
             /\ outcome[c] \in {"Accepted"} \cup Aborts \cup PolicyFailures
    /\ outcome[c] = "Cancelled" => cancelled[c]
    /\ outcome[c] = "NoValidSignature" => ~ hasValid[c]
    /\ outcome[c] = "PolicyRejected" =>
          hasValid[c] /\ ~ Evaluate(policy, results[c])
    /\ AbortInv(c)

\* A call that does not return, whatever happens to it, has no cause to show.
LEMMA CauseOfRunning ==
    ASSUME NEW c \in Calls, outcome'[c] = "none", pc'[c] # "done",
           InProgress(c)' => Admission(token'[c]) = "admitted"
    PROVE  CauseInv(c)'
BY DEF CauseInv, AbortInv

\* Nor does the cause of a call depend on the others.
LEMMA CauseKept ==
    ASSUME IInv, NEW c \in Calls, CauseInv(c), Kept(c), pc'[c] = pc[c],
           outcome'[c] = outcome[c], cancelled[c] => cancelled'[c]
    PROVE  CauseInv(c)'
<1> USE DEF Kept, CauseInv
<1>1. AbortInv(c)'
  BY DEF AbortInv, SignaturesOf, Current
<1> QED
  BY <1>1 DEF InProgress

\* The step a call returns by leaves the cause behind.
LEMMA CauseOfReturn ==
    ASSUME IInv, NEW c \in Calls, CauseInv(c), Step(c), pc'[c] = "done"
    PROVE  CauseInv(c)'
<1> USE DEF IInv, TypeOK
<1>1. CASE CheckContext(c)
  BY <1>1 DEF CheckContext, Return, given, CauseInv, AbortInv, InProgress, Aborts
<1>2. CASE ResolverFailure(c) \/ NilKeyResolved(c)
  <2>1. /\ UNCHANGED <<given, results, hasValid>> /\ InProgress(c)
        /\ outcome'[c] \in {"ResolverFailure", "NilKey"}
        /\ pc[c] = "resolving"
    BY <1>2 DEF ResolverFailure, NilKeyResolved, Return, InProgress
  <2>2. /\ Len(results[c]) < Len(SignaturesOf(c)) /\ HeaderAccepted(Current(c))
        /\ registry \in seen[c]
        /\ policy.kind = "any" => ~ hasValid[c]
    BY <2>1 DEF CallInv, LoopInv, FlagInv
  <2>3. ~ cancelled[c] => Fatal(Current(c), registry)
    BY <1>2, <2>2 DEF ResolverFailure, NilKeyResolved, Fatal, Answer, Reply
  <2>4. AbortInv(c)'
    BY <2>1, <2>2, <2>3 DEF AbortInv, given, SignaturesOf, Current
  <2> QED
    BY <2>1, <2>4 DEF CauseInv, given, InProgress, Aborts
<1>3. CASE Conclude(c)
  BY <1>3 DEF Conclude, NoValidSignature, PolicyRejects, Accept, LoopEnded, Return,
              given, CauseInv, AbortInv, InProgress, PolicyFailures
<1> QED
  BY <1>1, <1>2, <1>3 DEF Step, ProcessSignature, RejectHeader, CallResolver,
     KeyNotFound, KeyResolved, VerifySignature, Record

LEMMA CauseStep ==
    ASSUME IInv, \A c \in Calls : CauseInv(c), [Moves]_vars, NEW c \in Calls
    PROVE  CauseInv(c)'
<1> USE DEF IInv, TypeOK
<1>1. ASSUME NEW d \in Calls, d # c, Presented(d) \/ Step(d) \/ Cancel(d)
      PROVE  CauseInv(c)'
  <2>1. cancelled'[c] = cancelled[c]
    BY <1>1 DEF Presented, VerifyToken, Cancel, Step, ProcessSignature,
         Conclude, CheckContext, RejectHeader, CallResolver, KeyNotFound,
         ResolverFailure, NilKeyResolved, KeyResolved, VerifySignature,
         NoValidSignature, PolicyRejects, Accept, given
  <2> QED
    BY <1>1, <2>1, OthersUntouched, CauseKept
<1>2. CASE ChangeRegistry \/ UNCHANGED vars \/ Cancel(c)
  <2>1. /\ Kept(c) /\ pc'[c] = pc[c] /\ outcome'[c] = outcome[c]
        /\ cancelled[c] => cancelled'[c]
    BY <1>2 DEF ChangeRegistry, Cancel, vars, Kept
  <2> QED
    BY <2>1, CauseKept
<1>3. CASE Presented(c)
  <2>1. PICK t \in TokenType :
          /\ token'[c] = t /\ outcome[c] = "none"
          /\ \/ /\ Admission(t) = "admitted"
                /\ pc'[c] = "loop" /\ outcome'[c] = outcome[c]
             \/ /\ Admission(t) # "admitted"
                /\ pc'[c] = "done" /\ outcome'[c] = Admission(t)
    BY <1>3 DEF Presented, VerifyToken, Return, CallInv, LoopInv
  <2>2. CASE Admission(t) = "admitted"
    BY <2>1, <2>2, CauseOfRunning
  <2>3. CASE Admission(t) # "admitted"
    BY <2>1, <2>3, AdmissionType DEF CauseInv, AbortInv, Rejections, InProgress
  <2> QED
    BY <2>2, <2>3
<1>4. CASE Step(c)
  <2>1. CASE pc'[c] = "done"
    BY <1>4, <2>1, CauseOfReturn
  <2>2. CASE pc'[c] # "done"
    <3>1. token' = token /\ InProgress(c) /\ outcome' = outcome
      BY <1>4, <2>2 DEF Step, ProcessSignature, Conclude, CheckContext,
         RejectHeader, CallResolver, KeyNotFound, ResolverFailure,
         NilKeyResolved, KeyResolved, VerifySignature, NoValidSignature,
         PolicyRejects, Accept, given, InProgress, Return, LoopEnded
    <3>2. outcome'[c] = "none"
      BY <3>1 DEF CallInv, LoopInv, InProgress
    <3> QED
      BY <2>2, <3>1, <3>2, CauseOfRunning DEF CauseInv
  <2> QED
    BY <2>1, <2>2
<1> QED
  BY <1>1, <1>2, <1>3, <1>4 DEF Moves

\* What one registry explains of the results is the truth of the message.
LEMMA ExplainedByOne ==
    ASSUME IInv, NEW c \in Calls, NEW r, seen[c] = {r}, NEW i \in DOMAIN results[c]
    PROVE  /\ results[c][i].valid <=> Genuine(SignaturesOf(c)[i], r)
           /\ results[c][i].valid => Answer(SignaturesOf(c)[i], r).keyID
                                       = results[c][i].keyID
           /\ results[c][i].keyID = ReportedKeyID(SignaturesOf(c)[i], r)
           /\ ~ Fatal(SignaturesOf(c)[i], r)
BY DEF IInv, CallInv, EvidenceInv, Explained, ReportedKeyID, Genuine, Fatal

\* When every signature was processed under one registry.
LEMMA ExhaustedVerdict ==
    ASSUME IInv, ValidPolicy(policy), NEW c \in Calls, NEW r, seen[c] = {r},
           Exhausted(c), Admission(token[c]) = "admitted"
    PROVE  UndisturbedVerdict(token[c], r) =
             IF ~ hasValid[c] THEN {"NoValidSignature"}
             ELSE IF Evaluate(policy, results[c]) THEN {"Accepted"}
             ELSE {"PolicyRejected"}
<1> DEFINE A == Approvals(results[c])
           G == GenuineApprovals(token[c], r)
<1>1. DOMAIN results[c] = DOMAIN SignaturesOf(c)
  <2>1. token[c] \in TokenType
    BY DEF IInv, TypeOK
  <2> QED
    BY <2>1, ResultsType DEF Exhausted, TokenType, SignaturesOf
<1>2. G = A
  <2>1. {j \in DOMAIN SignaturesOf(c) : Genuine(SignaturesOf(c)[j], r)}
           = {j \in DOMAIN results[c] : results[c][j].valid}
    BY <1>1, ExplainedByOne
  <2>2. ASSUME NEW j \in {j \in DOMAIN results[c] : results[c][j].valid}
        PROVE  Answer(SignaturesOf(c)[j], r).keyID = results[c][j].keyID
    BY <2>2, ExplainedByOne
  <2> QED
    BY <2>1, <2>2 DEF GenuineApprovals, Approvals, Approval, SignaturesOf
<1>3. ~ Aborted(token[c], r)
  BY <1>1, ExplainedByOne DEF Aborted, SignaturesOf
<1>4. A # {} <=> hasValid[c]
  <2>1. A # {} <=> \E j \in DOMAIN results[c] : results[c][j].valid
    BY DEF Approvals
  <2> QED
    BY <2>1 DEF IInv, CallInv, FlagInv
<1>5. hasValid[c] =>
        (Evaluate(policy, results[c])
            <=> /\ Satisfied(policy, A, Len(SignaturesOf(c)))
                /\ FunctionsAgree(policy, results[c]))
  BY <1>4, Deserving, SameMeaning DEF Acceptance!Deserved
<1>6. results[c] = Reported(token[c], r)
  <2>1. results[c] = [i \in DOMAIN SignaturesOf(c) |-> results[c][i]]
    BY <1>1 DEF IInv, TypeOK, Results
  <2> DEFINE R == [keyID : KeyIDs, valid : BOOLEAN]
  <2>2. ASSUME NEW i \in DOMAIN SignaturesOf(c)
        PROVE  results[c][i] = [keyID |-> ReportedKeyID(SignaturesOf(c)[i], r),
                                valid |-> Genuine(SignaturesOf(c)[i], r)]
    <3>1. results[c][i] \in R
      <4>1. results[c] \in Seq(R)
        BY DEF IInv, TypeOK, Results
      <4> HIDE DEF R
      <4> QED
        BY <1>1, <4>1
    <3>2. Genuine(SignaturesOf(c)[i], r) \in BOOLEAN
      BY DEF Genuine
    <3>3. /\ results[c][i].keyID = ReportedKeyID(SignaturesOf(c)[i], r)
          /\ results[c][i].valid = Genuine(SignaturesOf(c)[i], r)
      BY <1>1, <3>1, <3>2, ExplainedByOne
    <3> QED
      BY <3>1, <3>3
  <2> QED
    BY <2>1, <2>2 DEF Reported, SignaturesOf
<1> HIDE DEF A, G
<1> QED
  BY <1>2, <1>3, <1>4, <1>5, <1>6 DEF UndisturbedVerdict, SignaturesOf, A, G

\* When the bare any policy accepted at its first valid signature.
LEMMA AnyVerdict ==
    ASSUME IInv, NEW c \in Calls, NEW r, seen[c] = {r}, policy.kind = "any",
           hasValid[c], Admission(token[c]) = "admitted"
    PROVE  UndisturbedVerdict(token[c], r) = {"Accepted"}
<1> DEFINE n == Len(results[c])
           G == GenuineApprovals(token[c], r)
<1>1. n \in DOMAIN results[c] /\ results[c][n].valid
  BY DEF IInv, CallInv, FlagInv
<1>2. /\ DOMAIN SignaturesOf(c) \subseteq Nat \ {0}
      /\ n \in DOMAIN SignaturesOf(c)
      /\ DOMAIN results[c] = 1 .. n /\ n \in Nat
  <2>1. token[c] \in TokenType
    BY DEF IInv, TypeOK
  <2> QED
    BY <1>1, <2>1, ResultsType DEF TokenType, SignaturesOf
<1>3. Genuine(SignaturesOf(c)[n], r)
  BY <1>1, ExplainedByOne
<1>4. G # {}
  BY <1>2, <1>3 DEF GenuineApprovals, SignaturesOf
<1>5. ~ Aborted(token[c], r)
  <2>1. ASSUME NEW i \in DOMAIN SignaturesOf(c), Fatal(SignaturesOf(c)[i], r)
        PROVE  n \in 1 .. i - 1
    <3>1. i \notin 1 .. n
      BY <1>2, <2>1, ExplainedByOne
    <3> HIDE DEF n
    <3> QED
      BY <1>2, <3>1
  <2> QED
    BY <1>3, <2>1 DEF Aborted, SignaturesOf
<1>6. /\ Satisfied(policy, G, Len(SignaturesOf(c)))
      /\ FunctionsAgree(policy, Reported(token[c], r))
  BY <1>4, SimplePolicyIsItsTree DEF Satisfied, SatisfiedNode, FunctionsAgree
<1> HIDE DEF G
<1> QED
  BY <1>4, <1>5, <1>6 DEF UndisturbedVerdict, SignaturesOf, G

\* When the call stopped at a fatal lookup.
LEMMA AbortedVerdict ==
    ASSUME IInv, NEW c \in Calls, NEW r, seen[c] = {r}, CauseInv(c), ~ cancelled[c],
           outcome[c] \in {"ResolverFailure", "NilKey"},
           Admission(token[c]) = "admitted"
    PROVE  UndisturbedVerdict(token[c], r) = {"ResolverFailure", "NilKey"}
<1> DEFINE i == Len(results[c]) + 1
<1>1. /\ Fatal(SignaturesOf(c)[i], r)
      /\ policy.kind = "any" => ~ hasValid[c]
      /\ Len(results[c]) < Len(SignaturesOf(c))
  BY DEF CauseInv, AbortInv, Current
<1>2. i \in DOMAIN SignaturesOf(c) /\ 1 .. i - 1 = DOMAIN results[c]
  <2>1. token[c] \in TokenType
    BY DEF IInv, TypeOK
  <2> QED
    BY <1>1, <2>1, ResultsType DEF TokenType, SignaturesOf
<1>3. ASSUME policy.kind = "any", NEW j \in 1 .. i - 1
      PROVE  ~ Genuine(SignaturesOf(c)[j], r)
  BY <1>1, <1>2, <1>3, ExplainedByOne DEF IInv, CallInv, FlagInv
<1> HIDE DEF i
<1>4. Aborted(token[c], r)
  BY <1>1, <1>2, <1>3 DEF Aborted, SignaturesOf
<1> QED
  BY <1>4 DEF UndisturbedVerdict

LEMMA UndisturbedCall ==
    ASSUME IInv, ValidPolicy(policy), NEW c \in Calls, NEW r, CauseInv(c),
           pc[c] = "done", seen[c] = {r}, ~ cancelled[c]
    PROVE  outcome[c] \in UndisturbedVerdict(token[c], r)
<1>1. CASE Admission(token[c]) # "admitted"
  BY <1>1 DEF CauseInv, UndisturbedVerdict
<1>2. CASE Admission(token[c]) = "admitted"
  <2>1. CASE outcome[c] \in {"ResolverFailure", "NilKey"}
    BY <1>2, <2>1, AbortedVerdict
  <2>2. CASE outcome[c] \in PolicyFailures
    <3>1. Exhausted(c)
      BY <2>2 DEF IInv, CallInv, DecisionInv
    <3> QED
      BY <1>2, <2>2, <3>1, ExhaustedVerdict DEF CauseInv, PolicyFailures
  <2>3. CASE outcome[c] = "Accepted"
    <3>1. /\ hasValid[c] /\ Evaluate(policy, results[c])
          /\ policy.kind = "any" \/ Exhausted(c)
      BY <2>3 DEF IInv, CallInv, DecisionInv
    <3> QED
      BY <1>2, <2>3, <3>1, ExhaustedVerdict, AnyVerdict
  <2> QED
    BY <1>2, <2>1, <2>2, <2>3 DEF CauseInv, Aborts
<1> QED
  BY <1>1, <1>2

\* While the registry stays the same and the context lives, the verdict of a
\* call is the one its message deserves, whatever the other calls do.
THEOREM UndisturbedCallIsDeterministicAlways ==
    Spec => []UndisturbedCallIsDeterministic
<1> DEFINE Causes == \A c \in Calls : CauseInv(c)
<1>1. Init => Causes
  BY DEF Init, CauseInv, AbortInv, InProgress
<1>2. IInv /\ Causes /\ [Moves]_vars => Causes'
  BY CauseStep
<1>3. IInv /\ ValidPolicy(policy) /\ Causes => UndisturbedCallIsDeterministic
  BY UndisturbedCall DEF UndisturbedCallIsDeterministic
<1> HIDE DEF Causes
<1> QED
  BY <1>1, <1>2, <1>3, IInvAlways, PolicyIsConfigured, NextMoves, PTL DEF Spec

-----------------------------------------------------------------------------
(***************************************************************************)
(* The messages of a MultiSigner.                                          *)
(***************************************************************************)

\* The verifier's part of the invariant needs headers it can parse, which
\* the headers of a signer that agrees with it are.
ExchangeInv ==
    /\ SenderInv /\ signer.multi
    /\ ValidPolicy(policy)
    /\ Agreement => IInv /\ \A c \in Calls : CauseInv(c)

LEMMA ExchangeInitInv == ExchangeInit => ExchangeInv
<1>1. Init => \A c \in Calls : CauseInv(c)
  BY DEF Init, CauseInv, AbortInv, InProgress
<1>2. Init => ValidPolicy(policy)
  BY DEF Init
<1> QED
  BY <1>1, <1>2, SenderInitInv, InitIInv DEF ExchangeInit, ExchangeInv

\* What the transport makes of the signatures of a message.
LEMMA Corrupted ==
    ASSUME NEW S, NEW q \in Seq(S), NEW bad,
           \A x \in S : [x EXCEPT !.signer = NilMaterial] \in S
    PROVE  LET new == [i \in DOMAIN q |->
                          IF i \in bad THEN [q[i] EXCEPT !.signer = NilMaterial] ELSE q[i]]
           IN  new \in Seq(S) /\ Len(new) = Len(q)
  OBVIOUS

LEMMA Lost ==
    ASSUME NEW S, NEW q \in Seq(S), NEW i \in DOMAIN q
    PROVE  RemoveAt(q, i) \in Seq(S) /\ Len(RemoveAt(q, i)) = Len(q) - 1
  BY DEF RemoveAt

LEMMA AlteredMessage ==
    ASSUME SenderInv, signer.multi, NEW w \in wire, NEW signatures,
           signatures \in Seq(SignaturesBy(signer)),
           Len(signatures) <= Len(w.signatures)
    PROVE  LET new == [w EXCEPT !.altered = TRUE, !.signatures = signatures] IN
           MessageShape(signer, new) /\ new.altered
<1>1. PICK new : new = [w EXCEPT !.altered = TRUE, !.signatures = signatures]
  OBVIOUS
<1>2. MessageShape(signer, w)
  BY DEF SenderInv
<1>3. /\ DOMAIN new = DOMAIN w /\ new.altered = TRUE
      /\ new.size = w.size /\ new.wellFormed = w.wellFormed
      /\ new.publics = w.publics
      /\ new.signed = w.signed /\ new.embedded = w.embedded
      /\ new.signatures = signatures
  BY <1>1, <1>2 DEF MessageShape
<1>4. Len(signatures) <= Len(signer.keys)
  <2>1. Len(signatures) \in Nat /\ Len(w.signatures) \in Nat /\ Len(signer.keys) \in Nat
    BY <1>2 DEF MessageShape, SenderInv, SignerType
  <2> QED
    BY <1>2, <2>1 DEF MessageShape
<1> QED
  BY <1>1, <1>2, <1>3, <1>4 DEF MessageShape

LEMMA AlterAdds ==
    ASSUME SenderInv, signer.multi, NEW w \in wire, Alter(w)
    PROVE  \E new : /\ wire' = wire \cup {new}
                    /\ new.altered /\ MessageShape(signer, new)
<1> DEFINE S == SignaturesBy(signer)
<1>1. w.signatures \in Seq(S) /\ "signatures" \in DOMAIN w
  BY DEF SenderInv, MessageShape
<1>2. ASSUME NEW bad \in SUBSET DOMAIN w.signatures,
             wire' = wire \cup {[w EXCEPT
                 !.altered = TRUE,
                 !.signatures = [i \in DOMAIN @ |->
                     IF i \in bad THEN [@[i] EXCEPT !.signer = NilMaterial]
                                  ELSE @[i]]]}
      PROVE  \E new : /\ wire' = wire \cup {new}
                      /\ new.altered /\ MessageShape(signer, new)
  <2>1. PICK signatures :
           signatures = [i \in DOMAIN w.signatures |->
               IF i \in bad THEN [w.signatures[i] EXCEPT !.signer = NilMaterial]
                            ELSE w.signatures[i]]
    OBVIOUS
  <2>2. wire' = wire \cup {[w EXCEPT !.altered = TRUE, !.signatures = signatures]}
    BY <1>1, <1>2, <2>1
  <2>3. \A x \in S : [x EXCEPT !.signer = NilMaterial] \in S
    BY DEF SignaturesBy
  <2>4. signatures \in Seq(S) /\ Len(signatures) = Len(w.signatures)
    <3> HIDE DEF S
    <3> QED
      BY <1>1, <2>1, <2>3, Corrupted
  <2>5. Len(signatures) <= Len(w.signatures)
    BY <1>1, <2>4
  <2> QED
    BY <2>2, <2>4, <2>5, AlteredMessage
<1>3. ASSUME NEW i \in DOMAIN w.signatures,
             wire' = wire \cup {[w EXCEPT !.altered = TRUE,
                                        !.signatures = RemoveAt(@, i)]}
      PROVE  \E new : /\ wire' = wire \cup {new}
                      /\ new.altered /\ MessageShape(signer, new)
  <2>1. PICK signatures : signatures = RemoveAt(w.signatures, i)
    OBVIOUS
  <2>2. wire' = wire \cup {[w EXCEPT !.altered = TRUE, !.signatures = signatures]}
    BY <1>1, <1>3, <2>1
  <2>3. signatures \in Seq(S) /\ Len(signatures) <= Len(w.signatures)
    <3> HIDE DEF S
    <3> QED
      BY <1>1, <2>1, Lost
  <2> QED
    BY <2>2, <2>3, AlteredMessage
<1> QED
  BY <1>2, <1>3 DEF Alter

LEMMA AlterKeepsSender ==
    ASSUME SenderInv, signer.multi, NEW w \in wire, Alter(w)
    PROVE  SenderInv'
<1>1. PICK new : /\ wire' = wire \cup {new}
                 /\ new.altered /\ MessageShape(signer, new)
  BY AlterAdds
<1>2. UNCHANGED <<signer, opaqueKey, wiped, signing>>
  BY DEF Alter
<1> QED
  BY <1>1, <1>2 DEF SenderInv

\* A message of a signer the verifier agrees with is one it can be given.
LEMMA ParsedType ==
    ASSUME ExchangeConfig, SenderInv, Agreement, NEW w \in wire
    PROVE  Parsed(w) \in TokenType
<1>1. /\ MessageShape(signer, w)
      /\ signer.config.maxTokenSize \in Nat
  BY DEF SenderInv, SignerType, ConfigType, Limits
<1>2. SignaturesBy(signer) \subseteq Signatures
  <2>1. ASSUME NEW x \in SignaturesBy(signer)
        PROVE  x \in Signatures
    <3>1. /\ x = [alg |-> x.alg, protected |-> x.protected, signer |-> x.signer]
          /\ x.protected \in SignerHeaders(signer) /\ x.alg = x.protected.alg
          /\ x.signer \in Material \cup {NilMaterial}
      BY DEF SignaturesBy
    <3>2. x.protected \in Headers /\ x.protected.alg \in Algorithms
      BY <3>1, AgreedHeader
    <3>3. x.signer \in Keys \cup {NilKey}
      BY <3>1 DEF ExchangeConfig
    <3> QED
      BY <3>1, <3>2, <3>3 DEF Signatures
  <2> QED
    BY <2>1
<1>3. w.signatures \in Seq(Signatures)
  <2> DEFINE S == SignaturesBy(signer)
  <2>1. w.signatures \in Seq(S) /\ S \subseteq Signatures
    BY <1>1, <1>2 DEF MessageShape
  <2> HIDE DEF S
  <2> QED
    BY <2>1
<1>4. /\ w.size \in Nat /\ w.wellFormed \in BOOLEAN
      /\ PayloadSize[w.signed] \in Nat
  <2>1. /\ w.size \in 1 .. signer.config.maxTokenSize /\ w.wellFormed = TRUE
        /\ w.signed \in Payloads
    BY <1>1 DEF MessageShape
  <2>2. w.size \in Nat
    BY <1>1, <2>1
  <2> QED
    BY <2>1, <2>2, SenderAssumption
<1> QED
  BY <1>3, <1>4 DEF Parsed, TokenType

LEMMA AgreementStays ==
    ASSUME signer' = signer
    PROVE  Agreement' <=> Agreement
  BY DEF Agreement, LastSays

\* Every step is one of the verifier, or leaves it alone.
LEMMA ReceiverMoves ==
    ASSUME ExchangeConfig, SenderInv, Agreement, [ExchangeNext]_exchangeVars
    PROVE  [Moves]_vars
<1>1. CASE UNCHANGED exchangeVars \/ Send \/ \E w \in wire : Alter(w)
  BY <1>1 DEF exchangeVars, receiverVars, Send, Alter
<1>2. ASSUME NEW w \in wire, NEW c \in Calls, Receive(c, w)
      PROVE  Moves
  BY <1>2, ParsedType DEF Receive, Moves, Presented
<1>3. ASSUME NEW c \in Calls, Verify(c)
      PROVE  Moves
  BY <1>3 DEF Verify, Moves
<1>4. CASE ChangeKeys
  BY <1>4 DEF ChangeKeys, Moves
<1> QED
  BY <1>1, <1>2, <1>3, <1>4 DEF ExchangeNext

\* Whatever arrives, the policy stays.
LEMMA PolicyStays ==
    ASSUME [ExchangeNext]_exchangeVars
    PROVE  policy' = policy
<1>1. CASE UNCHANGED exchangeVars \/ Send \/ \E w \in wire : Alter(w)
  BY <1>1 DEF exchangeVars, receiverVars, Send, Alter, vars
<1>2. ASSUME NEW w \in wire, NEW c \in Calls, Receive(c, w)
      PROVE  policy' = policy
  BY <1>2 DEF Receive, VerifyToken
<1>3. ASSUME \/ ChangeKeys
             \/ \E c \in Calls : Verify(c)
      PROVE  policy' = policy
  BY <1>3, PolicyFixed DEF ChangeKeys, Verify, Moves
<1> QED
  BY <1>1, <1>2, <1>3 DEF ExchangeNext

LEMMA SenderStays ==
    ASSUME SenderInv, signer.multi, [ExchangeNext]_exchangeVars
    PROVE  SenderInv' /\ signer' = signer
<1>1. CASE Send
  BY <1>1, SenderNextKeeps, SenderWrites DEF Send
<1>2. ASSUME NEW w \in wire, Alter(w)
      PROVE  SenderInv' /\ signer' = signer
  BY <1>2, AlterKeepsSender DEF Alter
<1>3. ASSUME \/ UNCHANGED exchangeVars \/ ChangeKeys
             \/ \E c \in Calls : Verify(c) \/ \E w \in wire : Receive(c, w)
      PROVE  SenderInv' /\ signer' = signer
  <2>1. UNCHANGED senderVars
    BY <1>3 DEF exchangeVars, ChangeKeys, Verify, Receive
  <2>2. [SenderNext]_senderVars
    BY <2>1
  <2> QED
    BY <2>1, <2>2, SenderNextKeeps DEF senderVars
<1> QED
  BY <1>1, <1>2, <1>3 DEF ExchangeNext

\* A MultiSigner, too, signs with the keys it was built from, in their order,
\* each under the kid the application set or else its own, an opaque signer's
\* being that of a JWK it had during the call, whatever is overwritten and
\* whatever becomes of other messages on the way (multi_signer.go:72-93).
THEOREM MultiSignersKeepTheirKeys ==
    ExchangeSpec => [](SignersKeepTheirKeys /\ SignedUnderItsKid)
<1> DEFINE Multi == SenderInv /\ signer.multi
<1>1. ExchangeInit => Multi
  BY SenderInitInv DEF ExchangeInit
<1>2. Multi /\ [ExchangeNext]_exchangeVars => Multi'
  BY SenderStays
<1>3. Multi => SignersKeepTheirKeys /\ SignedUnderItsKid
  BY SenderInvKeepsKeys, SenderInvSignsUnderKid
<1> HIDE DEF Multi
<1> QED
  BY <1>1, <1>2, <1>3, PTL DEF ExchangeSpec

LEMMA ExchangeStep ==
    ASSUME ExchangeConfig, ExchangeInv, [ExchangeNext]_exchangeVars
    PROVE  ExchangeInv'
<1>1. SenderInv' /\ signer' = signer /\ signer'.multi
  BY SenderStays DEF ExchangeInv
<1>2. ValidPolicy(policy)'
  BY PolicyStays DEF ExchangeInv, ValidPolicy, ValidNode, ValidThreshold,
                     ValidPolicyKeyIDs, Nodes, Nested
<1>3. ASSUME Agreement'
      PROVE  IInv' /\ \A c \in Calls : CauseInv(c)'
  <2>1. Agreement /\ IInv /\ \A c \in Calls : CauseInv(c)
    BY <1>1, <1>3, AgreementStays DEF ExchangeInv
  <2>2. [Moves]_vars
    BY <2>1, ReceiverMoves DEF ExchangeInv
  <2> QED
    BY <2>1, <2>2, IInvStep, CauseStep
<1> QED
  BY <1>1, <1>2, <1>3 DEF ExchangeInv

\* How a verifier that knows the signer's keys judges the signatures.
LEMMA JudgedSignature ==
    ASSUME ExchangeConfig, SenderInv, Agreement, NEW w \in wire, NEW r, Knows(r, w),
           NEW i \in DOMAIN w.signatures
    PROVE  /\ w.signatures[i].alg \in AllowedAlgorithms
           /\ Genuine(w.signatures[i], r) <=> i \in Intact(w)
           /\ ~ Fatal(w.signatures[i], r)
           /\ ReportedKeyID(w.signatures[i], r)
                 = r[w.signatures[i].protected.kid].keyID
<1> DEFINE sent == w.signatures[i]
           S == SignaturesBy(signer)
<1>1. sent \in S
  <2>1. w.signatures \in Seq(S)
    BY DEF SenderInv, MessageShape
  <2> HIDE DEF S
  <2> QED
    BY <2>1
<1>2. sent.protected \in SignerHeaders(signer)
  BY <1>1 DEF SignaturesBy
<1>3. /\ sent.protected.kid \notin UnfitKids /\ sent.alg \in AllowedAlgorithms
      /\ Answer(sent, r).status = "found" /\ Answer(sent, r).key # NilKey
      /\ i \in Intact(w) => Answer(sent, r).key = sent.signer
  BY DEF Knows, Answer, ExchangeConfig
<1>4. HeaderAccepted(sent)
  BY <1>2, <1>3, AgreedHeader DEF HeaderAccepted
<1>5. i \notin Intact(w) => sent.signer = NilKey
  BY DEF Intact, ExchangeConfig
<1> QED
  BY <1>3, <1>4, <1>5 DEF Genuine, Fatal, ReportedKeyID, Answer

\* A signer's message stays within the limits of a verifier it agrees with.
LEMMA SentMessageAdmitted ==
    ASSUME ExchangeConfig, SenderInv, signer.multi, Agreement, NEW w \in wire,
           w.signatures # <<>>, NEW r, Knows(r, w),
           signer.config.maxSignatures <= MaxSignatures
    PROVE  Admission(Parsed(w)) = "admitted"
<1>1. MessageShape(signer, w)
  BY DEF SenderInv
<1>2. /\ signer.config.maxTokenSize \in Nat /\ signer.config.maxPayloadSize \in Nat
      /\ signer.config.maxSignatures \in Nat
      /\ Len(signer.keys) \in Nat /\ Len(signer.keys) <= signer.config.maxSignatures
  BY DEF SenderInv, SignerType, ConfigType, Limits
<1>3. /\ signer.config.maxTokenSize <= MaxTokenSize
      /\ signer.config.maxPayloadSize <= MaxPayloadSize
      /\ MaxTokenSize \in Nat /\ MaxPayloadSize \in Nat /\ MaxSignatures \in Nat
  BY HeadersAssumption, VerifierAssumption DEF Agreement
<1>4. /\ w.size \in Nat \ {0} /\ w.size <= MaxTokenSize /\ w.wellFormed
  BY <1>1, <1>2, <1>3 DEF MessageShape
<1>5. PayloadSize[w.signed] \in Nat /\ PayloadSize[w.signed] <= MaxPayloadSize
  BY <1>1, <1>2, <1>3, SenderAssumption DEF MessageShape
<1>6. Len(w.signatures) \in Nat /\ Len(w.signatures) <= MaxSignatures
  <2>1. Len(w.signatures) \in Nat /\ Len(w.signatures) <= Len(signer.keys)
    BY <1>1 DEF MessageShape
  <2> QED
    BY <1>2, <1>3, <2>1
<1>7. \A i \in DOMAIN w.signatures : w.signatures[i].alg \in AllowedAlgorithms
  BY JudgedSignature
<1>8. PICK t : t = Parsed(w)
  OBVIOUS
<1>9. /\ t.size = w.size /\ t.wellFormed = w.wellFormed
      /\ t.signatures = w.signatures /\ t.payloadSize = PayloadSize[w.signed]
  BY <1>8 DEF Parsed
<1>10. Admission(t) = "admitted"
  BY <1>3, <1>4, <1>5, <1>6, <1>7, <1>9 DEF Admission
<1> QED
  BY <1>8, <1>10

\* A verifier that agrees with a MultiSigner and knows its keys accepts its
\* message exactly if the signatures left intact satisfy the policy, and the
\* application's functions in it agree.
THEOREM IntactSignaturesDecideAlways ==
    ASSUME ExchangeConfig
    PROVE  ExchangeSpec => []IntactSignaturesDecide
<1>1. ASSUME ExchangeInv, NEW c \in Calls, NEW w \in wire, NEW r \in seen[c],
             pc[c] = "done", seen[c] = {r}, ~ cancelled[c],
             token[c] = Parsed(w), w.signatures # <<>>,
             Agreement, signer.config.maxSignatures <= MaxSignatures, Knows(r, w)
      PROVE  outcome[c] = "Accepted" <=>
                /\ Intact(w) # {}
                /\ Satisfied(policy, Approvals(Findings(r, w)), Len(w.signatures))
                /\ FunctionsAgree(policy, Findings(r, w))
  <2> DEFINE t == Parsed(w)
             approvals == Approvals(Findings(r, w))
             named(i) == r[w.signatures[i].protected.kid].keyID
  <2>1. SenderInv /\ signer.multi /\ IInv /\ ValidPolicy(policy) /\ CauseInv(c)
    BY <1>1 DEF ExchangeInv
  <2>2. Admission(t) = "admitted"
    BY <1>1, <2>1, SentMessageAdmitted
  <2>3. t.signatures = w.signatures
    BY DEF Parsed
  <2>4. \A i \in DOMAIN w.signatures :
           /\ Genuine(w.signatures[i], r) <=> i \in Intact(w)
           /\ ~ Fatal(w.signatures[i], r)
           /\ ReportedKeyID(w.signatures[i], r) = named(i)
    BY <1>1, <2>1, JudgedSignature
  <2>5. ~ Aborted(t, r)
    BY <2>3, <2>4 DEF Aborted
  <2>6. {i \in DOMAIN w.signatures : Genuine(w.signatures[i], r)} = Intact(w)
    BY <2>4 DEF Intact
  <2> DEFINE genuine == {[index |-> i, keyID |-> named(i)] : i \in Intact(w)}
  <2>7. GenuineApprovals(t, r) = genuine
    BY <2>3, <2>6 DEF GenuineApprovals, Approval, Answer
  <2>8. genuine = {} <=> Intact(w) = {}
    OBVIOUS
  <2>11. Reported(t, r) = Findings(r, w)
    <3>1. ASSUME NEW i \in DOMAIN w.signatures
          PROVE  Genuine(w.signatures[i], r) = (i \in Intact(w))
      <4>1. Genuine(w.signatures[i], r) \in BOOLEAN
        BY DEF Genuine
      <4>2. Genuine(w.signatures[i], r) <=> i \in Intact(w)
        BY <2>4
      <4>3. CASE i \in Intact(w)
        <5>1. Genuine(w.signatures[i], r) = TRUE /\ (i \in Intact(w)) = TRUE
          BY <4>1, <4>2, <4>3
        <5> QED
          BY <5>1
      <4>4. CASE i \notin Intact(w)
        <5>1. Genuine(w.signatures[i], r) = FALSE /\ (i \in Intact(w)) = FALSE
          BY <4>1, <4>2, <4>4
        <5> QED
          BY <5>1
      <4> QED
        BY <4>3, <4>4
    <3> QED
      BY <2>3, <2>4, <3>1 DEF Reported, Findings
  <2>12. approvals = genuine
    <3>1. /\ DOMAIN Findings(r, w) = DOMAIN w.signatures
          /\ \A i \in DOMAIN w.signatures :
                /\ Findings(r, w)[i].keyID = named(i)
                /\ Findings(r, w)[i].valid <=> i \in Intact(w)
      BY DEF Findings
    <3>2. {i \in DOMAIN Findings(r, w) : Findings(r, w)[i].valid} = Intact(w)
      BY <3>1 DEF Intact
    <3>3. \A i \in Intact(w) : Findings(r, w)[i].keyID = named(i)
      BY <3>1 DEF Intact
    <3> QED
      BY <3>2, <3>3 DEF Approvals
  <2>9. outcome[c] \in UndisturbedVerdict(t, r)
    BY <1>1, <2>1, UndisturbedCall
  <2> HIDE DEF t, approvals, genuine
  <2>10. outcome[c] = "Accepted"
            <=> /\ genuine # {}
                /\ Satisfied(policy, genuine, Len(w.signatures))
                /\ FunctionsAgree(policy, Findings(r, w))
    BY <2>2, <2>3, <2>5, <2>7, <2>9, <2>11 DEF UndisturbedVerdict
  <2> QED
    BY <2>8, <2>10, <2>12 DEF approvals
<1>2. ExchangeInv => IntactSignaturesDecide
  BY <1>1 DEF IntactSignaturesDecide
<1>3. ExchangeInv /\ [ExchangeNext]_exchangeVars => ExchangeInv'
  BY ExchangeStep
<1> QED
  BY <1>2, <1>3, ExchangeInitInv, PTL DEF ExchangeSpec
=============================================================================
