------------------------- MODULE JWEExchangeProofs -------------------------
(***************************************************************************)
(* For any tokens, keys, resolvers and number of concurrent callers: the   *)
(* decrypters of jwe return only what is authentic and conforms, and, left *)
(* alone by the resolver, exactly the fit tokens. For any options,         *)
(* recipients, key buffers and traffic: what passes between the encrypters *)
(* and a decrypter is a sealed channel, the encrypters keep the keys they  *)
(* were built with, and a decrypter refuses nothing that an encrypter with *)
(* its options made and that its keys open.                                *)
(***************************************************************************)
EXTENDS JWEExchange, JWEDecrypterProps, FiniteSetTheorems, WellFoundedInduction,
        TLAPS

-----------------------------------------------------------------------------
(* Headers.                                                                *)

\* What an earlier header has, a merged one has.
LEMMA MergedHeader ==
    ASSUME NEW f, NEW g, NEW n
    PROVE  /\ DOMAIN (Merged(f, g)) = DOMAIN f \cup DOMAIN g
           /\ n \in DOMAIN f => Text(Merged(f, g), n) = Text(f, n)
           /\ n \notin DOMAIN f => Text(Merged(f, g), n) = Text(g, n)
  BY DEF Merged, Text

\* Headers that differ in no parameter are structurally alike.
LEMMA SameTextsSameHeader ==
    ASSUME NEW f, NEW g, DOMAIN g \subseteq DOMAIN f
    PROVE  /\ DOMAIN (Merged(f, g)) = DOMAIN f
           /\ \A n : Text(Merged(f, g), n) = Text(f, n)
<1>1. DOMAIN (Merged(f, g)) = DOMAIN f
  BY MergedHeader
<1>2. ASSUME NEW n
      PROVE  Text(Merged(f, g), n) = Text(f, n)
  BY MergedHeader DEF Text
<1> QED
  BY <1>1, <1>2

\* A merged header has no other names and values than its parts.
LEMMA MergedIsHeader ==
    ASSUME NEW f, NEW g, IsHeader(f), IsHeader(g)
    PROVE  IsHeader(Merged(f, g))
  BY DEF IsHeader, Merged

LEMMA RecipientHeaderType ==
    ASSUME NEW t, IsToken(t), NEW i \in DOMAIN t.recipients
    PROVE  IsHeader(RecipientHeader(t, i)) /\ IsHeader(SharedHeader(t))
<1>1. IsHeader(t.protected) /\ IsHeader(t.unprotected)
      /\ IsHeader(t.recipients[i].header)
  BY DEF IsToken
<1>2. IsHeader(SharedHeader(t))
  BY <1>1, MergedIsHeader DEF SharedHeader
<1> QED
  BY <1>1, <1>2, MergedIsHeader DEF RecipientHeader

\* The first of some recipients.
LEMMA FirstThereIs ==
    ASSUME NEW S \in SUBSET Nat, S # {}
    PROVE  \E i \in S : \A j \in S : i <= j
<1> DEFINE R == OpToRel(<, Nat)
<1>1. IsWellFoundedOn(R, Nat)
  BY NatLessThanWellFounded
<1>2. \A x, y \in Nat : y < x => <<y, x>> \in R
  BY DEF OpToRel
<1> HIDE DEF R
<1>3. PICK i \in S : \A j \in S : ~ (<<j, i>> \in R)
  BY <1>1, WFMin
<1>4. ASSUME NEW j \in S
      PROVE  i <= j
  <2>1. i \in Nat /\ j \in Nat
    OBVIOUS
  <2>2. ~ (j < i)
    BY <1>2, <1>3, <2>1
  <2> QED
    BY <2>1, <2>2
<1> QED
  BY <1>4

LEMMA FirstOpenedIsFirst ==
    ASSUME NEW t, IsToken(t), NEW k, Opens(t, k) # {}
    PROVE  /\ FirstOpened(t, k) \in Opens(t, k)
           /\ \A j \in Opens(t, k) : FirstOpened(t, k) <= j
           /\ FirstOpened(t, k) \in Nat \ {0}
<1>1. Opens(t, k) \in SUBSET Nat /\ \A j \in Opens(t, k) : j \in Nat \ {0}
  BY DEF Opens, IsToken
<1>2. \E i \in Opens(t, k) : \A j \in Opens(t, k) : i <= j
  BY <1>1, FirstThereIs
<1> QED
  BY <1>1, <1>2 DEF FirstOpened

-----------------------------------------------------------------------------
(* The two judgements of a token.                                          *)

\* What both pass is everything the decrypter demands.
LEMMA PassedIsFit ==
    ASSUME NEW t, IsToken(t), NEW i \in DOMAIN t.recipients,
           decrypter \in Decrypters,
           EarlyErrors(t) = {}, LateErrors(t, i) = {}
    PROVE  Conforms(t, i)
<1> DEFINE header == RecipientHeader(t, i)
           policy == decrypter.policy
<1>1. /\ decrypter \in DecrypterType
      /\ t.size \in Nat /\ decrypter.maxTokenSize \in Nat
      /\ policy \in Policies
  BY DecrypterAssumption DEF DecrypterType, IsToken
<1>2. t.size # 0 /\ ~ t.size > decrypter.maxTokenSize
      /\ t.wellFormed /\ Allowed(t)
  BY DEF EarlyErrors
<1>3. /\ ValidHeader(header, FALSE)
      /\ PolicyErrors(policy, header, FALSE) = {}
      /\ ~ t.plaintext > decrypter.maxPlaintextSize
  BY DEF LateErrors
<1>4. /\ policy["typ"] \in {NoText, Text(header, "typ")}
      /\ policy["cty"] \in {NoText, Text(header, "cty")}
      /\ Text(header, "zip") \in {NoText, policy.compression}
  BY <1>3 DEF PolicyErrors, Expected, CompressionExpected
<1>5. IsHeader(header)
  BY RecipientHeaderType
<1>6. Text(header, "alg") \in Texts
  <2>1. Text(RecipientHeader(t, i), "alg") \in decrypter.keyAlgorithms
    BY <1>2 DEF Allowed
  <2> QED
    BY <1>1, <2>1 DEF DecrypterType
<1> HIDE DEF header, policy
<1>7. ASSUME NEW n \in DOMAIN header \ {"kid", "keyset"}
      PROVE  header[n] \in Texts \cup {NoText}
  <2>1. /\ n \in {"alg", "enc", "typ", "cty", "zip"} /\ Text(header, n) = header[n]
        /\ header[n] \in Texts \cup {NoText, NotAString, Unfit}
    BY <1>3, <1>5, <1>7 DEF IsHeader, Names, ValidHeader, Text
  <2> QED
    BY <1>3, <1>6, <2>1 DEF ValidHeader
<1>8. ASSUME NEW n \in {"typ", "cty"}, policy[n] # NoText
      PROVE  n \in DOMAIN header /\ header[n] \in Texts /\ header[n] = policy[n]
  <2>1. Text(header, n) = policy[n]
    BY <1>4, <1>8
  <2>2. n \in DOMAIN header /\ header[n] = policy[n]
    BY <1>8, <2>1 DEF Text
  <2> QED
    BY <1>7, <1>8, <2>2
<1>9. ASSUME "zip" \in DOMAIN header, header["zip"] \in Texts
      PROVE  policy.compression = header["zip"]
  BY <1>4, <1>9, HeadersAssumption DEF Text
<1>10. "crit" \notin DOMAIN header
  BY <1>3 DEF ValidHeader
<1>11. t.size \in 1 .. decrypter.maxTokenSize
  BY <1>1, <1>2
<1>12. t.plaintext <= decrypter.maxPlaintextSize
  BY <1>1, <1>3 DEF DecrypterType, IsToken
<1> QED
  BY <1>2, <1>7, <1>8, <1>9, <1>10, <1>11, <1>12 DEF Conforms, header, policy

\* What only the second refuses was not to be seen at the first.
LEMMA LateIsNews ==
    ASSUME NEW t, IsToken(t), NEW i \in DOMAIN t.recipients,
           decrypter \in Decrypters,
           EarlyErrors(t) = {},
           NEW own, own = UNION {DOMAIN t.recipients[j].header : j \in DOMAIN t.recipients}
    PROVE  LET es == LateErrors(t, i) IN
           /\ es \subseteq PolicySentinels \cup
                  {"ErrPlaintextTooLarge", "ErrMalformedToken"}
           /\ "ErrUnexpectedType" \in es =>
                 decrypter.multi /\ Text(SharedHeader(t), "typ") = NoText
           /\ "ErrUnexpectedContentType" \in es =>
                 decrypter.multi /\ Text(SharedHeader(t), "cty") = NoText
           /\ "ErrUnexpectedCompression" \in es =>
                 decrypter.multi /\ "zip" \in own \ DOMAIN SharedHeader(t)
           /\ "ErrMalformedToken" \in es =>
                 decrypter.multi /\ own \ DOMAIN SharedHeader(t) # {}
<1> DEFINE shared == SharedHeader(t)
           part == t.recipients[i].header
           header == RecipientHeader(t, i)
           policy == decrypter.policy
<1>1. decrypter \in DecrypterType
  BY DecrypterAssumption
<1>2. /\ ValidHeader(shared, decrypter.multi)
      /\ PolicyErrors(policy, shared, decrypter.multi) = {}
      /\ Allowed(t)
      /\ decrypter.multi \/ IsCompact(t)
  BY DEF EarlyErrors
<1>3. header = Merged(shared, part) /\ DOMAIN part \subseteq own
  BY DEF RecipientHeader
<1>4. Text(header, "alg") \in Texts
  <2>1. Text(RecipientHeader(t, i), "alg") \in decrypter.keyAlgorithms
    BY <1>2 DEF Allowed
  <2> QED
    BY <1>1, <2>1 DEF DecrypterType
<1>5. ~ decrypter.multi => DOMAIN part \subseteq DOMAIN shared
  <2>1. IsCompact(t) => part = NoHeader
    <3>1. IsCompact(t) => i = 1
      BY DEF IsCompact, IsToken
    <3> QED
      BY <3>1 DEF IsCompact
  <2> QED
    BY <1>2, <2>1 DEF NoHeader
<1> HIDE DEF header, shared, part
<1>6. ASSUME DOMAIN part \subseteq DOMAIN shared
      PROVE  ValidHeader(header, FALSE)
  <2>1. DOMAIN header = DOMAIN shared /\ \A n : Text(header, n) = Text(shared, n)
    BY <1>3, <1>6, SameTextsSameHeader
  <2>2. Text(header, "alg") # NoText
    BY <1>4, HeadersAssumption
  <2>3. \A n \in {"alg", "enc", "typ", "cty", "zip"} :
           Text(header, n) = Text(shared, n)
    BY <2>1
  <2>4. /\ "crit" \notin DOMAIN header
        /\ \A n \in {"enc", "typ", "cty", "zip"} : Text(header, n) # NotAString
        /\ Text(header, "enc") # NoText
        /\ \A n \in {"alg", "enc", "typ", "cty", "zip"} : Text(header, n) # Unfit
    <3>1. /\ "crit" \notin DOMAIN shared
          /\ \A n \in {"enc", "typ", "cty", "zip"} : Text(shared, n) # NotAString
          /\ Text(shared, "enc") # NoText
          /\ \A n \in {"alg", "enc", "typ", "cty", "zip"} : Text(shared, n) # Unfit
      BY <1>2 DEF ValidHeader
    <3> QED
      BY <2>1, <2>3, <3>1
  <2> QED
    BY <2>2, <2>4 DEF ValidHeader
<1>7. ASSUME NEW n \in {"typ", "cty"}, ~ Expected(policy, header, n, FALSE)
      PROVE  decrypter.multi /\ Text(shared, n) = NoText
  <2>1. Expected(policy, shared, n, decrypter.multi)
    BY <1>2, <1>7 DEF PolicyErrors
  <2>2. policy[n] \notin {NoText, Text(header, n)}
    BY <1>7 DEF Expected
  <2>3. ASSUME Text(shared, n) = policy[n]
        PROVE  FALSE
    <3>1. n \in DOMAIN shared
      BY <2>2, <2>3 DEF Text
    <3>2. Text(header, n) = Text(shared, n)
      BY <1>3, <3>1 DEF Merged, Text
    <3> QED
      BY <2>2, <2>3, <3>2
  <2> QED
    BY <2>1, <2>2, <2>3 DEF Expected
<1>8. ASSUME ~ CompressionExpected(policy, header)
      PROVE  decrypter.multi /\ "zip" \in own \ DOMAIN shared
  <2>1. CompressionExpected(policy, shared)
    BY <1>2 DEF PolicyErrors
  <2>2. Text(header, "zip") # Text(shared, "zip")
    BY <1>8, <2>1 DEF CompressionExpected
  <2>3. "zip" \notin DOMAIN shared
    BY <1>3, <2>2, MergedHeader
  <2>4. "zip" \in DOMAIN part
    BY <1>3, <2>2, <2>3, MergedHeader DEF Text
  <2> QED
    BY <1>3, <1>5, <2>3, <2>4
<1>9. ASSUME ~ ValidHeader(header, FALSE)
      PROVE  decrypter.multi /\ own \ DOMAIN shared # {}
  BY <1>3, <1>5, <1>6, <1>9
<1>10. CASE ~ ValidHeader(header, FALSE)
  BY <1>9, <1>10 DEF LateErrors, header, shared
<1>11. CASE ValidHeader(header, FALSE) /\ ~ Expected(policy, header, "typ", FALSE)
  BY <1>7, <1>11 DEF LateErrors, PolicyErrors, PolicySentinels, header, shared
<1>12. CASE /\ ValidHeader(header, FALSE) /\ Expected(policy, header, "typ", FALSE)
            /\ ~ Expected(policy, header, "cty", FALSE)
  BY <1>7, <1>12 DEF LateErrors, PolicyErrors, PolicySentinels, header, shared
<1>13. CASE /\ ValidHeader(header, FALSE) /\ Expected(policy, header, "typ", FALSE)
            /\ Expected(policy, header, "cty", FALSE)
            /\ ~ CompressionExpected(policy, header)
  BY <1>8, <1>13 DEF LateErrors, PolicyErrors, PolicySentinels, header, shared
<1>14. CASE /\ ValidHeader(header, FALSE) /\ Expected(policy, header, "typ", FALSE)
            /\ Expected(policy, header, "cty", FALSE)
            /\ CompressionExpected(policy, header)
  <2>1. LateErrors(t, i) \subseteq {"ErrPlaintextTooLarge"}
    BY <1>14 DEF LateErrors, PolicyErrors, header
  <2> QED
    BY <2>1
<1> QED
  BY <1>10, <1>11, <1>12, <1>13, <1>14

-----------------------------------------------------------------------------
(* Types.                                                                  *)

LEMMA AnswerType ==
    ASSUME NEW r \in Registries, NEW header
    PROVE  LET answer == Answer(r, header) IN
           /\ answer.errors \in SUBSET {"context", "other"}
           /\ answer.key \in Keys \cup {NoKey}
<1>1. RegistryType(r)
  BY DecrypterAssumption
<1>2. CASE Text(header, r.by) \in DOMAIN r.keys
  BY <1>1, <1>2 DEF Answer, RegistryType
<1>3. CASE Text(header, r.by) \notin DOMAIN r.keys
  BY <1>1, <1>3 DEF Answer, RegistryType
<1> QED
  BY <1>2, <1>3

LEMMA ErrorsType ==
    /\ \A t : EarlyErrors(t) \in SUBSET Sentinels
    /\ \A t, i : LateErrors(t, i) \in SUBSET Sentinels
<1>1. \A header, mayLack :
         PolicyErrors(decrypter.policy, header, mayLack) \in SUBSET Sentinels
  BY DEF PolicyErrors, Sentinels, PolicySentinels
<1>2. ASSUME NEW t
      PROVE  EarlyErrors(t) \in SUBSET Sentinels
  BY <1>1 DEF EarlyErrors, Sentinels
<1>3. ASSUME NEW t, NEW i
      PROVE  LateErrors(t, i) \in SUBSET Sentinels
  BY <1>1 DEF LateErrors, Sentinels
<1> QED
  BY <1>2, <1>3

LEMMA TokensAreTokens == \A t \in Tokens \cup {NoToken} : IsToken(t)
<1>1. IsToken(NoToken)
  BY DEF IsToken, NoToken, NoHeader, IsHeader
<1> QED
  BY <1>1, DecrypterAssumption

LEMMA TypeInit == Init => TypeOK
  BY DecrypterAssumption DEF Init, TypeOK

LEMMA TypeNext == TypeOK /\ [Next]_vars => TypeOK'
<1> SUFFICES ASSUME TypeOK, [Next]_vars
             PROVE  TypeOK'
  OBVIOUS
<1> USE DEF TypeOK
<1>1. ASSUME NEW c \in Callers, NEW t \in Tokens, DecryptToken(c, t)
      PROVE  TypeOK'
  <2>1. calls'[c] \in 0 .. MaxCalls
    BY <1>1, DecrypterAssumption DEF DecryptToken
  <2>2. /\ pc' = [pc EXCEPT ![c] = pc'[c]]
        /\ errors' = [errors EXCEPT ![c] = errors'[c]]
        /\ pc'[c] \in {"resolving", "rejected"}
        /\ errors'[c] \in SUBSET Sentinels
        /\ (pc'[c] = "rejected") <=> (errors'[c] # {})
    BY <1>1, ErrorsType DEF DecryptToken, Reject
  <2> QED
    BY <1>1, <2>1, <2>2 DEF DecryptToken
<1>2. ASSUME NEW c \in Callers, ResolverFailure(c)
      PROVE  TypeOK'
  <2>1. Reply(c).errors \in SUBSET Sentinels
    BY AnswerType DEF Reply, Sentinels
  <2> QED
    BY <1>2, <2>1 DEF ResolverFailure, Reject
<1>3. ASSUME NEW c \in Callers, KeyResolved(c)
      PROVE  TypeOK'
  <2>1. Reply(c).key \in Keys \cup {NoKey}
    BY AnswerType DEF Reply
  <2> QED
    BY <1>3, <2>1 DEF KeyResolved
<1>4. ASSUME NEW c \in Callers, DecryptFails(c)
      PROVE  TypeOK'
  BY <1>4 DEF DecryptFails, Reject, Sentinels
<1>5. ASSUME NEW c \in Callers, RejectDecrypted(c)
      PROVE  TypeOK'
  <2> DEFINE es == LateErrors(token[c], FirstOpened(token[c], key[c]))
  <2>1. es \in SUBSET Sentinels /\ es # {}
    BY <1>5, ErrorsType DEF RejectDecrypted
  <2>2. Reject(c, es) /\ pc[c] = "decrypting"
        /\ UNCHANGED <<decrypter, registry, calls, token, key, index, seen>>
    BY <1>5 DEF RejectDecrypted
  <2> HIDE DEF es
  <2> QED
    BY <2>1, <2>2 DEF Reject
<1>6. ASSUME NEW c \in Callers, Return(c)
      PROVE  TypeOK'
  <2>1. FirstOpened(token[c], key[c]) \in Nat \ {0}
    BY <1>6, FirstOpenedIsFirst, TokensAreTokens DEF Return
  <2> QED
    BY <1>6, <2>1 DEF Return
<1>7. ASSUME ChangeRegistry
      PROVE  TypeOK'
  BY <1>7 DEF ChangeRegistry
<1>8. CASE UNCHANGED vars
  BY <1>8 DEF vars
<1> QED
  BY <1>1, <1>2, <1>3, <1>4, <1>5, <1>6, <1>7, <1>8 DEF Next, Step

\* Every rejection comes with an error and every result with the index of its
\* recipient, whatever tokens and keys the decrypter meets.
THEOREM DecrypterTypes == Spec => []TypeOK
<1> QED
  BY TypeInit, TypeNext, PTL DEF Spec

-----------------------------------------------------------------------------
(* The inductive invariant: what a call knows at each of its points.       *)

\* A call that goes on has a token that passed the early judgement. Until it
\* has a key none is recorded; its key is the answer of a registry in force
\* since it began, to the header that was judged.
Informed(c) ==
    /\ InProgress(c) => /\ token[c] \in Tokens
                        /\ EarlyErrors(token[c]) = {}
                        /\ registry \in seen[c]
    /\ pc[c] = "resolving" => key[c] = NoKey
    /\ pc[c] = "decrypting" =>
          \E r \in seen[c] : LET answer == Answer(r, SharedHeader(token[c])) IN
              answer.errors = {} /\ answer.key = key[c]

AuthenticResult(c) ==
    pc[c] = "decrypted" =>
        /\ Conforms(token[c], index[c])
        /\ \E r \in seen[c] :
              /\ OpenedBy(r, token[c], index[c])
              /\ \A i \in 1 .. index[c] - 1 : ~ OpenedBy(r, token[c], i)

\* What the second judgement may hold against a token that passed the first.
IsNews(t, es) ==
    LET own == UNION {DOMAIN t.recipients[i].header : i \in DOMAIN t.recipients} IN
    /\ es \subseteq PolicySentinels \cup
           {"ErrDecrypt", "ErrPlaintextTooLarge", "ErrMalformedToken"}
    /\ "ErrUnexpectedType" \in es =>
          decrypter.multi /\ Text(SharedHeader(t), "typ") = NoText
    /\ "ErrUnexpectedContentType" \in es =>
          decrypter.multi /\ Text(SharedHeader(t), "cty") = NoText
    /\ "ErrUnexpectedCompression" \in es =>
          decrypter.multi /\ "zip" \in own \ DOMAIN SharedHeader(t)
    /\ "ErrMalformedToken" \in es =>
          decrypter.multi /\ own \ DOMAIN SharedHeader(t) # {}

NewsOnly(c) == pc[c] = "rejected" /\ key[c] # NoKey => IsNews(token[c], errors[c])

CallInv(c) == Informed(c) /\ AuthenticResult(c) /\ NewsOnly(c)

IInv == TypeOK /\ \A c \in Callers : CallInv(c)

\* The judgements read no variable but the decrypter.
LEMMA SameJudgements ==
    ASSUME decrypter' = decrypter
    PROVE  /\ \A t : EarlyErrors(t)' = EarlyErrors(t)
           /\ \A t, i : Conforms(t, i)' <=> Conforms(t, i)
           /\ \A t, es : IsNews(t, es)' <=> IsNews(t, es)
<1>1. ASSUME NEW t
      PROVE  EarlyErrors(t)' = EarlyErrors(t)
  BY DEF EarlyErrors, Allowed
<1>2. ASSUME NEW t, NEW i
      PROVE  Conforms(t, i)' <=> Conforms(t, i)
  BY DEF Conforms, Allowed
<1>3. ASSUME NEW t, NEW es
      PROVE  IsNews(t, es)' <=> IsNews(t, es)
  BY DEF IsNews
<1> QED
  BY <1>1, <1>2, <1>3

\* A step that leaves a call alone, but for registries it may now have seen,
\* leaves what it knows true.
LEMMA OtherCalls ==
    ASSUME NEW c \in Callers, CallInv(c), decrypter' = decrypter,
           pc'[c] = pc[c], token'[c] = token[c], key'[c] = key[c],
           index'[c] = index[c], errors'[c] = errors[c],
           seen[c] \subseteq seen'[c],
           InProgress(c) => registry' \in seen'[c]
    PROVE  CallInv(c)'
<1>1. Informed(c)'
  BY SameJudgements DEF CallInv, Informed, InProgress
<1>2. AuthenticResult(c)'
  <2>1. ASSUME pc[c] = "decrypted"
        PROVE  /\ Conforms(token[c], index[c])'
               /\ \E r \in seen'[c] :
                     /\ OpenedBy(r, token'[c], index'[c])
                     /\ \A i \in 1 .. index'[c] - 1 : ~ OpenedBy(r, token'[c], i)
    <3>1. Conforms(token[c], index[c])'
      BY <2>1 DEF CallInv, AuthenticResult, Conforms, Allowed
    <3> QED
      BY <2>1, <3>1 DEF CallInv, AuthenticResult
  <2> QED
    BY <2>1 DEF AuthenticResult
<1>3. NewsOnly(c)'
  BY SameJudgements DEF CallInv, NewsOnly
<1> QED
  BY <1>1, <1>2, <1>3 DEF CallInv

LEMMA InvInit == Init => IInv
  BY TypeInit DEF Init, IInv, CallInv, Informed, AuthenticResult, NewsOnly,
                  InProgress

LEMMA InvNext == IInv /\ [Next]_vars => IInv'
<1> SUFFICES ASSUME IInv, [Next]_vars
             PROVE  \A d \in Callers : CallInv(d)'
  BY TypeNext DEF IInv
<1> TAKE d \in Callers
<1>1. TypeOK /\ CallInv(d)
  BY DEF IInv
<1>2. InProgress(d) => registry \in seen[d]
  BY <1>1 DEF CallInv, Informed
\* The caller that makes the step.
<1>3. ASSUME NEW t \in Tokens, DecryptToken(d, t)
      PROVE  CallInv(d)'
  <2>1. /\ decrypter' = decrypter /\ registry' = registry
        /\ token'[d] = t /\ key'[d] = NoKey /\ seen'[d] = {registry}
        /\ pc'[d] \in {"resolving", "rejected"}
        /\ pc'[d] = "resolving" => EarlyErrors(t) = {}
    BY <1>1, <1>3 DEF DecryptToken, Reject, TypeOK
  <2>2. Informed(d)'
    BY <2>1, SameJudgements DEF Informed, InProgress
  <2> QED
    BY <2>1, <2>2 DEF CallInv, AuthenticResult, NewsOnly
<1>4. ASSUME ResolverFailure(d)
      PROVE  CallInv(d)'
  <2>1. pc'[d] = "rejected" /\ key'[d] = NoKey
    BY <1>1, <1>4 DEF ResolverFailure, Reject, TypeOK, CallInv, Informed
  <2> QED
    BY <2>1 DEF CallInv, Informed, InProgress, AuthenticResult, NewsOnly
<1>5. ASSUME KeyResolved(d)
      PROVE  CallInv(d)'
  <2>1. /\ pc[d] = "resolving" /\ Reply(d).errors = {}
        /\ pc'[d] = "decrypting" /\ key'[d] = Reply(d).key
        /\ token' = token /\ registry' = registry /\ seen' = seen
        /\ decrypter' = decrypter
    BY <1>1, <1>5 DEF KeyResolved, TypeOK
  <2>2. Informed(d)'
    BY <1>1, <2>1, SameJudgements DEF CallInv, Informed, InProgress, Reply
  <2> QED
    BY <2>1, <2>2 DEF CallInv, AuthenticResult, NewsOnly
<1>6. ASSUME DecryptFails(d)
      PROVE  CallInv(d)'
  <2>1. pc'[d] = "rejected" /\ errors'[d] = {"ErrDecrypt"}
    BY <1>1, <1>6 DEF DecryptFails, Reject, TypeOK
  <2>2. IsNews(token[d], errors[d])'
    BY <2>1 DEF IsNews
  <2> QED
    BY <2>1, <2>2 DEF CallInv, Informed, InProgress, AuthenticResult, NewsOnly
<1> DEFINE i == FirstOpened(token[d], key[d])
<1>7. ASSUME pc[d] = "decrypting", Opens(token[d], key[d]) # {}
      PROVE  /\ IsToken(token[d]) /\ EarlyErrors(token[d]) = {}
             /\ decrypter \in Decrypters
             /\ i \in DOMAIN token[d].recipients /\ i \in Nat
             /\ \E r \in seen[d] :
                   /\ OpenedBy(r, token[d], i)
                   /\ \A j \in 1 .. i - 1 : ~ OpenedBy(r, token[d], j)
  <2>1. IsToken(token[d]) /\ EarlyErrors(token[d]) = {} /\ decrypter \in Decrypters
    BY <1>1, <1>7, TokensAreTokens DEF CallInv, Informed, InProgress, TypeOK
  <2>2. /\ i \in Opens(token[d], key[d]) /\ i \in Nat
        /\ \A j \in Opens(token[d], key[d]) : i <= j
    BY <1>7, <2>1, FirstOpenedIsFirst
  <2> HIDE DEF i
  <2>3. PICK r \in seen[d] : /\ Answer(r, SharedHeader(token[d])).errors = {}
                             /\ Answer(r, SharedHeader(token[d])).key = key[d]
    BY <1>1, <1>7 DEF CallInv, Informed
  <2>4. OpenedBy(r, token[d], i)
    BY <2>2, <2>3 DEF OpenedBy, Opens
  <2>5. ASSUME NEW j \in 1 .. i - 1, OpenedBy(r, token[d], j)
        PROVE  FALSE
    <3>1. j \in Opens(token[d], key[d])
      BY <2>3, <2>5 DEF OpenedBy, Opens
    <3> QED
      BY <2>2, <3>1
  <2> QED
    BY <2>1, <2>2, <2>4, <2>5 DEF Opens
<1>8. ASSUME RejectDecrypted(d)
      PROVE  CallInv(d)'
  <2>1. /\ pc'[d] = "rejected" /\ errors'[d] = LateErrors(token[d], i)
        /\ token' = token /\ decrypter' = decrypter
    BY <1>1, <1>8 DEF RejectDecrypted, Reject, TypeOK
  <2>2. IsNews(token[d], LateErrors(token[d], i))
    BY <1>7, <1>8, LateIsNews DEF RejectDecrypted, IsNews
  <2> HIDE DEF i
  <2>3. IsNews(token[d], errors[d])'
    BY <2>1, <2>2, SameJudgements
  <2> QED
    BY <2>1, <2>3 DEF CallInv, Informed, InProgress, AuthenticResult, NewsOnly
<1>9. ASSUME Return(d)
      PROVE  CallInv(d)'
  <2>1. /\ pc'[d] = "decrypted" /\ index'[d] = i
        /\ token' = token /\ decrypter' = decrypter /\ seen' = seen
    BY <1>1, <1>9 DEF Return, TypeOK
  <2>2. Conforms(token[d], i)
    BY <1>7, <1>9, PassedIsFit DEF Return
  <2>3. \E r \in seen[d] : /\ OpenedBy(r, token[d], i)
                           /\ \A j \in 1 .. i - 1 : ~ OpenedBy(r, token[d], j)
    BY <1>7, <1>9 DEF Return
  <2> HIDE DEF i
  <2>4. AuthenticResult(d)'
    BY <2>1, <2>2, <2>3, SameJudgements DEF AuthenticResult
  <2> QED
    BY <2>1, <2>4 DEF CallInv, Informed, InProgress, NewsOnly
\* The others, and the environment.
<1>10. ASSUME NEW c \in Callers, c # d,
              Step(c) \/ \E t \in Tokens : DecryptToken(c, t)
       PROVE  CallInv(d)'
  <2>1. /\ decrypter' = decrypter /\ registry' = registry
        /\ pc'[d] = pc[d] /\ token'[d] = token[d] /\ key'[d] = key[d]
        /\ index'[d] = index[d] /\ errors'[d] = errors[d] /\ seen'[d] = seen[d]
    <3>1. CASE \E t \in Tokens : DecryptToken(c, t)
      BY <1>1, <1>10, <3>1 DEF DecryptToken, Reject, TypeOK
    <3>2. CASE ResolverFailure(c)
      BY <1>1, <1>10, <3>2 DEF ResolverFailure, Reject, TypeOK
    <3>3. CASE KeyResolved(c)
      BY <1>1, <1>10, <3>3 DEF KeyResolved, TypeOK
    <3>4. CASE DecryptFails(c)
      BY <1>1, <1>10, <3>4 DEF DecryptFails, Reject, TypeOK
    <3>5. CASE RejectDecrypted(c)
      BY <1>1, <1>10, <3>5 DEF RejectDecrypted, Reject, TypeOK
    <3>6. CASE Return(c)
      BY <1>1, <1>10, <3>6 DEF Return, TypeOK
    <3> QED
      BY <1>10, <3>1, <3>2, <3>3, <3>4, <3>5, <3>6 DEF Step
  <2> QED
    BY <1>1, <1>2, <2>1, OtherCalls
<1>11. ASSUME ChangeRegistry
       PROVE  CallInv(d)'
  <2>1. /\ decrypter' = decrypter
        /\ pc'[d] = pc[d] /\ token'[d] = token[d] /\ key'[d] = key[d]
        /\ index'[d] = index[d] /\ errors'[d] = errors[d]
        /\ seen[d] \subseteq seen'[d]
        /\ InProgress(d) => registry' \in seen'[d]
    BY <1>11 DEF ChangeRegistry
  <2> QED
    BY <1>1, <2>1, OtherCalls
<1>12. CASE UNCHANGED vars
  <2>1. /\ decrypter' = decrypter /\ registry' = registry
        /\ pc'[d] = pc[d] /\ token'[d] = token[d] /\ key'[d] = key[d]
        /\ index'[d] = index[d] /\ errors'[d] = errors[d] /\ seen'[d] = seen[d]
    BY <1>12 DEF vars
  <2> QED
    BY <1>1, <1>2, <2>1, OtherCalls
<1> QED
  BY <1>3, <1>4, <1>5, <1>6, <1>8, <1>9, <1>10, <1>11, <1>12 DEF Next, Step

\* At every point of a call of a decrypter: what it has checked so far, and
\* which registry in force since it began explains the key it has in hand.
THEOREM IInvAlways == Spec => []IInv
<1> QED
  BY InvInit, InvNext, PTL DEF Spec

-----------------------------------------------------------------------------
\* Decrypter and MultiDecrypter return plaintext only when a key in force
\* during the call opens the unaltered token for the recipient reported, the
\* first such one, and its merged header and the restored plaintext satisfy
\* the whole configuration.
THEOREM ReturnsAreAuthentic == Spec => []ReturnedIsAuthentic
<1>1. IInv => ReturnedIsAuthentic
  BY DEF IInv, CallInv, AuthenticResult, ReturnedIsAuthentic
<1> QED
  BY <1>1, IInvAlways, PTL

\* Once the resolver has been asked for a key, a token is rejected only for
\* what could not have been held against it before: no rejection that was
\* possible early costs a key lookup.
THEOREM LateRejections == Spec => []LateRejectionsAreNews
<1>1. IInv => LateRejectionsAreNews
  BY DEF IInv, CallInv, NewsOnly, IsNews, LateRejectionsAreNews
<1> QED
  BY <1>1, IInvAlways, PTL
-----------------------------------------------------------------------------
(***************************************************************************)
(* The verdict of a call nothing disturbs.                                 *)
(***************************************************************************)

\* Whether r answers a token with a key it conforms and opens for.
FitUnder(t, r) ==
    /\ decrypter.multi \/ IsCompact(t)
    /\ "enc" \in DOMAIN SharedHeader(t)
    /\ \E i \in DOMAIN t.recipients :
          /\ OpenedBy(r, t, i) /\ Conforms(t, i)
          /\ \A j \in 1 .. i - 1 : ~ OpenedBy(r, t, j)

\* A call that opened its token had passed the early judgement; one that was
\* refused met a registry under which its token is not fit.
CauseInv(c) ==
    /\ IsFiniteSet(seen[c])
    /\ pc[c] = "decrypted" => EarlyErrors(token[c]) = {}
    /\ pc[c] = "rejected" => \E r \in seen[c] : ~ FitUnder(token[c], r)

\* Neither judgement turns away what conforms: of a header seen without its
\* recipient, nothing is demanded that the recipient may still add.
LEMMA FitPasses ==
    ASSUME NEW t, IsToken(t), NEW i \in DOMAIN t.recipients,
           decrypter \in Decrypters, Conforms(t, i),
           decrypter.multi \/ IsCompact(t), "enc" \in DOMAIN SharedHeader(t)
    PROVE  EarlyErrors(t) = {} /\ LateErrors(t, i) = {}
<1> DEFINE shared == SharedHeader(t)
           part == t.recipients[i].header
           header == RecipientHeader(t, i)
           policy == decrypter.policy
<1>1. /\ decrypter.keyAlgorithms \in SUBSET Texts
      /\ decrypter.contentEncryptions \in SUBSET Texts
      /\ policy \in Policies
      /\ decrypter.maxTokenSize \in Nat /\ decrypter.maxPlaintextSize \in Nat
      /\ t.plaintext \in Nat
  BY DecrypterAssumption DEF DecrypterType, IsToken
<1>2. /\ t.size \in 1 .. decrypter.maxTokenSize
      /\ t.wellFormed /\ Allowed(t)
      /\ t.plaintext <= decrypter.maxPlaintextSize
  BY DEF Conforms
<1>3. /\ \A n \in DOMAIN header \ {"kid", "keyset"} : header[n] \in Texts \cup {NoText}
      /\ "crit" \notin DOMAIN header
      /\ \A n \in {"typ", "cty"} : policy[n] # NoText =>
            n \in DOMAIN header /\ header[n] = policy[n]
      /\ "zip" \in DOMAIN header /\ header["zip"] \in Texts =>
            policy.compression = header["zip"]
  BY DEF Conforms
<1>4. Text(header, "alg") \in Texts /\ Text(header, "enc") \in Texts
  BY <1>1, <1>2 DEF Allowed
<1>5. header = Merged(shared, part) /\ "enc" \in DOMAIN shared
  BY DEF RecipientHeader
<1>6. ~ decrypter.multi => DOMAIN part \subseteq DOMAIN shared
  <2>1. IsCompact(t) => i = 1
    BY DEF IsCompact, IsToken
  <2> QED
    BY <2>1 DEF IsCompact, NoHeader
<1> HIDE DEF header, shared, part, policy
<1>7. \A n : n \in DOMAIN shared => n \in DOMAIN header /\ Text(header, n) = Text(shared, n)
  BY <1>5, MergedHeader
<1>8. ~ decrypter.multi => \A n : Text(header, n) = Text(shared, n)
  BY <1>5, <1>6, SameTextsSameHeader
<1>9. \A n \in {"alg", "enc", "typ", "cty", "zip"} :
         /\ Text(header, n) \in Texts \cup {NoText}
         /\ Text(shared, n) \in Texts \cup {NoText}
  <2>1. \A n \in {"alg", "enc", "typ", "cty", "zip"} :
           Text(header, n) \in Texts \cup {NoText}
    BY <1>3 DEF Text
  <2> QED
    BY <1>7, <2>1 DEF Text
<1>10. \A n \in {"alg", "enc", "typ", "cty", "zip"} :
          /\ Text(header, n) \notin {NotAString, Unfit}
          /\ Text(shared, n) \notin {NotAString, Unfit}
  BY <1>9, HeadersAssumption
<1>11. ValidHeader(header, FALSE)
  BY <1>3, <1>4, <1>10, HeadersAssumption DEF ValidHeader
<1>12. ValidHeader(shared, decrypter.multi)
  <2>1. "crit" \notin DOMAIN shared
    BY <1>3, <1>7
  <2>2. Text(shared, "enc") # NoText
    BY <1>4, <1>5, <1>7, HeadersAssumption
  <2>3. Text(shared, "alg") = NoText => decrypter.multi
    BY <1>4, <1>8, HeadersAssumption
  <2> QED
    BY <1>10, <2>1, <2>2, <2>3 DEF ValidHeader
<1>13. \A n \in {"typ", "cty"} :
          /\ Expected(policy, header, n, FALSE)
          /\ Expected(policy, shared, n, decrypter.multi)
  <2>1. \A n \in {"typ", "cty"} : policy[n] \in {NoText, Text(header, n)}
    BY <1>3 DEF Text
  <2>2. ASSUME NEW n \in {"typ", "cty"}
        PROVE  \/ Text(shared, n) = Text(header, n)
               \/ decrypter.multi /\ Text(shared, n) = NoText
    BY <1>7, <1>8 DEF Text
  <2> QED
    BY <2>1, <2>2 DEF Expected
<1>14. CompressionExpected(policy, header) /\ CompressionExpected(policy, shared)
  <2>1. Text(header, "zip") \in {NoText, policy.compression}
    BY <1>3, <1>9 DEF Text
  <2>2. Text(shared, "zip") \in {NoText, Text(header, "zip")}
    BY <1>7 DEF Text
  <2> QED
    BY <2>1, <2>2 DEF CompressionExpected
<1>15. PolicyErrors(policy, header, FALSE) = {}
       /\ PolicyErrors(policy, shared, decrypter.multi) = {}
  BY <1>13, <1>14 DEF PolicyErrors
<1>16. t.size # 0 /\ ~ t.size > decrypter.maxTokenSize
       /\ ~ t.plaintext > decrypter.maxPlaintextSize
  BY <1>1, <1>2
<1> QED
  BY <1>2, <1>11, <1>12, <1>15, <1>16
     DEF EarlyErrors, LateErrors, header, shared, policy

\* A refusal met a registry under which the token is not fit.
LEMMA RefusedIsUnfit ==
    ASSUME IInv, NEW c \in Callers,
           ResolverFailure(c) \/ DecryptFails(c) \/ RejectDecrypted(c)
    PROVE  \E r \in seen[c] : ~ FitUnder(token[c], r)
<1> DEFINE t == token[c]
<1>1. /\ IsToken(t) /\ registry \in seen[c] /\ decrypter \in Decrypters
      /\ InProgress(c)
  BY TokensAreTokens DEF IInv, TypeOK, CallInv, Informed, InProgress,
     ResolverFailure, DecryptFails, RejectDecrypted
<1>2. CASE ResolverFailure(c)
  BY <1>1, <1>2 DEF ResolverFailure, Reply, FitUnder, OpenedBy
<1>3. CASE DecryptFails(c) \/ RejectDecrypted(c)
  <2>1. PICK r \in seen[c] : /\ Answer(r, SharedHeader(t)).errors = {}
                             /\ Answer(r, SharedHeader(t)).key = key[c]
    BY <1>3 DEF DecryptFails, RejectDecrypted, IInv, CallInv, Informed
  <2>2. \A i \in DOMAIN t.recipients : OpenedBy(r, t, i) <=> i \in Opens(t, key[c])
    BY <2>1 DEF OpenedBy, Opens
  <2>3. CASE DecryptFails(c)
    BY <2>2, <2>3 DEF DecryptFails, FitUnder
  <2>4. CASE RejectDecrypted(c)
    <3> SUFFICES ASSUME NEW i \in DOMAIN t.recipients,
                        decrypter.multi \/ IsCompact(t),
                        "enc" \in DOMAIN SharedHeader(t),
                        OpenedBy(r, t, i), Conforms(t, i),
                        \A j \in 1 .. i - 1 : ~ OpenedBy(r, t, j)
                 PROVE  FALSE
      BY DEF FitUnder
    <3> DEFINE k == FirstOpened(t, key[c])
    <3>1. LateErrors(t, k) # {} /\ Opens(t, key[c]) # {}
      BY <2>4 DEF RejectDecrypted
    <3>2. /\ k \in Opens(t, key[c]) /\ k \in Nat \ {0}
          /\ \A j \in Opens(t, key[c]) : k <= j
      BY <1>1, <3>1, FirstOpenedIsFirst
    <3>3. LateErrors(t, i) = {}
      BY <1>1, FitPasses
    <3>4. i \in Nat /\ k <= i /\ k \in DOMAIN t.recipients
      BY <1>1, <2>2, <3>2 DEF IsToken, Opens
    <3> HIDE DEF k
    <3>5. k # i
      BY <3>1, <3>3
    <3>6. k \in 1 .. i - 1
      BY <3>2, <3>4, <3>5
    <3> QED
      BY <2>2, <3>2, <3>4, <3>6
  <2> QED
    BY <1>3, <2>3, <2>4
<1> QED
  BY <1>2, <1>3

LEMMA FitUnderKept ==
    ASSUME decrypter' = decrypter
    PROVE  \A t, r : FitUnder(t, r)' <=> FitUnder(t, r)
BY SameJudgements DEF FitUnder

\* A step that leaves a call alone leaves its cause.
LEMMA CauseKept ==
    ASSUME NEW c \in Callers, CauseInv(c), decrypter' = decrypter,
           pc'[c] = pc[c], token'[c] = token[c],
           seen[c] \subseteq seen'[c], IsFiniteSet(seen'[c])
    PROVE  CauseInv(c)'
BY SameJudgements, FitUnderKept DEF CauseInv

LEMMA CauseNext ==
    ASSUME IInv, \A c \in Callers : CauseInv(c), [Next]_vars, NEW d \in Callers
    PROVE  CauseInv(d)'
<1>1. TypeOK /\ CauseInv(d) /\ CallInv(d) /\ IsFiniteSet(seen[d])
  BY DEF IInv, CauseInv
<1>2. ASSUME NEW t \in Tokens, DecryptToken(d, t)
      PROVE  CauseInv(d)'
  <2>1. /\ decrypter' = decrypter /\ token'[d] = t /\ seen'[d] = {registry}
        /\ \/ pc'[d] = "resolving"
           \/ pc'[d] = "rejected" /\ EarlyErrors(t) # {}
    BY <1>1, <1>2 DEF DecryptToken, Reject, TypeOK
  <2>2. EarlyErrors(t) # {} => ~ FitUnder(t, registry)
    <3>1. IsToken(t) /\ decrypter \in Decrypters
      BY <1>1, TokensAreTokens DEF TypeOK
    <3> QED
      BY <3>1, FitPasses DEF FitUnder
  <2>3. IsFiniteSet(seen'[d])
    BY <2>1, FS_Singleton
  <2> QED
    BY <2>1, <2>2, <2>3, FitUnderKept DEF CauseInv
<1>3. ASSUME ResolverFailure(d) \/ DecryptFails(d) \/ RejectDecrypted(d)
      PROVE  CauseInv(d)'
  <2>1. /\ decrypter' = decrypter /\ token' = token /\ seen' = seen
        /\ pc'[d] = "rejected"
    BY <1>1, <1>3 DEF ResolverFailure, DecryptFails, RejectDecrypted, Reject, TypeOK
  <2> QED
    BY <1>1, <1>3, <2>1, RefusedIsUnfit, FitUnderKept DEF CauseInv
<1>4. ASSUME KeyResolved(d) \/ Return(d)
      PROVE  CauseInv(d)'
  <2>1. /\ decrypter' = decrypter /\ token' = token /\ seen' = seen
        /\ pc'[d] \in {"decrypting", "decrypted"}
        /\ EarlyErrors(token[d]) = {}
    BY <1>1, <1>4 DEF KeyResolved, Return, TypeOK, CallInv, Informed, InProgress
  <2> QED
    BY <1>1, <2>1, SameJudgements DEF CauseInv
<1>5. ASSUME NEW c \in Callers, c # d,
             Step(c) \/ \E t \in Tokens : DecryptToken(c, t)
      PROVE  CauseInv(d)'
  <2>1. /\ decrypter' = decrypter /\ pc'[d] = pc[d]
        /\ token'[d] = token[d] /\ seen'[d] = seen[d]
    BY <1>1, <1>5 DEF DecryptToken, Reject, TypeOK, Step, ResolverFailure,
       KeyResolved, DecryptFails, RejectDecrypted, Return
  <2> QED
    BY <1>1, <2>1, CauseKept
<1>6. ASSUME ChangeRegistry \/ UNCHANGED vars
      PROVE  CauseInv(d)'
  <2>1. /\ decrypter' = decrypter /\ pc'[d] = pc[d] /\ token'[d] = token[d]
        /\ seen'[d] = seen[d] \/ seen'[d] = seen[d] \cup {registry'}
    BY <1>6 DEF ChangeRegistry, vars
  <2>2. IsFiniteSet(seen[d] \cup {registry'})
    BY <1>1, FS_AddElement
  <2> QED
    BY <1>1, <2>1, <2>2, CauseKept
<1> QED
  BY <1>2, <1>3, <1>4, <1>5, <1>6 DEF Next, Step

LEMMA UndisturbedCall ==
    ASSUME IInv, NEW c \in Callers, CauseInv(c), Undisturbed(c)
    PROVE  pc[c] = "decrypted" <=> Fit(c)
<1>1. PICK r : seen[c] = {r}
  <2>1. IsFiniteSet(seen[c]) /\ Cardinality(seen[c]) = 1
    BY DEF CauseInv, Undisturbed
  <2> QED
    BY <2>1, FS_Singleton
<1>2. Fit(c) <=> FitUnder(token[c], r)
  BY <1>1 DEF Fit, FitUnder
<1>3. CASE pc[c] = "rejected"
  BY <1>1, <1>2, <1>3 DEF CauseInv
<1>4. CASE pc[c] = "decrypted"
  <2>1. EarlyErrors(token[c]) = {}
    BY <1>4 DEF CauseInv
  <2>2. decrypter.multi \/ IsCompact(token[c])
    BY <2>1 DEF EarlyErrors
  <2>3. ValidHeader(SharedHeader(token[c]), decrypter.multi)
    BY <2>1 DEF EarlyErrors
  <2>4. "enc" \in DOMAIN SharedHeader(token[c])
    BY <2>3 DEF ValidHeader, Text
  <2>5. /\ Conforms(token[c], index[c])
        /\ OpenedBy(r, token[c], index[c])
        /\ \A i \in 1 .. index[c] - 1 : ~ OpenedBy(r, token[c], i)
    BY <1>1, <1>4 DEF IInv, CallInv, AuthenticResult
  <2>6. index[c] \in DOMAIN token[c].recipients
    BY <2>5 DEF OpenedBy
  <2> QED
    BY <1>2, <1>4, <2>2, <2>4, <2>5, <2>6 DEF FitUnder
<1> QED
  BY <1>3, <1>4 DEF Undisturbed

\* While the resolver's keys stay the same, a decrypter returns exactly the
\* fit tokens, whatever other callers do.
THEOREM UndisturbedVerdicts == Spec => []UndisturbedVerdict
<1> DEFINE Causes == \A c \in Callers : CauseInv(c)
<1>1. Init => Causes
  BY FS_EmptySet DEF Init, CauseInv
<1>2. IInv /\ Causes /\ [Next]_vars => Causes'
  BY CauseNext
<1>3. IInv /\ Causes => UndisturbedVerdict
  BY UndisturbedCall DEF UndisturbedVerdict
<1> HIDE DEF Causes
<1> QED
  BY <1>1, <1>2, <1>3, IInvAlways, PTL DEF Spec

-----------------------------------------------------------------------------
(* The options.                                                            *)

\* Induction up to a bound.
LEMMA UpTo ==
    ASSUME NEW n \in Nat, NEW T, 0 \in T,
           \A m \in Nat : m < n /\ m \in T => m + 1 \in T
    PROVE  \A m \in 0 .. n : m \in T
<1> DEFINE Missed == {m \in 0 .. n : m \notin T}
           R == OpToRel(<, Nat)
<1>1. SUFFICES ASSUME Missed # {}
               PROVE  FALSE
  OBVIOUS
<1>2. IsWellFoundedOn(R, Nat)
  BY NatLessThanWellFounded
<1>3. \A x, y \in Nat : y < x => <<y, x>> \in R
  BY DEF OpToRel
<1>4. Missed \subseteq Nat
  OBVIOUS
<1> HIDE DEF R
<1>5. PICK m \in Missed : \A k \in Missed : ~ (<<k, m>> \in R)
  <2> HIDE DEF Missed
  <2> QED
    BY <1>1, <1>2, <1>4, WFMin
<1>6. m \in Nat /\ m # 0 /\ m - 1 \in Nat
  BY <1>5
<1>7. m - 1 \notin Missed
  <2>1. m - 1 < m
    BY <1>6
  <2>2. <<m - 1, m>> \in R
    BY <1>3, <1>6, <2>1
  <2> HIDE DEF Missed
  <2> QED
    BY <1>5, <2>2
<1>8. m - 1 \in T
  BY <1>5, <1>6, <1>7
<1>9. m - 1 + 1 \in T
  BY <1>5, <1>6, <1>8
<1> QED
  BY <1>5, <1>6, <1>9

LEMMA MaxOfInterval ==
    ASSUME NEW k \in Nat
    PROVE  /\ Max(1 .. k + 1) = k + 1
           /\ (1 .. k + 1) \ {k + 1} = 1 .. k
           /\ \A s \in SUBSET (1 .. k + 1) :
                 k + 1 \in s => Max(s) = k + 1 /\ s \ {k + 1} \in SUBSET (1 .. k)
<1>1. ASSUME NEW s \in SUBSET (1 .. k + 1), k + 1 \in s
      PROVE  Max(s) = k + 1
  <2>1. \A y \in s : k + 1 >= y
    BY <1>1
  <2>2. \A x \in s : (\A y \in s : x >= y) => x = k + 1
    BY <1>1
  <2> QED
    BY <1>1, <2>1, <2>2 DEF Max
<1>2. Max(1 .. k + 1) = k + 1
  BY <1>1
<1>3. (1 .. k + 1) \ {k + 1} = 1 .. k
  OBVIOUS
<1>4. \A s \in SUBSET (1 .. k + 1) : k + 1 \in s => s \ {k + 1} \in SUBSET (1 .. k)
  OBVIOUS
<1> QED
  BY <1>1, <1>2, <1>3, <1>4

\* makeConfig applies the options one after the other.
LEMMA MakeConfigSteps ==
    ASSUME NEW list, NEW n \in Nat, DOMAIN list = 1 .. n
    PROVE  \E config :
              /\ config[0] = DefaultConfig
              /\ \A i \in 0 .. n - 1 : config[i + 1] = Apply(config[i], list[i + 1])
              /\ config[n] = MakeConfig(list)
<1> DEFINE After(f, s) == IF s = {} THEN DefaultConfig
                          ELSE Apply(f[s \ {Max(s)}], list[Max(s)])
           iter == CHOOSE f : f = [s \in SUBSET DOMAIN list |-> After(f, s)]
           Defined == {m \in 0 .. n : \E f : f = [s \in SUBSET (1 .. m) |-> After(f, s)]}
<1>1. MakeConfig(list) = iter[DOMAIN list]
  BY Zenon DEF MakeConfig, FoldLeft, MapThenFoldSet
<1>2. 0 \in Defined
  <2> DEFINE f == [s \in SUBSET (1 .. 0) |-> DefaultConfig]
  <2>1. \A s \in SUBSET (1 .. 0) : s = {}
    OBVIOUS
  <2>2. f = [s \in SUBSET (1 .. 0) |-> After(f, s)]
    BY <2>1
  <2>3. 0 \in 0 .. n
    OBVIOUS
  <2> QED
    BY <2>2, <2>3
<1>3. ASSUME NEW m \in Nat, m < n, m \in Defined
      PROVE  m + 1 \in Defined
  <2>1. PICK f : f = [s \in SUBSET (1 .. m) |-> After(f, s)]
    BY <1>3
  <2> DEFINE g == [s \in SUBSET (1 .. m + 1) |->
                      IF m + 1 \in s THEN Apply(f[s \ {m + 1}], list[m + 1])
                      ELSE f[s]]
  <2>2. ASSUME NEW s \in SUBSET (1 .. m + 1)
        PROVE  g[s] = After(g, s)
    <3>1. CASE m + 1 \in s
      <4>1. Max(s) = m + 1 /\ s \ {m + 1} \in SUBSET (1 .. m)
        BY <3>1, MaxOfInterval
      <4>2. s \ {m + 1} \in SUBSET (1 .. m + 1) /\ m + 1 \notin s \ {m + 1}
        OBVIOUS
      <4>3. g[s \ {m + 1}] = f[s \ {m + 1}]
        BY <4>2
      <4>4. g[s] = Apply(f[s \ {m + 1}], list[m + 1])
        BY <3>1
      <4>5. After(g, s) = Apply(g[s \ {Max(s)}], list[Max(s)])
        BY <3>1
      <4> QED
        BY <4>1, <4>3, <4>4, <4>5
    <3>2. CASE m + 1 \notin s
      <4>1. s \in SUBSET (1 .. m) /\ \A x : s \ {x} \in SUBSET (1 .. m)
        <5>1. \A i \in 1 .. m + 1 : i # m + 1 => i \in 1 .. m
          BY <1>3
        <5> HIDE DEF g
        <5> QED
          BY <2>2, <3>2, <5>1
      <4>2. g[s] = f[s]
        BY <3>2
      <4>3. s \ {Max(s)} \in SUBSET (1 .. m + 1) /\ m + 1 \notin s \ {Max(s)}
        BY <4>1, <3>2
      <4>4. g[s \ {Max(s)}] = f[s \ {Max(s)}]
        BY <4>3
      <4>5. f[s] = After(f, s)
        BY <2>1, <4>1
      <4>6. After(f, s) = After(g, s)
        BY <4>4
      <4> QED
        BY <4>2, <4>5, <4>6
    <3> QED
      BY <3>1, <3>2
  <2>3. g = [s \in SUBSET (1 .. m + 1) |-> g[s]]
    BY Zenon
  <2> HIDE DEF g
  <2>4. g = [s \in SUBSET (1 .. m + 1) |-> After(g, s)]
    <3> HIDE DEF After
    <3> QED
      BY <2>2, <2>3
  <2>5. m + 1 \in 0 .. n
    BY <1>3
  <2> QED
    BY <2>4, <2>5
<1>4. n \in Defined
  <2> HIDE DEF Defined
  <2>1. \A m \in 0 .. n : m \in Defined
    BY <1>2, <1>3, UpTo
  <2> QED
    BY <2>1
<1>5. iter = [s \in SUBSET (1 .. n) |-> After(iter, s)]
  <2>1. \E f : f = [s \in SUBSET DOMAIN list |-> After(f, s)]
    BY <1>4
  <2>2. iter = [s \in SUBSET DOMAIN list |-> After(iter, s)]
    BY <2>1, Zenon
  <2> QED
    BY <2>2
<1> HIDE DEF iter
<1> DEFINE config == [i \in 0 .. n |-> iter[1 .. i]]
<1>6. config[0] = DefaultConfig
  <2>1. 1 .. 0 = {} /\ {} \in SUBSET (1 .. n) /\ 0 \in 0 .. n
    OBVIOUS
  <2>2. iter[{}] = After(iter, {})
    BY <1>5, <2>1
  <2> QED
    BY <2>1, <2>2
<1>7. ASSUME NEW i \in 0 .. n - 1
      PROVE  config[i + 1] = Apply(config[i], list[i + 1])
  <2>1. /\ i \in Nat /\ 1 .. i + 1 # {} /\ i + 1 \in 0 .. n /\ i \in 0 .. n
        /\ 1 .. i + 1 \in SUBSET (1 .. n)
    OBVIOUS
  <2>2. iter[1 .. i + 1] = After(iter, 1 .. i + 1)
    BY <1>5, <2>1
  <2>3. After(iter, 1 .. i + 1) = Apply(iter[1 .. i], list[i + 1])
    BY <2>1, MaxOfInterval
  <2> HIDE DEF After
  <2> QED
    BY <2>1, <2>2, <2>3
<1>8. config[n] = MakeConfig(list)
  BY <1>1
<1> HIDE DEF config
<1> QED
  BY <1>6, <1>7, <1>8

\* The policy and the limits options make; the parameters they name in it are
\* texts.
ConfigType(config) ==
    /\ DOMAIN config = {"policy", "maxTokenSize", "maxPlaintextSize", "extra"}
    /\ config.policy \in Policies

LEMMA OptionCases ==
    ASSUME NEW option \in Options
    PROVE  /\ option.set \in {"typ", "cty", "compression", "maxTokenSize",
                              "maxPlaintextSize", "header", "nil"}
           /\ option.set \in {"typ", "cty", "compression"} =>
                 option.value \in Texts \cup {NoText, Unfit}
  BY DEF Options

LEMMA ApplyKeepsType ==
    ASSUME NEW config, ConfigType(config), NEW option \in Options, ValidOption(option)
    PROVE  ConfigType(Apply(config, option))
<1> DEFINE value == option.value
<1>1. CASE option.set \in {"typ", "cty", "compression"}
  <2>1. Apply(config, option) = [config EXCEPT !.policy[option.set] = value]
    BY <1>1, Zenon DEF Apply
  <2>2. /\ option.set \in {"typ", "cty"} => value \notin {NoText, Unfit}
        /\ option.set = "compression" => value \in {NoText, Deflate}
    <3>1. option.set \in {"typ", "cty"} => value \notin {NoText, Unfit}
      BY Zenon DEF ValidOption
    <3>2. option.set = "compression" => value \in {NoText, Deflate}
      BY Zenon DEF ValidOption
    <3> QED
      BY <3>1, <3>2
  <2>3. value \in Texts \cup {NoText, Unfit}
    BY <1>1, OptionCases
  <2>4. PICK policy : policy = [config.policy EXCEPT ![option.set] = value]
    OBVIOUS
  <2>5. policy \in Policies
    BY <1>1, <2>2, <2>3, <2>4 DEF ConfigType, Policies
  <2>6. Apply(config, option) = [config EXCEPT !.policy = policy]
    BY <2>1, <2>4 DEF ConfigType
  <2> QED
    BY <2>5, <2>6 DEF ConfigType
<1>2. CASE option.set \in {"maxTokenSize", "maxPlaintextSize"}
  <2>1. Apply(config, option) = [config EXCEPT ![option.set] = value]
    BY <1>2, Zenon DEF Apply
  <2> QED
    BY <1>2, <2>1 DEF ConfigType
<1>3. CASE option.set = "header"
  <2>1. Apply(config, option) =
           [config EXCEPT !.extra = Merged(Sole(option.name, value), @)]
    BY <1>3, Zenon DEF Apply
  <2> QED
    BY <2>1 DEF ConfigType
<1>4. option.set # "nil"
  BY Zenon DEF ValidOption
<1> QED
  BY <1>1, <1>2, <1>3, <1>4, OptionCases

LEMMA DefaultType == ConfigType(DefaultConfig)
  BY DEF ConfigType, DefaultConfig, Policies

LEMMA MakeConfigType ==
    ASSUME NEW list \in Seq(Options), ValidOptions(list)
    PROVE  ConfigType(MakeConfig(list))
<1> DEFINE n == Len(list)
<1>1. n \in Nat /\ DOMAIN list = 1 .. n
  OBVIOUS
<1>2. PICK config :
         /\ config[0] = DefaultConfig
         /\ \A i \in 0 .. n - 1 : config[i + 1] = Apply(config[i], list[i + 1])
         /\ config[n] = MakeConfig(list)
  BY <1>1, MakeConfigSteps
<1> DEFINE T == {i \in 0 .. n : ConfigType(config[i])}
<1>3. 0 \in T
  BY <1>1, <1>2, DefaultType
<1>4. ASSUME NEW i \in Nat, i < n, i \in T
      PROVE  i + 1 \in T
  <2>1. i \in 0 .. n - 1 /\ i + 1 \in 1 .. n /\ i + 1 \in 0 .. n
    BY <1>1, <1>4
  <2>2. list[i + 1] \in Options /\ ValidOption(list[i + 1])
    BY <1>1, <2>1 DEF ValidOptions
  <2>3. ConfigType(config[i + 1])
    BY <1>2, <1>4, <2>1, <2>2, ApplyKeepsType
  <2> QED
    BY <2>1, <2>3
<1> HIDE DEF T
<1>5. \A i \in 0 .. n : i \in T
  BY <1>1, <1>3, <1>4, UpTo
<1>6. n \in T
  BY <1>1, <1>5
<1> QED
  BY <1>2, <1>6 DEF T

-----------------------------------------------------------------------------
(* Headers.                                                                *)

LEMMA SoleText ==
    ASSUME NEW n, NEW m, NEW value
    PROVE  /\ n \in DOMAIN Sole(m, value) <=> n = m
           /\ Text(Sole(m, value), m) = value
  BY DEF Sole, Text

\* A parameter that was not given is absent and reads as the empty text.
LEMMA GivenText ==
    ASSUME NEW n, NEW m, NEW value
    PROVE  /\ n \in DOMAIN Given(m, value) <=> n = m /\ value # NoText
           /\ Text(Given(m, value), m) = value
  BY DEF Given, Sole, NoHeader, Text

LEMMA NoHeaderText == \A n : n \notin DOMAIN NoHeader /\ Text(NoHeader, n) = NoText
  BY DEF NoHeader, Text

LEMMA MergedText ==
    ASSUME NEW f, NEW g, NEW n
    PROVE  /\ n \in DOMAIN Merged(f, g) <=> n \in DOMAIN f \/ n \in DOMAIN g
           /\ n \in DOMAIN f => Text(Merged(f, g), n) = Text(f, n)
           /\ n \notin DOMAIN f => Text(Merged(f, g), n) = Text(g, n)
  BY DEF Merged, Text

LEMMA Absent == ASSUME NEW h, NEW n, n \notin DOMAIN h PROVE Text(h, n) = NoText
  BY DEF Text

\* The header of an encrypter whose extra headers are compatible: the type the
\* options name, the compression they choose and the algorithms in use.
LEMMA ProtectedText ==
    ASSUME NEW e, e.config.policy \in Policies,
           {"alg", "enc", "crit", "zip"} \cap DOMAIN e.config.extra = {},
           \A n \in {"typ", "cty"} :
              /\ Text(e.config.extra, n) \in Texts \cup {NoText}
              /\ \/ e.multi
                 \/ e.config.policy[n] = NoText
                 \/ n \notin DOMAIN e.config.extra
                 \/ e.config.extra[n] = e.config.policy[n]
    PROVE  LET h == ProtectedHeader(e) IN
           /\ "crit" \notin DOMAIN h
           /\ "enc" \in DOMAIN h
           /\ Text(h, "zip") = e.config.policy.compression
           /\ Text(h, "enc") = e.enc
           /\ Len(e.recipients) = 1 =>
                 "alg" \in DOMAIN h /\ Text(h, "alg") = e.recipients[1].alg
           /\ Len(e.recipients) # 1 => "alg" \notin DOMAIN h
           /\ \A n \in {"typ", "cty"} :
                 /\ Text(h, n) \in Texts \cup {NoText}
                 /\ e.config.policy[n] \in {NoText, Text(h, n)}
<1> DEFINE extra == e.config.extra
           policy == e.config.policy
           typed == Typed(e)
           own == IF Len(e.recipients) = 1 THEN OwnHeader(e.recipients[1]) ELSE NoHeader
           enc == Merged(Sole("enc", e.enc), Given("zip", policy.compression))
           given == ConfiguredHeader(e)
           library == LibraryHeader(e)
           h == ProtectedHeader(e)
<1>1. \A n : n \in DOMAIN typed => n \in {"typ", "cty"}
  BY MergedText, GivenText DEF Typed
<1>2. \A n \in {"typ", "cty"} : /\ n \in DOMAIN typed <=> policy[n] # NoText
                                /\ Text(typed, n) = policy[n]
  <2>1. /\ "typ" \in DOMAIN typed <=> policy.typ # NoText
        /\ Text(typed, "typ") = policy.typ
    BY MergedText, GivenText, Absent DEF Typed
  <2>2. /\ "cty" \in DOMAIN typed <=> policy.cty # NoText
        /\ Text(typed, "cty") = policy.cty
    BY MergedText, GivenText, Absent DEF Typed
  <2> QED
    BY <2>1, <2>2
<1>3. /\ \A n : n \in DOMAIN own => n \in {"alg", "kid"}
      /\ Len(e.recipients) = 1 =>
            "alg" \in DOMAIN own /\ Text(own, "alg") = e.recipients[1].alg
      /\ Len(e.recipients) # 1 => "alg" \notin DOMAIN own
  BY MergedText, GivenText, SoleText, NoHeaderText DEF OwnHeader
<1>4. /\ \A n : n \in DOMAIN enc => n \in {"enc", "zip"}
      /\ "enc" \in DOMAIN enc /\ Text(enc, "zip") = policy.compression
      /\ Text(enc, "enc") = e.enc
      /\ "zip" \in DOMAIN enc \/ policy.compression = NoText
  BY MergedText, GivenText, SoleText
<1>5. library = Merged(enc, own)
  BY Zenon DEF LibraryHeader
<1>6. given = IF e.multi THEN Merged(typed, extra) ELSE Merged(extra, typed)
  BY Zenon DEF ConfiguredHeader
<1>7. h = Merged(given, library)
  BY Zenon DEF ProtectedHeader
<1> HIDE DEF extra, policy, typed, own, enc, given, library, h
<1>8. \A n : n \in DOMAIN given <=> n \in DOMAIN typed \/ n \in DOMAIN extra
  BY <1>6, MergedText
<1>9. \A n : n \in DOMAIN library <=> n \in DOMAIN enc \/ n \in DOMAIN own
  BY <1>5, MergedText
<1>10. "crit" \notin DOMAIN h /\ "enc" \in DOMAIN h
       /\ (Len(e.recipients) = 1 => "alg" \in DOMAIN h)
       /\ (Len(e.recipients) # 1 => "alg" \notin DOMAIN h)
  BY <1>1, <1>3, <1>4, <1>7, <1>8, <1>9, MergedText DEF extra
<1>alg. /\ Text(h, "enc") = e.enc
        /\ Len(e.recipients) = 1 => Text(h, "alg") = e.recipients[1].alg
  <2>1. "alg" \notin DOMAIN given /\ "enc" \notin DOMAIN given
    BY <1>1, <1>8 DEF extra
  <2>2. Text(h, "alg") = Text(library, "alg") /\ Text(h, "enc") = Text(library, "enc")
    BY <1>7, <2>1, MergedText
  <2>3. "alg" \notin DOMAIN enc /\ "enc" \in DOMAIN enc
    BY <1>4
  <2>4. Text(library, "alg") = Text(own, "alg") /\ Text(library, "enc") = Text(enc, "enc")
    BY <1>5, <2>3, MergedText
  <2> QED
    BY <1>3, <1>4, <2>2, <2>4
<1>11. Text(h, "zip") = policy.compression
  <2>1. "zip" \notin DOMAIN given
    BY <1>1, <1>8 DEF extra
  <2>2. Text(h, "zip") = Text(library, "zip")
    BY <1>7, <2>1, MergedText
  <2>3. "zip" \notin DOMAIN own
    BY <1>3
  <2>4. Text(library, "zip") = Text(enc, "zip")
    BY <1>5, <2>3, MergedText, Absent
  <2> QED
    BY <1>4, <2>2, <2>4
<1>12. ASSUME NEW n \in {"typ", "cty"}
       PROVE  /\ Text(h, n) \in Texts \cup {NoText}
              /\ policy[n] \in {NoText, Text(h, n)}
  <2>1. n \notin DOMAIN library
    BY <1>3, <1>4, <1>9
  <2>2. Text(h, n) = Text(given, n)
    BY <1>7, <2>1, MergedText, Absent
  <2>3. /\ policy[n] \in Texts \cup {NoText}
        /\ Text(extra, n) \in Texts \cup {NoText}
        /\ \/ e.multi
           \/ policy[n] = NoText
           \/ n \notin DOMAIN extra
           \/ Text(extra, n) = policy[n]
    BY DEF Policies, policy, extra, Text
  <2>4. CASE e.multi
    <3>1. Text(given, n) = IF policy[n] # NoText THEN policy[n] ELSE Text(extra, n)
      BY <1>2, <1>6, <2>4, MergedText
    <3> QED
      BY <2>2, <2>3, <3>1
  <2>5. CASE ~ e.multi
    <3>1. Text(given, n) = IF n \in DOMAIN extra THEN Text(extra, n) ELSE policy[n]
      BY <1>2, <1>6, <2>5, MergedText
    <3> QED
      BY <2>2, <2>3, <2>5, <3>1
  <2> QED
    BY <2>4, <2>5
<1> QED
  BY <1>10, <1>alg, <1>11, <1>12 DEF h, policy

-----------------------------------------------------------------------------
(* What an encrypter makes.                                                *)

\* The decrypter is configured with the options of the encrypters.
SameOptions ==
    /\ options \in OptionLists
    /\ decrypter.multi \in BOOLEAN
    /\ decrypter.keyAlgorithms = KeyAlgorithms
    /\ decrypter.contentEncryptions = ContentEncryptions
    /\ decrypter.policy = MakeConfig(options).policy
    /\ decrypter.maxTokenSize = MakeConfig(options).maxTokenSize
    /\ decrypter.maxPlaintextSize = MakeConfig(options).maxPlaintextSize

\* An encrypter of the decrypter's kind, with its options.
Paired(e) ==
    /\ e.multi = decrypter.multi
    /\ e.config = MakeConfig(options)
    /\ Len(e.recipients) \in Nat \ {0}
    /\ DOMAIN e.recipients = 1 .. Len(e.recipients)
    /\ ~ e.multi => Len(e.recipients) = 1

\* Neither judgement of the decrypter holds anything against a token whose
\* algorithms it has and whose extra headers are compatible, and the header
\* names the algorithms in use.
Passes(t) ==
    Compatible /\ (decrypter.multi \/ ~ Contradicted) /\ Allowed(t) =>
        /\ EarlyErrors(t) = {}
        /\ \A i \in DOMAIN t.recipients : LateErrors(t, i) = {} /\ Truthful(t, i)

\* Sizes, compression and header policy mean the same on both sides.
LEMMA MadePasses ==
    ASSUME SameOptions, NEW e, Paired(e), NEW p \in Plaintexts,
           NEW a \in AuthData, NEW m, EncryptErrors(e, p, a, m) = {}
    PROVE  Passes(Encrypted(e, p, a, m))
<1> DEFINE t == Encrypted(e, p, a, m)
           policy == decrypter.policy
           shared == SharedHeader(t)
           n == Len(e.recipients)
<1> SUFFICES ASSUME Compatible, decrypter.multi \/ ~ Contradicted,
                    Allowed(t)
             PROVE  /\ EarlyErrors(t) = {}
                    /\ \A i \in DOMAIN t.recipients :
                          LateErrors(t, i) = {} /\ Truthful(t, i)
  BY DEF Passes
<1>1. policy \in Policies /\ e.config.policy = policy
  BY ExchangeAssumption, MakeConfigType DEF SameOptions, Paired, ConfigType
<1>2. /\ t.wellFormed /\ t.protected = ProtectedHeader(e)
      /\ t.unprotected = NoHeader /\ t.plaintext = p.size
      /\ DOMAIN t.recipients = 1 .. n /\ n \in Nat \ {0}
      /\ Len(t.recipients) = n
      /\ \A i \in 1 .. n : t.recipients[i].header =
            IF n = 1 THEN NoHeader ELSE OwnHeader(e.recipients[i])
  BY DEF Encrypted, Paired
<1>alg. t.enc = e.enc /\ \A i \in 1 .. n : t.recipients[i].alg = e.recipients[i].alg
  BY DEF Encrypted, Paired
<1>3. /\ t.size \in Nat \ {0} /\ ~ t.size > decrypter.maxTokenSize
      /\ ~ t.plaintext > decrypter.maxPlaintextSize
  <2>1. /\ p.size \in Nat /\ p.packed \in Nat /\ a.size \in Nat
        /\ n \in Nat \ {0}
    BY ExchangeAssumption DEF Paired
  <2>2. t.size = n + a.size + (IF e.config.policy.compression = Deflate
                               THEN p.packed ELSE p.size)
    BY DEF Encrypted
  <2>3. /\ ~ p.size > e.config.maxPlaintextSize
        /\ ~ t.size > e.config.maxTokenSize
    BY DEF EncryptErrors
  <2>4. /\ decrypter.maxTokenSize = e.config.maxTokenSize
        /\ decrypter.maxPlaintextSize = e.config.maxPlaintextSize
    BY DEF Paired, SameOptions
  <2> HIDE DEF t, n
  <2>5. t.size \in Nat \ {0}
    BY <2>1, <2>2
  <2> QED
    BY <1>2, <2>3, <2>4, <2>5
<1>4. /\ "crit" \notin DOMAIN t.protected
      /\ "enc" \in DOMAIN t.protected
      /\ Text(t.protected, "zip") = policy.compression
      /\ Text(t.protected, "enc") = e.enc
      /\ n = 1 => /\ "alg" \in DOMAIN t.protected
                  /\ Text(t.protected, "alg") = e.recipients[1].alg
      /\ n # 1 => "alg" \notin DOMAIN t.protected
      /\ \A k \in {"typ", "cty"} :
            /\ Text(t.protected, k) \in Texts \cup {NoText}
            /\ policy[k] \in {NoText, Text(t.protected, k)}
  <2>1. {"alg", "enc", "crit", "zip"} \cap DOMAIN e.config.extra = {}
    BY DEF Compatible, Paired
  <2>2. ASSUME NEW k \in {"typ", "cty"}
        PROVE  /\ Text(e.config.extra, k) \in Texts \cup {NoText}
               /\ \/ e.multi
                  \/ e.config.policy[k] = NoText
                  \/ k \notin DOMAIN e.config.extra
                  \/ e.config.extra[k] = e.config.policy[k]
    BY DEF Compatible, Contradicted, Paired
  <2> QED
    BY <1>1, <1>2, <2>1, <2>2, ProtectedText
<1> HIDE DEF t, n, policy
<1>5. \A k : /\ k \in DOMAIN shared <=> k \in DOMAIN t.protected
             /\ Text(shared, k) = Text(t.protected, k)
  <2>1. shared = Merged(t.protected, NoHeader)
    BY <1>2 DEF SharedHeader
  <2> QED
    BY <2>1, MergedText, NoHeaderText, Absent
<1> DEFINE part(i) == t.recipients[i].header
           header(i) == RecipientHeader(t, i)
<1>6. ASSUME NEW i \in 1 .. n
      PROVE  /\ \A k : k \in DOMAIN part(i) => k \in {"alg", "kid"}
             /\ \A k : k \in DOMAIN header(i) <=> k \in DOMAIN shared \cup DOMAIN part(i)
             /\ \A k : k \notin {"alg", "kid"} => Text(header(i), k) = Text(shared, k)
             /\ "alg" \in DOMAIN shared => Text(header(i), "alg") = Text(shared, "alg")
             /\ "alg" \notin DOMAIN shared => Text(header(i), "alg") = Text(part(i), "alg")
  <2>1. \A k : k \in DOMAIN part(i) => k \in {"alg", "kid"}
    BY <1>2, MergedText, GivenText, SoleText, NoHeaderText DEF OwnHeader
  <2>2. header(i) = Merged(shared, part(i))
    BY DEF RecipientHeader
  <2> HIDE DEF part, header, shared
  <2> QED
    BY <2>1, <2>2, MergedText, Absent
<1>7. ASSUME NEW i \in 1 .. n
      PROVE  Text(header(i), "alg") \in Texts /\ Text(header(i), "enc") \in Texts
  <2>1. /\ Text(RecipientHeader(t, i), "alg") \in KeyAlgorithms
        /\ Text(RecipientHeader(t, i), "enc") \in ContentEncryptions
    BY <1>2 DEF Allowed, SameOptions
  <2> QED
    BY <2>1, ExchangeAssumption
<1> HIDE DEF part, header, shared
<1>8. 1 \in 1 .. n
  BY <1>2
<1>9. policy.compression \in {NoText, Deflate}
  BY <1>1 DEF Policies
<1>10. /\ "crit" \notin DOMAIN shared
       /\ Text(shared, "zip") = policy.compression
       /\ Text(shared, "enc") \in Texts
       /\ "alg" \in DOMAIN shared => Text(shared, "alg") \in Texts
       /\ n = 1 => "alg" \in DOMAIN shared
       /\ \A k \in {"typ", "cty"} :
             /\ Text(shared, k) \in Texts \cup {NoText}
             /\ policy[k] \in {NoText, Text(shared, k)}
  BY <1>4, <1>5, <1>6, <1>7, <1>8
<1>11. ValidHeader(shared, decrypter.multi)
  <2>1. Text(shared, "alg") = NoText => decrypter.multi
    BY <1>10, HeadersAssumption DEF Paired, n
  <2>2. Text(shared, "alg") # Unfit
    BY <1>10, Absent, HeadersAssumption
  <2>3. \A k \in {"enc", "typ", "cty", "zip"} :
           Text(shared, k) \notin {NotAString, Unfit}
    BY <1>9, <1>10, HeadersAssumption
  <2>4. Text(shared, "enc") # NoText
    BY <1>10, HeadersAssumption
  <2> QED
    BY <1>10, <2>1, <2>2, <2>3, <2>4 DEF ValidHeader
<1>12. ASSUME NEW i \in 1 .. n
       PROVE  ValidHeader(header(i), FALSE)
  <2>1. /\ \A k \in {"alg", "enc", "typ", "cty", "zip"} :
              Text(header(i), k) \notin {NotAString, Unfit}
        /\ Text(header(i), "enc") # NoText /\ Text(header(i), "alg") # NoText
    BY <1>6, <1>7, <1>9, <1>10, HeadersAssumption
  <2>2. "crit" \notin DOMAIN header(i)
    BY <1>6, <1>10
  <2> QED
    BY <2>1, <2>2 DEF ValidHeader
<1>13. ASSUME NEW h, NEW mayLack,
              \A k \in {"typ", "cty", "zip"} : Text(h, k) = Text(shared, k)
       PROVE  PolicyErrors(policy, h, mayLack) = {}
  <2>1. /\ Expected(policy, h, "typ", mayLack)
        /\ Expected(policy, h, "cty", mayLack)
    BY <1>10, <1>13 DEF Expected
  <2>2. CompressionExpected(policy, h)
    BY <1>10, <1>13 DEF CompressionExpected
  <2> QED
    BY <2>1, <2>2 DEF PolicyErrors
<1>14. decrypter.multi \/ IsCompact(t)
  BY <1>2 DEF IsCompact, Paired, n
<1>15. EarlyErrors(t) = {}
  <2>1. PolicyErrors(policy, shared, decrypter.multi) = {}
    BY <1>13
  <2> QED
    BY <1>2, <1>3, <1>11, <1>14, <2>1 DEF EarlyErrors, shared, policy
<1>16. ASSUME NEW i \in 1 .. n
       PROVE  LateErrors(t, i) = {}
  <2>1. PolicyErrors(policy, header(i), FALSE) = {}
    BY <1>6, <1>13
  <2> QED
    BY <1>3, <1>12, <2>1 DEF LateErrors, header, policy
<1>17. ASSUME NEW i \in 1 .. n
       PROVE  Truthful(t, i)
  <2>1. Text(header(i), "enc") = t.enc
    BY <1>alg, <1>4, <1>5, <1>6
  <2>2. CASE n = 1
    BY <1>alg, <1>4, <1>5, <1>6, <2>1, <2>2 DEF Truthful, header
  <2>3. CASE n # 1
    <3>1. Text(header(i), "alg") = Text(OwnHeader(e.recipients[i]), "alg")
      BY <1>2, <1>4, <1>5, <1>6, <2>3 DEF part
    <3>2. Text(OwnHeader(e.recipients[i]), "alg") = e.recipients[i].alg
      BY MergedText, SoleText DEF OwnHeader
    <3> QED
      BY <1>alg, <2>1, <3>1, <3>2 DEF Truthful, header
  <2> QED
    BY <2>2, <2>3
<1> QED
  BY <1>2, <1>15, <1>16, <1>17

-----------------------------------------------------------------------------
(* The inductive invariant.                                                *)

Shape ==
    /\ memory \in [Buffers -> Keys \cup {NilKey}]
    /\ DOMAIN pc = Callers /\ DOMAIN token = Callers /\ DOMAIN key = Callers
    /\ DOMAIN seen = Callers

\* An encrypter holds a copy of a key unless nobody overwrites its buffer, and
\* it encrypts under the keys it was built for.
EncrypterInv ==
    /\ intended \subseteq Keys
    /\ encrypter # NoEncrypter =>
          /\ Paired(encrypter)
          /\ intended = {KeyNow(encrypter.recipients[i].held, memory) :
                            i \in DOMAIN encrypter.recipients}
          /\ \A i \in DOMAIN encrypter.recipients :
                LET held == encrypter.recipients[i].held IN
                held.copy = NilKey => KeyKinds[held.buffer] = "object"

\* What is unaltered was made by an encrypter with the options agreed on, and
\* what is intact has the content and the recipients of such a token.
WireInv(w) ==
    /\ DOMAIN w = {"token", "keys", "altered"}
    /\ {"recipients", "unprotected", "intact", "content", "authData"}
          \subseteq DOMAIN w.token
    /\ w.keys \subseteq Keys
    /\ w.keys = {w.token.recipients[i].key : i \in DOMAIN w.token.recipients}
    /\ DOMAIN w.token.recipients \subseteq Nat
    /\ ~ w.altered => w.token.intact /\ Passes(w.token)
    /\ w.token.intact =>
          \E v \in wire : /\ ~ v.altered /\ v.keys = w.keys
                          /\ v.token.content = w.token.content
                          /\ v.token.authData = w.token.authData

\* Why a call was refused: for the token, or for a key in force during it.
Refused(c) ==
    \/ EarlyErrors(token[c]) # {}
    \/ \E i \in DOMAIN token[c].recipients : LateErrors(token[c], i) # {}
    \/ \E r \in seen[c] :
          LET answer == Answer(r, SharedHeader(token[c])) IN
          answer.errors # {} \/ Opens(token[c], answer.key) = {}

\* A call has a token that arrived; its key is the answer of a registry in
\* force since it began.
TransitInv(c) ==
    /\ IsFiniteSet(seen[c])
    /\ pc[c] # "idle" => \E w \in wire : token[c] = w.token
    /\ InProgress(c) => registry \in seen[c]
    /\ pc[c] = "decrypting" =>
          \E r \in seen[c] :
             Answer(r, SharedHeader(token[c])).key = key[c]
    /\ pc[c] = "decrypted" => Opens(token[c], key[c]) # {}
    /\ pc[c] = "rejected" => Refused(c)

ExchangeInv ==
    /\ Shape /\ SameOptions /\ EncrypterInv
    /\ \A w \in wire : WireInv(w)
    /\ \A c \in Callers : TransitInv(c)

LEMMA ExchangeInvInit == ExchangeInit => ExchangeInv
<1> SUFFICES ASSUME ExchangeInit
             PROVE  ExchangeInv
  OBVIOUS
<1>1. Shape
  BY ExchangeAssumption DEF ExchangeInit, Shape
<1>2. SameOptions
  <2>1. PICK multi \in BOOLEAN :
           decrypter = [multi |-> multi, keyAlgorithms |-> KeyAlgorithms,
                        contentEncryptions |-> ContentEncryptions,
                        policy |-> MakeConfig(options).policy,
                        maxTokenSize |-> MakeConfig(options).maxTokenSize,
                        maxPlaintextSize |-> MakeConfig(options).maxPlaintextSize]
    BY Zenon DEF ExchangeInit
  <2>2. options \in OptionLists
    BY DEF ExchangeInit
  <2> QED
    BY <2>1, <2>2 DEF SameOptions
<1>3. EncrypterInv
  BY DEF ExchangeInit, EncrypterInv
<1>4. \A c \in Callers : TransitInv(c)
  BY FS_EmptySet DEF ExchangeInit, TransitInv, InProgress
<1> QED
  BY <1>1, <1>2, <1>3, <1>4 DEF ExchangeInit, ExchangeInv

\* The judgements read nothing but the options agreed on.
LEMMA SameOptionsSameVerdict ==
    ASSUME options' = options, decrypter' = decrypter
    PROVE  /\ \A t : EarlyErrors(t)' = EarlyErrors(t)
           /\ \A t, i : LateErrors(t, i)' = LateErrors(t, i)
           /\ \A t : Passes(t)' <=> Passes(t)
           /\ \A e : Paired(e)' <=> Paired(e)
           /\ SameOptions' <=> SameOptions
<1>1. \A t : Allowed(t)' <=> Allowed(t)
  BY DEF Allowed
<1>2. \A t : EarlyErrors(t)' = EarlyErrors(t)
  BY <1>1 DEF EarlyErrors
<1>3. \A t, i : LateErrors(t, i)' = LateErrors(t, i)
  BY DEF LateErrors
<1>4. (Compatible' <=> Compatible) /\ (Contradicted' <=> Contradicted)
  BY DEF Compatible, Contradicted
<1>5. \A t : Passes(t)' <=> Passes(t)
  BY <1>1, <1>2, <1>3, <1>4 DEF Passes
<1>6. \A e : Paired(e)' <=> Paired(e)
  BY DEF Paired
<1>7. SameOptions' <=> SameOptions
  BY DEF SameOptions
<1> QED
  BY <1>2, <1>3, <1>5, <1>6, <1>7

\* A call is left alone: only tokens and registries may be added.
LEMMA CallKept ==
    ASSUME NEW c \in Callers, TransitInv(c),
           options' = options, decrypter' = decrypter, wire \subseteq wire',
           pc'[c] = pc[c], token'[c] = token[c], key'[c] = key[c],
           seen[c] \subseteq seen'[c], IsFiniteSet(seen'[c]),
           InProgress(c) => registry' \in seen'[c]
    PROVE  TransitInv(c)'
<1>1. Refused(c) => Refused(c)'
  BY SameOptionsSameVerdict DEF Refused
<1>2. pc[c] # "idle" => \E w \in wire' : token'[c] = w.token
  BY DEF TransitInv
<1>3. pc[c] = "decrypting" =>
         \E r \in seen'[c] :
            Answer(r, SharedHeader(token'[c])).key = key'[c]
  BY DEF TransitInv
<1> QED
  BY <1>1, <1>2, <1>3 DEF TransitInv, InProgress

\* Tokens stay what they are while others are added.
LEMMA WireKept ==
    ASSUME NEW w, WireInv(w), options' = options, decrypter' = decrypter,
           wire \subseteq wire'
    PROVE  WireInv(w)'
<1>1. Passes(w.token)' <=> Passes(w.token)
  BY SameOptionsSameVerdict
<1>2. w.token.intact =>
         \E v \in wire' : /\ ~ v.altered /\ v.keys = w.keys
                          /\ v.token.content = w.token.content
                          /\ v.token.authData = w.token.authData
  BY DEF WireInv
<1> QED
  BY <1>1, <1>2 DEF WireInv

\* A new encrypter is paired with the decrypter and holds the keys of its
\* buffers, in copies or in objects that nobody overwrites.
LEMMA ConfigureKeeps ==
    ASSUME ExchangeInv, NEW rs \in RecipientLists, Configure(rs)
    PROVE  EncrypterInv'
<1> DEFINE e == NewEncrypter(decrypter.multi, Encryption, rs, options, memory)
<1>1. /\ encrypter' = e /\ memory' = memory /\ options' = options
      /\ decrypter' = decrypter
      /\ intended' = {memory[rs[i].buffer] : i \in DOMAIN rs}
      /\ ValidEncrypter(decrypter.multi, Encryption, rs, options, memory)
  BY DEF Configure, receiverVars, vars
<1>2. /\ Len(rs) \in Nat /\ DOMAIN rs = 1 .. Len(rs)
      /\ \A i \in DOMAIN rs : rs[i].buffer \in Buffers
      /\ rs # <<>> => Len(rs) # 0
  <2> DEFINE R == [alg : Texts \cup {NoText}, kid : Texts \cup {NoText},
                   buffer : Buffers]
  <2>1. rs \in Seq(R)
    BY ExchangeAssumption
  <2>2. \A r \in R : r.buffer \in Buffers
    OBVIOUS
  <2> HIDE DEF R
  <2>3. /\ Len(rs) \in Nat /\ DOMAIN rs = 1 .. Len(rs)
        /\ \A i \in DOMAIN rs : rs[i] \in R
        /\ rs # <<>> => Len(rs) # 0
    BY <2>1
  <2> QED
    BY <2>2, <2>3
<1>3. /\ rs # <<>>
      /\ ~ decrypter.multi => Len(rs) = 1
      /\ \A i \in DOMAIN rs : memory[rs[i].buffer] # NilKey
  BY <1>1 DEF ValidEncrypter
<1>4. \A i \in DOMAIN rs : memory[rs[i].buffer] \in Keys
  BY <1>2, <1>3 DEF ExchangeInv, Shape
<1>5. /\ e.multi = decrypter.multi /\ e.config = MakeConfig(options)
      /\ DOMAIN e.recipients = DOMAIN rs
      /\ \A i \in DOMAIN rs :
            e.recipients[i].held = CloneKeyMaterial(rs[i].buffer, memory)
  BY DEF NewEncrypter
<1>6. ASSUME NEW i \in DOMAIN rs
      PROVE  LET held == e.recipients[i].held IN
             /\ KeyNow(held, memory) = memory[rs[i].buffer]
             /\ held.copy = NilKey => KeyKinds[held.buffer] = "object"
  <2> DEFINE b == rs[i].buffer
             held == e.recipients[i].held
  <2>1. KeyKinds[b] \in {"bytes", "jwk", "object"} /\ memory[b] # NilKey
    BY <1>2, <1>3, EncryptersAssumption
  <2>2. held = CloneKeyMaterial(b, memory)
    BY <1>5
  <2> HIDE DEF held, b
  <2>3. /\ held.buffer = b
        /\ held.copy = IF KeyKinds[b] \in {"bytes", "jwk"} THEN memory[b] ELSE NilKey
    BY <2>2 DEF CloneKeyMaterial
  <2>4. KeyNow(held, memory) = memory[b]
    BY <2>1, <2>3 DEF KeyNow
  <2> QED
    BY <2>1, <2>3, <2>4 DEF held, b
<1>7. Len(e.recipients) = Len(rs) /\ Len(rs) # 0
  <2>1. e.recipients = [i \in 1 .. Len(rs) |->
           [alg |-> rs[i].alg, kid |-> rs[i].kid,
            held |-> CloneKeyMaterial(rs[i].buffer, memory)]]
    BY <1>2 DEF NewEncrypter
  <2> HIDE DEF e
  <2>2. Len(e.recipients) = Len(rs)
    BY <1>2, <2>1
  <2>3. Len(rs) # 0
    BY <1>2, <1>3
  <2> QED
    BY <2>2, <2>3
<1> HIDE DEF e
<1>8. Paired(e)
  BY <1>2, <1>3, <1>5, <1>7 DEF Paired
<1>9. intended' = {KeyNow(e.recipients[i].held, memory) : i \in DOMAIN e.recipients}
  BY <1>1, <1>5, <1>6
<1>10. intended' \subseteq Keys
  BY <1>1, <1>4
<1>11. Paired(encrypter)'
  BY <1>1, <1>8 DEF Paired
<1> QED
  BY <1>1, <1>5, <1>6, <1>9, <1>10, <1>11 DEF EncrypterInv

\* Overwriting a buffer takes no key from an encrypter.
LEMMA OverwriteKeeps ==
    ASSUME ExchangeInv, NEW b \in Buffers, Overwrite(b)
    PROVE  Shape' /\ EncrypterInv'
<1>1. /\ memory' = [memory EXCEPT ![b] = WipedKey] /\ KeyKinds[b] # "object"
      /\ encrypter' = encrypter /\ intended' = intended
      /\ options' = options /\ decrypter' = decrypter
      /\ pc' = pc /\ token' = token /\ key' = key /\ seen' = seen
  BY DEF Overwrite, receiverVars, vars
<1>2. Shape'
  BY <1>1, ExchangeAssumption DEF ExchangeInv, Shape
<1>3. ASSUME encrypter # NoEncrypter, NEW i \in DOMAIN encrypter.recipients
      PROVE  KeyNow(encrypter.recipients[i].held, memory')
             = KeyNow(encrypter.recipients[i].held, memory)
  <2> DEFINE held == encrypter.recipients[i].held
  <2>1. held.copy = NilKey => KeyKinds[held.buffer] = "object"
    BY <1>3 DEF ExchangeInv, EncrypterInv
  <2> HIDE DEF held
  <2>2. held.buffer # b => memory'[held.buffer] = memory[held.buffer]
    BY <1>1 DEF ExchangeInv, Shape
  <2>3. KeyNow(held, memory') = KeyNow(held, memory)
    BY <1>1, <2>1, <2>2 DEF KeyNow
  <2> QED
    BY <2>3 DEF held
<1>4. EncrypterInv'
  <2>1. encrypter # NoEncrypter =>
           intended = {KeyNow(encrypter.recipients[i].held, memory') :
                         i \in DOMAIN encrypter.recipients}
    BY <1>3 DEF ExchangeInv, EncrypterInv
  <2>2. Paired(encrypter)' <=> Paired(encrypter)
    BY <1>1 DEF Paired
  <2> QED
    BY <1>1, <2>1, <2>2 DEF ExchangeInv, EncrypterInv
<1> QED
  BY <1>2, <1>4

\* What was just encrypted is for the keys the encrypter was built for.
LEMMA EncryptKeeps ==
    ASSUME ExchangeInv, NEW p \in Plaintexts, NEW a \in AuthData, Encrypt(p, a)
    PROVE  \A w \in wire' : WireInv(w)'
<1>0. PICK t, new : /\ t = Encrypted(encrypter, p, a, memory)
                    /\ new = [token |-> t, keys |-> intended, altered |-> FALSE]
  OBVIOUS
<1>1. /\ wire' = wire \cup {new}
      /\ options' = options /\ decrypter' = decrypter
      /\ encrypter # NoEncrypter /\ EncryptErrors(encrypter, p, a, memory) = {}
  BY <1>0 DEF Encrypt, receiverVars, vars
<1>2. ASSUME NEW w \in wire
      PROVE  WireInv(w)'
  BY <1>1, WireKept DEF ExchangeInv
<1>3. Paired(encrypter)
      /\ intended \subseteq Keys
      /\ intended = {KeyNow(encrypter.recipients[i].held, memory) :
                       i \in DOMAIN encrypter.recipients}
  BY <1>1 DEF ExchangeInv, EncrypterInv
<1>4. Passes(t)
  BY <1>0, <1>1, <1>3, MadePasses DEF ExchangeInv
<1>5. /\ {"recipients", "unprotected", "intact", "content", "authData"}
            \subseteq DOMAIN t
      /\ t.intact /\ DOMAIN t.recipients = DOMAIN encrypter.recipients
      /\ \A i \in DOMAIN encrypter.recipients :
            t.recipients[i].key = KeyNow(encrypter.recipients[i].held, memory)
  BY <1>0 DEF Encrypted
<1>6. DOMAIN t.recipients \subseteq Nat
  BY <1>3, <1>5 DEF Paired
<1>7. intended = {t.recipients[i].key : i \in DOMAIN t.recipients}
  BY <1>3, <1>5
<1>8. /\ new.token = t /\ new.keys = intended /\ ~ new.altered /\ new \in wire'
      /\ DOMAIN new = {"token", "keys", "altered"}
  BY <1>0, <1>1
<1>9. Passes(new.token)'
  BY <1>1, <1>4, <1>8, SameOptionsSameVerdict
<1>10. WireInv(new)'
  BY <1>3, <1>5, <1>6, <1>7, <1>8, <1>9 DEF WireInv
<1> QED
  BY <1>1, <1>2, <1>10

\* An altered token has the recipients of the one it was, and its content if
\* it opens at all.
LEMMA AlterAdds ==
    ASSUME ExchangeInv, NEW w \in wire, Alter(w)
    PROVE  \E new : /\ wire' = wire \cup {new}
                    /\ DOMAIN new = DOMAIN w
                    /\ DOMAIN new.token = DOMAIN w.token
                    /\ new.altered /\ new.keys = w.keys
                    /\ new.token.recipients = w.token.recipients
                    /\ new.token.intact =>
                          /\ w.token.intact
                          /\ new.token.content = w.token.content
                          /\ new.token.authData = w.token.authData
<1> DEFINE spoilt == [w EXCEPT !.token.intact = FALSE, !.token.content = NilKey,
                               !.altered = TRUE]
           addressed(u) == [w EXCEPT !.token.unprotected = u, !.altered = TRUE]
<1>0. /\ DOMAIN w = {"token", "keys", "altered"}
      /\ {"recipients", "unprotected", "intact", "content", "authData"}
            \subseteq DOMAIN w.token
  BY DEF ExchangeInv, WireInv
<1>1. \/ wire' = wire \cup {spoilt}
      \/ \E u \in Unprotected : wire' = wire \cup {addressed(u)}
  BY DEF Alter
<1>2. CASE wire' = wire \cup {spoilt}
  <2>1. /\ DOMAIN spoilt = DOMAIN w /\ DOMAIN spoilt.token = DOMAIN w.token
        /\ spoilt.altered /\ spoilt.keys = w.keys /\ ~ spoilt.token.intact
        /\ spoilt.token.recipients = w.token.recipients
    BY <1>0
  <2> HIDE DEF spoilt
  <2> QED
    BY <1>2, <2>1
<1>3. CASE \E u \in Unprotected : wire' = wire \cup {addressed(u)}
  <2>1. PICK u \in Unprotected : wire' = wire \cup {addressed(u)}
    BY <1>3
  <2>2. /\ DOMAIN addressed(u) = DOMAIN w
        /\ DOMAIN addressed(u).token = DOMAIN w.token
        /\ addressed(u).altered /\ addressed(u).keys = w.keys
        /\ addressed(u).token.recipients = w.token.recipients
        /\ addressed(u).token.intact = w.token.intact
        /\ addressed(u).token.content = w.token.content
        /\ addressed(u).token.authData = w.token.authData
    BY <1>0
  <2> HIDE DEF addressed
  <2> QED
    BY <2>1, <2>2
<1> QED
  BY <1>1, <1>2, <1>3

LEMMA AlterKeeps ==
    ASSUME ExchangeInv, NEW w \in wire, Alter(w)
    PROVE  \A v \in wire' : WireInv(v)'
<1>1. PICK new : /\ wire' = wire \cup {new}
                 /\ DOMAIN new = DOMAIN w
                 /\ DOMAIN new.token = DOMAIN w.token
                 /\ new.altered /\ new.keys = w.keys
                 /\ new.token.recipients = w.token.recipients
                 /\ new.token.intact =>
                       /\ w.token.intact
                       /\ new.token.content = w.token.content
                       /\ new.token.authData = w.token.authData
  BY AlterAdds
<1>2. options' = options /\ decrypter' = decrypter
  BY DEF Alter, receiverVars, vars
<1>3. ASSUME NEW v \in wire
      PROVE  WireInv(v)'
  BY <1>1, <1>2, WireKept DEF ExchangeInv
<1>4. WireInv(w)
  BY DEF ExchangeInv
<1>5. WireInv(new)'
  BY <1>1, <1>4 DEF WireInv
<1> QED
  BY <1>1, <1>3, <1>5

-----------------------------------------------------------------------------
(* Steps of the receiver.                                                  *)

LEMMA FirstOpenedOpens ==
    ASSUME NEW t, DOMAIN t.recipients \subseteq Nat, NEW k,
           Opens(t, k) # {}
    PROVE  FirstOpened(t, k) \in Opens(t, k)
<1>1. Opens(t, k) \in SUBSET Nat
  BY DEF Opens
<1>2. \E i \in Opens(t, k) : \A j \in Opens(t, k) : i <= j
  BY <1>1, FirstThereIs
<1> QED
  BY <1>2 DEF FirstOpened

\* What a step of one call does to the variables of the receiver.
LEMMA OneCallMoves ==
    ASSUME ExchangeInv, NEW c \in Callers,
           Decrypt(c) \/ \E w \in wire : Receive(c, w)
    PROVE  /\ UNCHANGED senderVars /\ decrypter' = decrypter /\ registry' = registry
           /\ Shape'
           /\ \A d \in Callers \ {c} :
                 /\ pc'[d] = pc[d] /\ token'[d] = token[d] /\ key'[d] = key[d]
                 /\ seen'[d] = seen[d]
           /\ pc'[c] # "idle"
<1> USE DEF ExchangeInv, Shape
<1>1. CASE \E w \in wire : Receive(c, w)
  BY <1>1 DEF Receive, DecryptToken, Reject, senderVars
<1>2. CASE ResolverFailure(c) /\ UNCHANGED senderVars
  BY <1>2 DEF ResolverFailure, Reject, senderVars
<1>3. CASE KeyResolved(c) /\ UNCHANGED senderVars
  BY <1>3 DEF KeyResolved, senderVars
<1>4. CASE DecryptFails(c) /\ UNCHANGED senderVars
  BY <1>4 DEF DecryptFails, Reject, senderVars
<1>5. CASE RejectDecrypted(c) /\ UNCHANGED senderVars
  BY <1>5 DEF RejectDecrypted, Reject, senderVars
<1>6. CASE Return(c) /\ UNCHANGED senderVars
  BY <1>6 DEF Return, senderVars
<1> QED
  BY <1>1, <1>2, <1>3, <1>4, <1>5, <1>6 DEF Decrypt, Step

\* What a call knows is true after its own steps.
LEMMA OwnStep ==
    ASSUME ExchangeInv, NEW c \in Callers,
           Decrypt(c) \/ \E w \in wire : Receive(c, w)
    PROVE  TransitInv(c)'
<1>1. Shape /\ TransitInv(c)
  BY DEF ExchangeInv
<1>2. /\ wire' = wire /\ options' = options /\ decrypter' = decrypter
      /\ registry' = registry
  BY OneCallMoves DEF senderVars
<1>3. ASSUME NEW w \in wire, Receive(c, w)
      PROVE  TransitInv(c)'
  <2>1. /\ token'[c] = w.token /\ seen'[c] = {registry}
        /\ \/ pc'[c] = "resolving"
           \/ pc'[c] = "rejected" /\ EarlyErrors(w.token) # {}
    BY <1>1, <1>3 DEF Receive, DecryptToken, Reject, Shape
  <2>2. pc'[c] = "rejected" => Refused(c)'
    BY <1>2, <2>1, SameOptionsSameVerdict DEF Refused
  <2>3. IsFiniteSet(seen'[c])
    BY <2>1, FS_Singleton
  <2> QED
    BY <1>2, <2>1, <2>2, <2>3 DEF TransitInv, InProgress
<1>4. ASSUME ResolverFailure(c)
      PROVE  TransitInv(c)'
  <2>1. /\ pc[c] = "resolving" /\ pc'[c] = "rejected"
        /\ token' = token /\ seen' = seen /\ key' = key
        /\ Answer(registry, SharedHeader(token[c])).errors # {}
    BY <1>1, <1>4 DEF ResolverFailure, Reject, Reply, Shape
  <2>2. registry \in seen[c]
    BY <1>1, <2>1 DEF TransitInv, InProgress
  <2>3. Refused(c)'
    BY <2>1, <2>2 DEF Refused
  <2> QED
    BY <1>1, <1>2, <2>1, <2>3 DEF TransitInv, InProgress
<1>5. ASSUME KeyResolved(c)
      PROVE  TransitInv(c)'
  <2>1. /\ pc[c] = "resolving" /\ pc'[c] = "decrypting"
        /\ token' = token /\ seen' = seen
        /\ key'[c] = Answer(registry, SharedHeader(token[c])).key
    BY <1>1, <1>5 DEF KeyResolved, Reply, Shape
  <2>2. registry \in seen[c]
    BY <1>1, <2>1 DEF TransitInv, InProgress
  <2> QED
    BY <1>1, <1>2, <2>1, <2>2 DEF TransitInv, InProgress
<1>6. ASSUME DecryptFails(c)
      PROVE  TransitInv(c)'
  <2>1. /\ pc[c] = "decrypting" /\ pc'[c] = "rejected"
        /\ token' = token /\ seen' = seen /\ key' = key
        /\ Opens(token[c], key[c]) = {}
    BY <1>1, <1>6 DEF DecryptFails, Reject, Shape
  <2>2. \E r \in seen[c] :
           Answer(r, SharedHeader(token[c])).key = key[c]
    BY <1>1, <2>1 DEF TransitInv
  <2>3. Refused(c)'
    BY <2>1, <2>2 DEF Refused
  <2> QED
    BY <1>1, <1>2, <2>1, <2>3 DEF TransitInv, InProgress
<1>7. ASSUME RejectDecrypted(c)
      PROVE  TransitInv(c)'
  <2> DEFINE i == FirstOpened(token[c], key[c])
  <2>1. /\ pc[c] = "decrypting" /\ pc'[c] = "rejected"
        /\ token' = token /\ seen' = seen /\ key' = key
        /\ Opens(token[c], key[c]) # {}
        /\ LateErrors(token[c], i) # {}
    BY <1>1, <1>7 DEF RejectDecrypted, Reject, Shape
  <2>2. DOMAIN token[c].recipients \subseteq Nat
    BY <1>1, <2>1 DEF TransitInv, ExchangeInv, WireInv
  <2>3. i \in DOMAIN token[c].recipients
    BY <2>1, <2>2, FirstOpenedOpens DEF Opens
  <2> HIDE DEF i
  <2>4. Refused(c)
    BY <2>1, <2>3 DEF Refused
  <2>5. Refused(c)'
    BY <1>2, <2>1, <2>4, SameOptionsSameVerdict DEF Refused
  <2> QED
    BY <1>1, <1>2, <2>1, <2>5 DEF TransitInv, InProgress
<1>8. ASSUME Return(c)
      PROVE  TransitInv(c)'
  <2>1. /\ pc[c] = "decrypting" /\ pc'[c] = "decrypted"
        /\ token' = token /\ seen' = seen /\ key' = key
        /\ Opens(token[c], key[c]) # {}
    BY <1>1, <1>8 DEF Return, Shape
  <2> QED
    BY <1>1, <1>2, <2>1 DEF TransitInv, InProgress
<1> QED
  BY <1>3, <1>4, <1>5, <1>6, <1>7, <1>8 DEF Decrypt, Step

LEMMA ExchangeInvNext == ExchangeInv /\ [ExchangeNext]_exchangeVars => ExchangeInv'
<1> SUFFICES ASSUME ExchangeInv, [ExchangeNext]_exchangeVars
             PROVE  ExchangeInv'
  OBVIOUS
<1>1. \A c \in Callers : TransitInv(c) /\ IsFiniteSet(seen[c])
                         /\ (InProgress(c) => registry \in seen[c])
  BY DEF ExchangeInv, TransitInv
\* The receiver does nothing.
<1>2. ASSUME UNCHANGED receiverVars, options' = options, wire \subseteq wire'
      PROVE  (\A c \in Callers : TransitInv(c)') /\ SameOptions'
  <2>1. SameOptions'
    BY <1>2, SameOptionsSameVerdict DEF ExchangeInv, receiverVars, vars
  <2> QED
    BY <1>1, <1>2, <2>1, CallKept DEF receiverVars, vars
\* The sender does nothing.
<1>3. ASSUME UNCHANGED senderVars, decrypter' = decrypter
      PROVE  EncrypterInv' /\ SameOptions' /\ \A w \in wire' : WireInv(w)'
  <2>1. SameOptions' /\ (Paired(encrypter)' <=> Paired(encrypter))
    BY <1>3, SameOptionsSameVerdict DEF ExchangeInv, senderVars, Paired
  <2>2. \A w \in wire' : WireInv(w)'
    BY <1>3, WireKept DEF ExchangeInv, senderVars
  <2> QED
    BY <1>3, <2>1, <2>2 DEF EncrypterInv, ExchangeInv, senderVars
<1>4. ASSUME NEW rs \in RecipientLists, Configure(rs)
      PROVE  ExchangeInv'
  <2>1. UNCHANGED <<options, memory, wire, receiverVars>>
    BY <1>4 DEF Configure
  <2>2. EncrypterInv'
    BY <1>4, ConfigureKeeps
  <2>3. \A w \in wire' : WireInv(w)'
    BY <2>1, WireKept DEF ExchangeInv, receiverVars, vars
  <2>4. Shape'
    BY <2>1 DEF ExchangeInv, Shape, receiverVars, vars
  <2> QED
    BY <1>2, <2>1, <2>2, <2>3, <2>4 DEF ExchangeInv
<1>5. ASSUME NEW b \in Buffers, Overwrite(b)
      PROVE  ExchangeInv'
  <2>1. UNCHANGED <<options, encrypter, intended, wire, receiverVars>>
    BY <1>5 DEF Overwrite
  <2>2. Shape' /\ EncrypterInv'
    BY <1>5, OverwriteKeeps
  <2>3. \A w \in wire' : WireInv(w)'
    BY <2>1, WireKept DEF ExchangeInv, receiverVars, vars
  <2> QED
    BY <1>2, <2>1, <2>2, <2>3 DEF ExchangeInv
<1>6. ASSUME UNCHANGED <<options, memory, encrypter, intended, receiverVars>>,
             wire \subseteq wire', \A w \in wire' : WireInv(w)'
      PROVE  ExchangeInv'
  <2>1. Shape' /\ EncrypterInv'
    BY <1>6 DEF ExchangeInv, Shape, EncrypterInv, Paired, receiverVars, vars
  <2> QED
    BY <1>2, <1>6, <2>1 DEF ExchangeInv
<1>7. ASSUME NEW p \in Plaintexts, NEW a \in AuthData, Encrypt(p, a)
      PROVE  ExchangeInv'
  BY <1>6, <1>7, EncryptKeeps DEF Encrypt
<1>8. ASSUME NEW w \in wire, Alter(w)
      PROVE  ExchangeInv'
  BY <1>6, <1>8, AlterKeeps DEF Alter
<1>9. ASSUME NEW c \in Callers, Decrypt(c) \/ \E w \in wire : Receive(c, w)
      PROVE  ExchangeInv'
  <2>1. /\ UNCHANGED senderVars /\ decrypter' = decrypter /\ registry' = registry
        /\ Shape'
        /\ \A d \in Callers \ {c} :
              /\ pc'[d] = pc[d] /\ token'[d] = token[d] /\ key'[d] = key[d]
              /\ seen'[d] = seen[d]
    BY <1>9, OneCallMoves
  <2>2. TransitInv(c)'
    BY <1>9, OwnStep
  <2>3. ASSUME NEW d \in Callers \ {c}
        PROVE  TransitInv(d)'
    BY <1>1, <2>1, CallKept DEF senderVars
  <2> QED
    BY <1>3, <2>1, <2>2, <2>3 DEF ExchangeInv
<1>10. ASSUME RotateKeys
       PROVE  ExchangeInv'
  <2>1. /\ UNCHANGED senderVars
        /\ UNCHANGED <<decrypter, pc, calls, token, key, index, errors>>
        /\ seen' = [c \in Callers |-> IF InProgress(c)
                                      THEN seen[c] \cup {registry'} ELSE seen[c]]
    BY <1>10 DEF RotateKeys, ChangeRegistry
  <2>2. Shape'
    BY <2>1 DEF ExchangeInv, Shape, senderVars
  <2>3. ASSUME NEW c \in Callers
        PROVE  TransitInv(c)'
    <3>1. IsFiniteSet(seen[c] \cup {registry'})
      BY <1>1, FS_AddElement
    <3>2. /\ seen[c] \subseteq seen'[c] /\ IsFiniteSet(seen'[c])
          /\ InProgress(c) => registry' \in seen'[c]
      BY <1>1, <2>1, <3>1
    <3> QED
      BY <1>1, <2>1, <3>2, CallKept DEF senderVars
  <2> QED
    BY <1>3, <2>1, <2>2, <2>3 DEF ExchangeInv
<1>11. CASE UNCHANGED exchangeVars
  <2>1. Shape' /\ UNCHANGED senderVars /\ UNCHANGED receiverVars
    BY <1>11 DEF exchangeVars, ExchangeInv, Shape, senderVars, receiverVars, vars
  <2> QED
    BY <1>2, <1>3, <2>1 DEF ExchangeInv, senderVars, receiverVars, vars
<1> QED
  BY <1>4, <1>5, <1>7, <1>8, <1>9, <1>10, <1>11 DEF ExchangeNext

\* What encrypters, transport and decrypter know of one another.
THEOREM ExchangeInvAlways == ExchangeSpec => []ExchangeInv
<1> QED
  BY ExchangeInvInit, ExchangeInvNext, PTL DEF ExchangeSpec

-----------------------------------------------------------------------------
(* What the two sides promise each other.                                  *)

\* An encrypter seals for the keys it was built for and no other, whatever the
\* application did to its key buffers since.
THEOREM EncryptersKeepTheirKeysAlways == ExchangeSpec => []EncryptersKeepTheirKeys
<1>1. ExchangeInv => EncryptersKeepTheirKeys
  BY DEF ExchangeInv, WireInv, EncryptersKeepTheirKeys
<1> QED
  BY <1>1, ExchangeInvAlways, PTL

\* A decrypter refuses nothing that an encrypter with the same options made,
\* with algorithms it allows and for a key its resolver answers with, if extra
\* headers name neither algorithms nor compression nor crit and contradict no
\* type.
THEOREM OwnTokensOpenAlways == ExchangeSpec => []OwnTokensOpen
<1>1. ASSUME ExchangeInv, NEW c \in Callers, NEW w \in wire,
             pc[c] = "rejected", Cardinality(seen[c]) = 1,
             token[c] = w.token, ~ w.altered, Allowed(w.token),
             \A r \in seen[c] :
                Answer(r, SharedHeader(w.token)).key \in w.keys,
             Compatible, decrypter.multi \/ ~ Contradicted
      PROVE  FALSE
  <2>1. TransitInv(c) /\ WireInv(w)
    BY <1>1 DEF ExchangeInv
  <2>2. PICK r : seen[c] = {r}
    BY <1>1, <2>1, FS_Singleton DEF TransitInv
  <2>3. /\ EarlyErrors(token[c]) = {}
        /\ \A i \in DOMAIN token[c].recipients :
              LateErrors(token[c], i) = {} /\ Truthful(token[c], i)
        /\ w.token.intact
    BY <1>1, <2>1 DEF WireInv, Passes
  <2> DEFINE answer == Answer(r, SharedHeader(token[c]))
  <2>4. answer.key \in w.keys /\ answer.key # NilKey
    BY <1>1, <2>1, <2>2, ExchangeAssumption, DecrypterAssumption DEF WireInv
  <2>5. answer.errors = {}
    BY <2>4, ExchangeAssumption DEF Answer
  <2> HIDE DEF answer
  <2>6. PICK i \in DOMAIN w.token.recipients : answer.key = w.token.recipients[i].key
    BY <2>1, <2>4 DEF WireInv
  <2>7. i \in Opens(token[c], answer.key)
    BY <1>1, <2>3, <2>6 DEF Opens
  <2>8. Refused(c)
    BY <1>1, <2>1 DEF TransitInv
  <2> QED
    BY <2>2, <2>3, <2>5, <2>7, <2>8 DEF Refused, answer
<1>2. ExchangeInv => OwnTokensOpen
  BY <1>1 DEF OwnTokensOpen
<1> QED
  BY <1>2, ExchangeInvAlways, PTL

-----------------------------------------------------------------------------
(* The refinement.                                                         *)

\* The channel's messages and what its openers have, in terms of the system.
Sealed == {[content |-> [plaintext |-> w.token.content, authData |-> w.token.authData],
            keys |-> w.keys] : w \in {v \in wire : ~ v.altered}}
OpenedNow(c) == IF pc[c] # "decrypted" THEN NilKey
               ELSE [content |-> [plaintext |-> token[c].content,
                                  authData |-> token[c].authData],
                     key |-> key[c]]
Opened == [c \in Callers |-> OpenedNow(c)]
ChannelContents == {[plaintext |-> p.id, authData |-> a.id] :
                       p \in Plaintexts, a \in AuthData}

LEMMA ChannelSteps ==
    /\ Channel!Init <=> Sealed = {} /\ Opened = [c \in Callers |-> NilKey]
    /\ Channel!Seal <=>
          /\ \E content \in ChannelContents, keys \in SUBSET Keys :
                Sealed' = Sealed \cup {[content |-> content, keys |-> keys]}
          /\ Opened' = Opened
    /\ \A c : Channel!Open(c) <=>
          /\ \E message \in Sealed : \E k \in message.keys :
                Opened' = [Opened EXCEPT ![c] = [content |-> message.content, key |-> k]]
          /\ Sealed' = Sealed
    /\ \A c : Channel!Discard(c) <=>
          Opened' = [Opened EXCEPT ![c] = NilKey] /\ Sealed' = Sealed
    /\ UNCHANGED Channel!vars <=> Sealed' = Sealed /\ Opened' = Opened
<1>1. Channel!Init <=> Sealed = {} /\ Opened = [c \in Callers |-> NilKey]
  BY Zenon DEF Channel!Init, Sealed, Opened, OpenedNow
<1>2. Channel!Seal <=>
          /\ \E content \in ChannelContents, keys \in SUBSET Keys :
                Sealed' = Sealed \cup {[content |-> content, keys |-> keys]}
          /\ Opened' = Opened
  <2>1. Channel!Seal <=>
           /\ \E content \in ChannelContents : \E keys \in SUBSET Keys :
                 Sealed' = Sealed \cup {[content |-> content, keys |-> keys]}
           /\ Opened' = Opened
    BY SMT DEF Channel!Seal, Sealed, Opened, OpenedNow, ChannelContents
  <2> QED
    BY Zenon, <2>1
<1>3. \A c : Channel!Open(c) <=>
          /\ \E message \in Sealed : \E k \in message.keys :
                Opened' = [Opened EXCEPT ![c] = [content |-> message.content, key |-> k]]
          /\ Sealed' = Sealed
  BY Zenon DEF Channel!Open, Sealed, Opened, OpenedNow
<1>4. \A c : Channel!Discard(c) <=>
          Opened' = [Opened EXCEPT ![c] = NilKey] /\ Sealed' = Sealed
  BY Zenon DEF Channel!Discard, Sealed, Opened, OpenedNow
<1>5. UNCHANGED Channel!vars <=> Sealed' = Sealed /\ Opened' = Opened
  BY Zenon DEF Channel!vars, Sealed, Opened, OpenedNow
<1> QED
  BY <1>1, <1>2, <1>3, <1>4, <1>5

LEMMA ChannelInit == ExchangeInit => Channel!Init
<1> SUFFICES ASSUME ExchangeInit
             PROVE  Sealed = {} /\ Opened = [c \in Callers |-> NilKey]
  BY ChannelSteps
<1> QED
  BY DEF ExchangeInit, Sealed, Opened, OpenedNow

\* Every step is one of the channel: an encryption seals, a call that returns
\* opens, a call that begins discards, and nothing else shows.
LEMMA ChannelNext ==
    ASSUME ExchangeInv, ExchangeInv', [ExchangeNext]_exchangeVars
    PROVE  [Channel!Next]_(Channel!vars)
<1>1. ASSUME Sealed' = Sealed, Opened' = Opened
      PROVE  [Channel!Next]_(Channel!vars)
  BY <1>1, ChannelSteps
<1>2. ASSUME UNCHANGED receiverVars
      PROVE  Opened' = Opened
  BY <1>2 DEF receiverVars, vars, Opened, OpenedNow
<1>3. ASSUME {v \in wire' : ~ v.altered} = {v \in wire : ~ v.altered}
      PROVE  Sealed' = Sealed
  BY <1>3 DEF Sealed
<1>4. ASSUME NEW rs \in RecipientLists, Configure(rs)
      PROVE  [Channel!Next]_(Channel!vars)
  BY <1>1, <1>2, <1>3, <1>4 DEF Configure
<1>5. ASSUME NEW b \in Buffers, Overwrite(b)
      PROVE  [Channel!Next]_(Channel!vars)
  BY <1>1, <1>2, <1>3, <1>5 DEF Overwrite
<1>6. ASSUME NEW p \in Plaintexts, NEW a \in AuthData, Encrypt(p, a)
      PROVE  [Channel!Next]_(Channel!vars)
  <2> DEFINE t == Encrypted(encrypter, p, a, memory)
             new == [token |-> t, keys |-> intended, altered |-> FALSE]
             content == [plaintext |-> p.id, authData |-> a.id]
  <2>1. wire' = wire \cup {new} /\ Opened' = Opened
    BY <1>2, <1>6 DEF Encrypt
  <2>2. t.content = p.id /\ t.authData = a.id
    BY DEF Encrypted
  <2>3. content \in ChannelContents /\ intended \in SUBSET Keys
    BY DEF ChannelContents, ExchangeInv, EncrypterInv
  <2>4. /\ ~ new.altered /\ new.keys = intended
        /\ [plaintext |-> new.token.content, authData |-> new.token.authData] = content
    BY <2>2
  <2> HIDE DEF new, content
  <2>5. Sealed' = Sealed \cup {[content |-> content, keys |-> intended]}
    BY <2>1, <2>4 DEF Sealed
  <2>6. Channel!Seal
    BY <2>1, <2>3, <2>5, ChannelSteps
  <2> QED
    BY <2>6 DEF Channel!Next
<1>7. ASSUME NEW w \in wire, Alter(w)
      PROVE  [Channel!Next]_(Channel!vars)
  <2>1. \E v : wire' = wire \cup {v} /\ v.altered
    BY <1>7, AlterAdds
  <2> QED
    BY <1>1, <1>2, <1>3, <1>7, <2>1 DEF Alter
<1>8. ASSUME NEW c \in Callers, Decrypt(c) \/ \E w \in wire : Receive(c, w)
      PROVE  [Channel!Next]_(Channel!vars)
  <2>1. /\ UNCHANGED senderVars
        /\ \A d \in Callers \ {c} :
              pc'[d] = pc[d] /\ token'[d] = token[d] /\ key'[d] = key[d]
    BY <1>8, OneCallMoves
  <2>2. Sealed' = Sealed
    BY <1>3, <2>1 DEF senderVars
  <2>3. Opened' = [Opened EXCEPT ![c] = OpenedNow(c)']
    BY <2>1 DEF Opened, OpenedNow
  <2>4. CASE pc'[c] # "decrypted"
    <3>1. OpenedNow(c)' = NilKey
      BY <2>4 DEF OpenedNow
    <3>2. Channel!Discard(c)
      BY <2>2, <2>3, <3>1, ChannelSteps
    <3> QED
      BY <3>2 DEF Channel!Next
  <2>5. CASE pc'[c] = "decrypted"
    <3>1. PICK w \in wire : token'[c] = w.token
      BY <2>1, <2>5 DEF ExchangeInv, TransitInv, senderVars
    <3>2. PICK i \in Opens(token'[c], key'[c]) : TRUE
      BY <2>5 DEF ExchangeInv, TransitInv
    <3>3. /\ w.token.intact /\ i \in DOMAIN w.token.recipients
          /\ key'[c] = w.token.recipients[i].key
      BY <3>1, <3>2 DEF Opens
    <3>4. key'[c] \in w.keys
      BY <3>3 DEF ExchangeInv, WireInv
    <3>5. PICK v \in wire : /\ ~ v.altered /\ v.keys = w.keys
                           /\ v.token.content = w.token.content
                           /\ v.token.authData = w.token.authData
      BY <3>3 DEF ExchangeInv, WireInv
    <3>6. PICK message \in Sealed :
             /\ message.content = [plaintext |-> w.token.content,
                                   authData |-> w.token.authData]
             /\ message.keys = w.keys
      <4> DEFINE message == [content |-> [plaintext |-> v.token.content,
                                          authData |-> v.token.authData],
                             keys |-> v.keys]
      <4>1. message \in Sealed
        BY <3>5 DEF Sealed
      <4>2. /\ message.content = [plaintext |-> w.token.content,
                                  authData |-> w.token.authData]
            /\ message.keys = w.keys
        BY <3>5
      <4> HIDE DEF message
      <4> QED
        BY <4>1, <4>2
    <3>7. OpenedNow(c)' = [content |-> message.content, key |-> key'[c]]
      BY <2>5, <3>1, <3>6 DEF OpenedNow
    <3>8. Channel!Open(c)
      BY <2>2, <2>3, <3>4, <3>6, <3>7, ChannelSteps
    <3> QED
      BY <3>8 DEF Channel!Next
  <2> QED
    BY <2>4, <2>5
<1>9. CASE RotateKeys
  BY <1>1, <1>3, <1>9 DEF RotateKeys, ChangeRegistry, senderVars, Opened,
     OpenedNow
<1>10. CASE UNCHANGED exchangeVars
  BY <1>1, <1>2, <1>3, <1>10 DEF exchangeVars, senderVars, receiverVars, vars
<1> QED
  BY <1>4, <1>5, <1>6, <1>7, <1>8, <1>9, <1>10 DEF ExchangeNext

\* Encrypters, transport and decrypter together are a SealedChannel, however
\* buffers are overwritten and keys replaced.
THEOREM ImplementsChannelAlways == ExchangeSpec => ImplementsChannel
<1>1. ExchangeInv /\ ExchangeInv' /\ [ExchangeNext]_exchangeVars => [Channel!Next]_(Channel!vars)
  BY ChannelNext
<1> QED
  BY <1>1, ChannelInit, ExchangeInvAlways, PTL DEF ExchangeSpec, ImplementsChannel, Channel!Spec
=============================================================================
