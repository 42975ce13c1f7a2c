-------------------------- MODULE JWSVerifierProofs --------------------------
(***************************************************************************)
(* For any messages, resolvers, key sets and number of concurrent calls:   *)
(* jws.Verifier verifies exactly what its resolver trusts, and a rotation  *)
(* never substitutes one key for another.                                  *)
(***************************************************************************)
EXTENDS JWSVerifierProps, FiniteSetTheorems, TLAPS

-----------------------------------------------------------------------------
(* Resolution: what StaticResolve answers is what the key material says.   *)

LEMMA KeyArguments ==
    \A r \in Resolvers :
       /\ r.kind \in {"nil", "raw", "jwk", "jwks", "function"}
       /\ r.kind = "raw" => r.material \in Material \cup {NilMaterial}
       /\ r.kind = "jwk" => r.jwk \in JWKs
       /\ r.kind = "jwks" => r.keys \in Seq(JWKs)
       /\ IsFunction(r) => r.answers \in [KeyHints \cup {NoKid} -> Replies]
  BY VerifierAssumption DEF KeyArgument

\* A raw key is the one entry of its key material.
LEMMA RawEntry ==
    ASSUME NEW r, r.kind = "raw"
    PROVE  /\ DOMAIN Entries(r) = {1}
           /\ Len(Entries(r)) = 1
           /\ Entries(r)[1].material = r.material
           /\ Entries(r)[1].keyID = NoKid
           /\ Entries(r)[1].alg = NoAlgorithm
           /\ Entries(r)[1].use = ""
<1> DEFINE e == [material |-> r.material, keyID |-> NoKid,
                 alg |-> NoAlgorithm, use |-> ""]
<1>1. Entries(r) = <<e>>
  BY DEF Entries
<1> HIDE DEF e
<1>2. DOMAIN <<e>> = {1} /\ Len(<<e>>) = 1 /\ <<e>>[1] = e
  OBVIOUS
<1>3. /\ e.material = r.material /\ e.keyID = NoKid
      /\ e.alg = NoAlgorithm /\ e.use = ""
  BY DEF e
<1> QED
  BY <1>1, <1>2, <1>3

\* The entries of well-typed key material are JWKs.
LEMMA EntriesType ==
    ASSUME NEW r \in Resolvers, ~ IsFunction(r), ValidKeyArgument(r)
    PROVE  /\ Entries(r) \in Seq(JWKs)
           /\ DOMAIN Entries(r) = 1 .. Len(Entries(r))
           /\ Len(Entries(r)) \in Nat
<1>1. Entries(r) \in Seq(JWKs)
  <2>1. CASE r.kind = "raw"
    <3> DEFINE e == [material |-> r.material, keyID |-> NoKid,
                     alg |-> NoAlgorithm, use |-> ""]
    <3>1. e \in JWKs
      BY <2>1, VerifierAssumption, KeyArguments DEF JWKs
    <3>2. Entries(r) = <<e>>
      BY <2>1 DEF Entries
    <3> HIDE DEF e
    <3> QED
      BY <3>1, <3>2
  <2>2. CASE r.kind = "jwk"
    BY <2>2, VerifierAssumption, KeyArguments DEF Entries
  <2>3. CASE r.kind = "jwks"
    BY <2>3, VerifierAssumption, KeyArguments DEF Entries
  <2> QED
    BY <2>1, <2>2, <2>3, VerifierAssumption, KeyArguments DEF ValidKeyArgument, IsFunction
<1> QED
  BY <1>1

\* The entries of key material that apply to a header.
Applicable(r, header) ==
    {i \in DOMAIN Entries(r) : Applies(Entries(r)[i], r, header)}

\* The keys newJWKSResolver finds are those that apply.
LEMMA MatchesApply ==
    ASSUME NEW r \in Resolvers, r.kind = "jwks", NEW header
    PROVE  Matches(r.keys, header) = Applicable(r, header)
<1>1. /\ r.keys \in Seq(JWKs) /\ Entries(r) = r.keys
      /\ DOMAIN r.keys = 1 .. Len(r.keys)
  BY VerifierAssumption, KeyArguments DEF Entries
<1>2. ASSUME NEW i \in DOMAIN r.keys
      PROVE  r.keys[i] \in JWKs
  BY <1>1
<1> QED
  BY <1>1, <1>2 DEF Matches, Applicable, Applies, Usable, ForAlgorithm, JWKs

\* A set of places of a sequence with one element, or with more than one.
LEMMA OneOrMore ==
    ASSUME NEW n \in Nat, NEW S \in SUBSET (1 .. n), S # {}
    PROVE  /\ Cardinality(S) > 1 <=> \A i \in S : S # {i}
           /\ \A i \in S : S = {i} => i = CHOOSE j \in S : TRUE
<1>1. IsFiniteSet(S) /\ Cardinality(S) \in Nat
  <2>1. IsFiniteSet(1 .. n)
    BY FS_Interval
  <2> QED
    BY <2>1, FS_Subset, FS_CardinalityType
<1>2. Cardinality(S) # 0
  BY <1>1, FS_EmptySet
<1>3. Cardinality(S) = 1 <=> \E i \in S : S = {i}
  BY <1>1, FS_Singleton
<1> QED
  BY <1>1, <1>2, <1>3

\* An entry that applies answers, or there are several of them.
LEMMA ApplicableEntryAnswers ==
    ASSUME NEW r \in Resolvers, ~ IsFunction(r), ValidKeyArgument(r),
           NEW header, NEW i \in Applicable(r, header)
    PROVE  StaticResolve(r, header)
              = IF Applicable(r, header) = {i}
                THEN Found(Entries(r)[i].keyID, Entries(r)[i].material)
                ELSE Failure("ErrInvalidConfig")
<1>1. /\ DOMAIN Entries(r) = 1 .. Len(Entries(r)) /\ Len(Entries(r)) \in Nat
      /\ Entries(r)[i] \in JWKs
  BY EntriesType DEF Applicable
<1>2. r.kind \in {"raw", "jwk", "jwks"}
  BY VerifierAssumption, KeyArguments DEF IsFunction, ValidKeyArgument
<1>3. CASE r.kind = "raw"
  <2>1. i = 1 /\ Applicable(r, header) = {i}
    <3>1. DOMAIN Entries(r) = {1}
      BY <1>3, RawEntry
    <3> QED
      BY <3>1 DEF Applicable
  <2>2. Entries(r)[i].material = r.material /\ Entries(r)[i].keyID = NoKid
    BY <1>3, <2>1, RawEntry
  <2> QED
    BY <1>3, <2>1, <2>2 DEF StaticResolve
<1>4. CASE r.kind = "jwk"
  <2>1. i = 1 /\ Applicable(r, header) = {i} /\ Entries(r)[i] = r.jwk
    BY <1>4 DEF Applicable, Entries
  <2>2. Applies(r.jwk, r, header)
    BY <2>1 DEF Applicable
  <2> QED
    BY <1>1, <1>4, <2>1, <2>2
       DEF StaticResolve, JWKResolve, Applies, Usable, ForAlgorithm, JWKs
<1>5. CASE r.kind = "jwks"
  <2>1. /\ Matches(r.keys, header) = Applicable(r, header)
        /\ Entries(r) = r.keys
        /\ StaticResolve(r, header) = JWKSResolve(r.keys, header)
    BY <1>5, MatchesApply DEF Entries, StaticResolve
  <2> DEFINE S == Applicable(r, header)
  <2>2. /\ S \in SUBSET (1 .. Len(Entries(r))) /\ S # {}
    BY <1>1 DEF Applicable
  <2>3. CASE S = {i}
    <3>1. i = (CHOOSE j \in S : TRUE) /\ ~ Cardinality(S) > 1
      BY <1>1, <2>2, <2>3, OneOrMore
    <3> QED
      BY <2>1, <2>2, <2>3, <3>1 DEF JWKSResolve
  <2>4. CASE S # {i}
    <3>1. Cardinality(S) > 1
      <4>1. \A j \in S : S # {j}
        BY <2>4
      <4> HIDE DEF S
      <4> QED
        BY <1>1, <2>2, <4>1, OneOrMore
    <3> QED
      BY <2>1, <2>2, <2>4, <3>1 DEF JWKSResolve
  <2> QED
    BY <2>3, <2>4
<1> QED
  BY <1>2, <1>3, <1>4, <1>5

\* Without an entry that applies there is no key.
LEMMA NoEntryNoKey ==
    ASSUME NEW r \in Resolvers, ~ IsFunction(r), ValidKeyArgument(r),
           NEW header, Applicable(r, header) = {}
    PROVE  \/ StaticResolve(r, header).error # "none"
           \/ StaticResolve(r, header).material = NilMaterial
<1>1. r.kind \in {"raw", "jwk", "jwks"}
  BY VerifierAssumption, KeyArguments DEF IsFunction, ValidKeyArgument
<1>2. CASE r.kind = "raw"
  <2>1. Applies(Entries(r)[1], r, header) /\ 1 \in DOMAIN Entries(r)
    <3>1. /\ DOMAIN Entries(r) = {1}
          /\ Entries(r)[1].material = r.material
          /\ Entries(r)[1].keyID = NoKid
          /\ Entries(r)[1].alg = NoAlgorithm
          /\ Entries(r)[1].use = ""
      BY <1>2, RawEntry
    <3> QED
      BY <1>2, <3>1 DEF Applies, ValidKeyArgument
  <2> QED
    BY <2>1 DEF Applicable
<1>3. CASE r.kind = "jwk"
  <2>1. ~ Applies(r.jwk, r, header) /\ r.jwk \in JWKs
    BY <1>3, VerifierAssumption, KeyArguments DEF Applicable, Entries
  <2> QED
    BY <1>3, <2>1 DEF StaticResolve, JWKResolve, Applies, Usable, ForAlgorithm,
                      JWKs, Failure, Found, ValidKeyArgument
<1>4. CASE r.kind = "jwks"
  BY <1>4, MatchesApply DEF StaticResolve, JWKSResolve, Failure
<1> QED
  BY <1>1, <1>2, <1>3, <1>4

\* What a resolver answers is what it trusts, and the other way round: the
\* four implementations of Resolve against the reference, entry by entry.
LEMMA AnsweredIsTrusted ==
    ASSUME NEW r \in Resolvers, ValidKeyArgument(r), NEW header \in Headers,
           NEW keyID, NEW material, material # NilMaterial
    PROVE  Answer(r, header) = Found(keyID, material)
              <=> Trusts(r, header, keyID, material)
<1>1. CASE IsFunction(r)
  BY <1>1 DEF Answer, Trusts
<1>2. CASE ~ IsFunction(r)
  <2>1. Answer(r, header) = StaticResolve(r, header)
    BY <1>2 DEF Answer
  <2>2. Trusts(r, header, keyID, material)
           <=> \E i \in Applicable(r, header) :
                  /\ Applicable(r, header) = {i}
                  /\ Entries(r)[i].material = material
                  /\ Entries(r)[i].keyID = keyID
    BY <1>2 DEF Trusts, Applicable
  <2>3. CASE Applicable(r, header) = {}
    BY <1>2, <2>1, <2>2, <2>3, NoEntryNoKey DEF Found
  <2>4. ASSUME NEW i \in Applicable(r, header)
        PROVE  Answer(r, header) = Found(keyID, material)
                  <=> Trusts(r, header, keyID, material)
    <3>1. StaticResolve(r, header)
             = IF Applicable(r, header) = {i}
               THEN Found(Entries(r)[i].keyID, Entries(r)[i].material)
               ELSE Failure("ErrInvalidConfig")
      BY <1>2, ApplicableEntryAnswers
    <3>2. ASSUME NEW k, NEW m
          PROVE  Found(k, m) = Found(keyID, material)
                    <=> k = keyID /\ m = material
      BY DEF Found
    <3>3. Failure("ErrInvalidConfig") # Found(keyID, material)
      BY DEF Failure, Found
    <3> QED
      BY <2>1, <2>2, <3>1, <3>2, <3>3
  <2> QED
    BY <2>3, <2>4
<1> QED
  BY <1>1, <1>2

-----------------------------------------------------------------------------
(* Calls.                                                                  *)

\* The checks that come before the resolver are behind the call.
Admitted(c) ==
    /\ payload[c] \notin LargePayloads
    /\ token[c].header.alg \in AllowedAlgorithms
    /\ HeaderError(token[c].header) = "none"

\* The resolver r is no reason to verify the message.
Refuted(c, r) ==
    \/ token[c].signer = NilMaterial
    \/ token[c].signed # payload[c]
    \/ \A keyID \in KeyHints \cup {NoKid} :
          Answer(r, token[c].header) # Found(keyID, token[c].signer)

\* Overwritten material is that of a raw secret, which the resolver copied.
WipesCopies == Wipeable \subseteq ByteMaterial

\* Why a call is where it is, by a resolver in force since it began.
CallInv(c) ==
    /\ InProgress(c) => resolver \in seen[c]
    /\ IsFiniteSet(seen[c]) /\ \A r \in seen[c] : ValidKeyArgument(r)
    /\ InProgress(c) \/ outcome[c] = "verified" => Admitted(c)
    /\ pc[c] = "verifying" =>
          \E r \in seen[c] : Answer(r, token[c].header) = resolved[c]
                             /\ resolved[c].error = "none"
    /\ outcome[c] = "verified" =>
          /\ token[c].signer # NilMaterial /\ token[c].signed = payload[c]
          /\ \E r \in seen[c] : Answer(r, token[c].header)
                                   = Found(verifiedID[c], token[c].signer)
    /\ WipesCopies /\ pc[c] = "done" /\ outcome[c] \notin CallErrors \cup {"verified"}
          => \E r \in seen[c] : Refuted(c, r)

IInv == TypeOK /\ \A c \in Calls : CallInv(c)

\* What a step that is not one of c's leaves alone in c.
Kept(c) ==
    /\ pc'[c] = pc[c] /\ token'[c] = token[c] /\ payload'[c] = payload[c]
    /\ resolved'[c] = resolved[c] /\ outcome'[c] = outcome[c]
    /\ verifiedID'[c] = verifiedID[c] /\ seen[c] \subseteq seen'[c]

LEMMA KeptCall ==
    ASSUME IInv, NEW c \in Calls, Kept(c),
           InProgress(c) => resolver' \in seen'[c],
           IsFiniteSet(seen'[c]), \A r \in seen'[c] : ValidKeyArgument(r)
    PROVE  CallInv(c)'
<1>1. Admitted(c) => Admitted(c)'
  BY DEF Kept, Admitted
<1>2. \A r \in seen[c] : Refuted(c, r) => Refuted(c, r)'
  BY DEF Kept, Refuted
<1> QED
  BY <1>1, <1>2 DEF IInv, Kept, CallInv, InProgress

-----------------------------------------------------------------------------
(* Types.                                                                  *)

LEMMA NoTokenType == NoToken \in TokenType
BY VerifierAssumption, KeyArguments DEF NoToken, TokenType, Headers

\* What a resolver answers is a reply.
LEMMA AnswerType ==
    ASSUME NEW r \in Resolvers, ValidKeyArgument(r), NEW header \in Headers
    PROVE  Answer(r, header) \in Replies
<1>1. \A keyID \in KeyHints \cup {NoKid} : \A material \in Material \cup {NilMaterial} :
         Found(keyID, material) \in Replies
  BY DEF Found, Replies
<1>2. \A error \in {"ErrKeyNotFound", "ErrInvalidConfig"} :
         Failure(error) \in Replies
  BY DEF Failure, Replies
<1>3. CASE IsFunction(r)
  BY <1>3, VerifierAssumption, KeyArguments DEF Answer, Headers
<1>4. CASE r.kind = "raw"
  BY <1>1, <1>4, VerifierAssumption, KeyArguments DEF Answer, IsFunction, StaticResolve
<1>5. CASE r.kind = "jwk"
  BY <1>1, <1>2, <1>5, VerifierAssumption, KeyArguments
     DEF Answer, IsFunction, StaticResolve, JWKResolve, JWKs
<1>6. CASE r.kind = "jwks"
  <2>1. Answer(r, header) = JWKSResolve(r.keys, header)
    BY <1>6 DEF Answer, IsFunction, StaticResolve
  <2>2. CASE Matches(r.keys, header) = {}
    BY <1>2, <2>1, <2>2 DEF JWKSResolve
  <2>3. CASE Matches(r.keys, header) # {}
    <3> DEFINE i == CHOOSE i \in Matches(r.keys, header) : TRUE
    <3>1. i \in Matches(r.keys, header)
      BY <2>3
    <3>2. r.keys[i] \in JWKs
      <4>1. r.keys \in Seq(JWKs)
        BY <1>6, VerifierAssumption, KeyArguments
      <4>2. i \in DOMAIN r.keys
        BY <3>1 DEF Matches
      <4> HIDE DEF i
      <4> QED
        BY <4>1, <4>2
    <3>3. Found(r.keys[i].keyID, r.keys[i].material) \in Replies
      BY <1>1, <3>2 DEF JWKs
    <3> QED
      BY <1>2, <2>1, <2>3, <3>3 DEF JWKSResolve
  <2> QED
    BY <2>2, <2>3
<1> QED
  BY <1>3, <1>4, <1>5, <1>6, VerifierAssumption, KeyArguments DEF ValidKeyArgument, IsFunction

LEMMA ReplyType ==
    ASSUME TypeOK, NEW c \in Calls
    PROVE  Reply(c) \in Replies
<1>1. token[c].header \in Headers
  BY DEF TypeOK, TokenType
<1> QED
  BY <1>1, AnswerType DEF TypeOK, Reply

\* The checks before the resolver fail with errors of their own.
LEMMA ErrorsType ==
    ASSUME NEW t, NEW p
    PROVE  /\ MessageError(t) \in CallErrors \cup {"none"}
           /\ DetachedError(t, p) \in CallErrors \cup {"none"}
           /\ MessageError(t) = "none" =>
                 /\ t.embedded \notin LargePayloads
                 /\ t.header.alg \in AllowedAlgorithms
                 /\ HeaderError(t.header) = "none"
           /\ DetachedError(t, p) = "none" =>
                 /\ p \notin LargePayloads \cup {NilPayload}
                 /\ t.header.alg \in AllowedAlgorithms
                 /\ HeaderError(t.header) = "none"
<1>1. HeaderError(t.header) \in CallErrors \cup {"none"}
  BY DEF HeaderError, CallErrors
<1>2. RawTokenError(t) \in CallErrors \cup {"none"}
  BY DEF RawTokenError, CallErrors
<1>3. /\ PayloadError(p) \in CallErrors \cup {"none"}
      /\ PayloadError(p) = "none" => p \notin LargePayloads \cup {NilPayload}
  BY DEF PayloadError, CallErrors
<1> QED
  BY <1>1, <1>2, <1>3
     DEF MessageError, DetachedError, ParseSignedCompact, ParseDetached,
         CallErrors

LEMMA BeginType ==
    ASSUME TypeOK, NEW c \in Calls, NEW t \in TokenType, NEW p,
           NEW error \in CallErrors \cup {"none"},
           error = "none" => p \in Payloads,
           Begin(c, t, error, p)
    PROVE  TypeOK'
BY DEF Begin, TypeOK, Return, Errors, CallErrors

\* The two kinds of call are one step of the verifier.
LEMMA CallBegins ==
    ASSUME NEW c \in Calls, VerifyMessage(c) \/ VerifyDetached(c)
    PROVE  \E t \in TokenType, p \in Payloads \cup {NilPayload},
              error \in CallErrors \cup {"none"} :
              /\ Begin(c, t, error, p)
              /\ error = "none" =>
                    /\ p \in Payloads \ LargePayloads
                    /\ t.header.alg \in AllowedAlgorithms
                    /\ HeaderError(t.header) = "none"
<1>1. CASE VerifyMessage(c)
  <2>1. PICK t \in Tokens : Begin(c, t, MessageError(t), t.embedded)
    BY <1>1 DEF VerifyMessage
  <2>2. t \in TokenType /\ t.embedded \in Payloads
    BY VerifierAssumption, KeyArguments DEF TokenType
  <2> QED
    BY <2>1, <2>2, ErrorsType
<1>2. CASE VerifyDetached(c)
  <2>1. PICK t \in Tokens, p \in Payloads \cup {NilPayload} :
            Begin(c, t, DetachedError(t, p), p)
    BY <1>2 DEF VerifyDetached
  <2>2. t \in TokenType
    BY VerifierAssumption, KeyArguments
  <2> QED
    BY <2>1, <2>2, ErrorsType
<1> QED
  BY <1>1, <1>2

\* The application only puts acceptable key arguments in force.
LEMMA FunctionIsValid ==
    ASSUME NEW r, IsFunction(r)
    PROVE  ValidKeyArgument(r)
BY DEF IsFunction, ValidKeyArgument

LEMMA TypeStep == TypeOK /\ [Next]_vars => TypeOK'
<1> SUFFICES ASSUME TypeOK, [Next]_vars
             PROVE  TypeOK'
  OBVIOUS
<1>1. CASE UNCHANGED vars
  BY <1>1 DEF vars, TypeOK
<1>2. ASSUME NEW c \in Calls, VerifyMessage(c) \/ VerifyDetached(c)
      PROVE  TypeOK'
  BY <1>2, CallBegins, BeginType
<1>3. ASSUME NEW c \in Calls, ResolverFailure(c)
      PROVE  TypeOK'
  <2>1. Reply(c).error \in Errors /\ Reply(c).error # "verified"
    BY <1>3, ReplyType DEF ResolverFailure, Replies, Errors
  <2> QED
    BY <1>3, <2>1 DEF ResolverFailure, TypeOK, Return, given, Errors
<1>4. ASSUME NEW c \in Calls, NilKeyResolved(c) \/ SignatureInvalid(c)
      PROVE  TypeOK'
  BY <1>4 DEF NilKeyResolved, SignatureInvalid, TypeOK, Return, given, Errors
<1>5. ASSUME NEW c \in Calls, KeyResolved(c)
      PROVE  TypeOK'
  BY <1>5, ReplyType DEF KeyResolved, TypeOK, given
<1>6. ASSUME NEW c \in Calls, Verified(c)
      PROVE  TypeOK'
  <2>1. resolved[c].keyID \in KeyHints \cup {NoKid}
    BY DEF TypeOK, Replies
  <2> QED
    BY <1>6, <2>1 DEF Verified, TypeOK, Return, given
<1>7. CASE ChangeAnswers
  BY <1>7, FunctionIsValid DEF ChangeAnswers, Record, TypeOK
<1>8. CASE Rebuild
  BY <1>8 DEF Rebuild, TypeOK
<1>9. ASSUME NEW material \in Wipeable, Wipe(material)
      PROVE  TypeOK'
  BY <1>9 DEF Wipe, TypeOK
<1> QED
  BY <1>1, <1>2, <1>3, <1>4, <1>5, <1>6, <1>7, <1>8, <1>9 DEF Next, Step

\* Every variable keeps its type, and no nil key reaches the library.
THEOREM TypeCorrect == Spec => []TypeOK
<1>1. Init => TypeOK
  BY NoTokenType, VerifierAssumption, KeyArguments
     DEF Init, TypeOK, Failure, Replies
<1> QED
  BY <1>1, TypeStep, PTL DEF Spec

-----------------------------------------------------------------------------
\* A step of one call leaves every other call as it is.
LEMMA OtherCalls ==
    ASSUME IInv, NEW d \in Calls, NEW c \in Calls, c # d,
           VerifyMessage(d) \/ VerifyDetached(d) \/ Step(d)
    PROVE  CallInv(c)'
<1> USE DEF IInv
<1>1. CASE VerifyMessage(d) \/ VerifyDetached(d)
  <2>1. Kept(c) /\ resolver' = resolver /\ seen'[c] = seen[c]
    BY <1>1, CallBegins DEF Begin, TypeOK, Kept, Return
  <2> QED
    BY <2>1, KeptCall DEF CallInv
<1>2. CASE Step(d)
  <2>1. Kept(c) /\ resolver' = resolver /\ seen'[c] = seen[c]
    BY <1>2 DEF Step, ResolverFailure, NilKeyResolved, KeyResolved,
                SignatureInvalid, Verified, Return, given, TypeOK, Kept
  <2> QED
    BY <2>1, KeptCall DEF CallInv
<1> QED
  BY <1>1, <1>2

\* A step of a call keeps the invariant of that call.
LEMMA OwnCall ==
    ASSUME IInv, NEW c \in Calls, VerifyMessage(c) \/ VerifyDetached(c) \/ Step(c)
    PROVE  CallInv(c)'
<1> USE DEF IInv
<1>0. Step(c) => /\ token' = token /\ payload' = payload /\ seen' = seen
                 /\ (Admitted(c) => Admitted(c)')
                 /\ \A r \in seen[c] : Refuted(c, r) => Refuted(c, r)'
                 /\ InProgress(c)
  BY DEF Step, ResolverFailure, NilKeyResolved, KeyResolved,
         SignatureInvalid, Verified, given, Admitted, Refuted, InProgress
<1>1. CASE VerifyMessage(c) \/ VerifyDetached(c)
  <2>1. PICK t \in TokenType, p \in Payloads \cup {NilPayload},
             error \in CallErrors \cup {"none"} :
              /\ Begin(c, t, error, p)
              /\ error = "none" =>
                    /\ p \in Payloads \ LargePayloads
                    /\ t.header.alg \in AllowedAlgorithms
                    /\ HeaderError(t.header) = "none"
    BY <1>1, CallBegins
  <2>2. /\ token'[c] = t /\ seen'[c] = {resolver} /\ resolver' = resolver
        /\ IsFiniteSet(seen'[c])
    BY <2>1, FS_Singleton DEF Begin, TypeOK
  <2>3. CASE error = "none"
    <3>1. pc'[c] = "resolving" /\ payload'[c] = p /\ outcome'[c] = "none"
      BY <2>1, <2>3 DEF Begin, TypeOK
    <3>2. Admitted(c)'
      BY <2>1, <2>2, <2>3, <3>1 DEF Admitted
    <3> QED
      BY <2>2, <3>1, <3>2 DEF CallInv, InProgress, TypeOK
  <2>4. CASE error # "none"
    <3>1. pc'[c] = "done" /\ outcome'[c] = error
      BY <2>1, <2>4 DEF Begin, TypeOK, Return
    <3> QED
      BY <2>1, <2>2, <2>4, <3>1 DEF CallInv, InProgress, TypeOK, CallErrors
  <2> QED
    BY <2>3, <2>4
<1>2. CASE KeyResolved(c)
  <2>1. /\ pc'[c] = "verifying" /\ outcome'[c] = outcome[c]
        /\ resolved'[c] = Answer(resolver, token[c].header)
        /\ resolver' = resolver /\ pc[c] = "resolving"
        /\ resolved'[c].error = "none"
    BY <1>2 DEF KeyResolved, TypeOK, given, Reply
  <2> QED
    BY <1>0, <1>2, <2>1 DEF CallInv, InProgress, TypeOK, Step
<1>3. CASE ResolverFailure(c) \/ NilKeyResolved(c)
  <2>1. /\ pc'[c] = "done" /\ outcome'[c] # "verified"
        /\ resolver' = resolver /\ pc[c] = "resolving"
    BY <1>3, ReplyType
       DEF ResolverFailure, NilKeyResolved, TypeOK, given, Return, Replies
  <2>2. Refuted(c, resolver)
    BY <1>3 DEF ResolverFailure, NilKeyResolved, Reply, Refuted, Found
  <2> QED
    BY <1>0, <1>3, <2>1, <2>2 DEF CallInv, InProgress, Step
<1>4. CASE SignatureInvalid(c)
  <2>1. /\ pc'[c] = "done" /\ outcome'[c] # "verified"
        /\ resolver' = resolver /\ pc[c] = "verifying"
    BY <1>4 DEF SignatureInvalid, TypeOK, given, Return
  <2>2. PICK r \in seen[c] : /\ Answer(r, token[c].header) = resolved[c]
                             /\ resolved[c].error = "none"
    BY <2>1 DEF CallInv
  <2>3. WipesCopies => Refuted(c, r)
    <3>1. WipesCopies => Intact(resolved[c].material)
      BY DEF WipesCopies, Intact, Cloned, TypeOK
    <3> QED
      BY <1>4, <2>2, <3>1 DEF SignatureInvalid, SignatureValid, Refuted, Found
  <2> QED
    BY <1>0, <1>4, <2>1, <2>2, <2>3 DEF CallInv, InProgress, Step
<1>5. CASE Verified(c)
  <2>1. /\ pc'[c] = "done" /\ outcome'[c] = "verified"
        /\ resolver' = resolver /\ pc[c] = "verifying"
        /\ verifiedID'[c] = resolved[c].keyID
        /\ token[c].signer = resolved[c].material
        /\ token[c].signed = payload[c]
        /\ resolved[c].material # NilMaterial
    BY <1>5 DEF Verified, TypeOK, given, Return, SignatureValid
  <2>2. PICK r \in seen[c] : /\ Answer(r, token[c].header) = resolved[c]
                             /\ resolved[c].error = "none"
    BY <2>1 DEF CallInv
  <2>3. Answer(r, token[c].header) = Found(verifiedID'[c], token[c].signer)
    <3>1. resolved[c] \in Replies
      BY DEF TypeOK
    <3> QED
      BY <2>1, <2>2, <3>1 DEF Found, Replies
  <2> QED
    BY <1>0, <1>5, <2>1, <2>2, <2>3 DEF CallInv, InProgress, Step
<1> QED
  BY <1>1, <1>2, <1>3, <1>4, <1>5 DEF Step

LEMMA EnvironmentCalls ==
    ASSUME IInv, NEW c \in Calls,
           \/ ChangeAnswers \/ Rebuild \/ UNCHANGED vars
           \/ \E material \in Wipeable : Wipe(material)
    PROVE  CallInv(c)'
<1> USE DEF IInv
<1>1. Kept(c) /\ (InProgress(c) => resolver' \in seen'[c])
  BY DEF ChangeAnswers, Rebuild, Wipe, vars, Record, Kept, TypeOK, CallInv
<1>2. \A r \in seen'[c] : ValidKeyArgument(r)
  BY FunctionIsValid
     DEF ChangeAnswers, Rebuild, Wipe, vars, Record, TypeOK, CallInv
<1>3. IsFiniteSet(seen'[c])
  <2>1. PICK r : seen'[c] \in {seen[c], seen[c] \cup {r}}
    BY DEF ChangeAnswers, Rebuild, Wipe, vars, Record, TypeOK
  <2>2. IsFiniteSet(seen[c])
    BY DEF CallInv
  <2> QED
    BY <2>1, <2>2, FS_AddElement
<1> QED
  BY <1>1, <1>2, <1>3, KeptCall

THEOREM IInvAlways == Spec => []IInv
<1>1. Init => IInv
  <2> SUFFICES ASSUME Init
               PROVE  IInv
    OBVIOUS
  <2>1. TypeOK
    BY NoTokenType, VerifierAssumption, KeyArguments DEF Init, TypeOK, Failure, Replies
  <2>2. ASSUME NEW c \in Calls
        PROVE  CallInv(c)
    BY FS_EmptySet DEF Init, CallInv, InProgress
  <2> QED
    BY <2>1, <2>2 DEF IInv
<1>2. IInv /\ [Next]_vars => IInv'
  <2> SUFFICES ASSUME IInv, [Next]_vars, NEW c \in Calls
               PROVE  CallInv(c)'
    BY TypeStep DEF IInv
  <2>1. ASSUME NEW d \in Calls, VerifyMessage(d) \/ VerifyDetached(d) \/ Step(d)
        PROVE  CallInv(c)'
    BY <2>1, OtherCalls, OwnCall
  <2> QED
    BY <2>1, EnvironmentCalls DEF Next
<1> QED
  BY <1>1, <1>2, PTL DEF Spec

-----------------------------------------------------------------------------
(* What follows.                                                           *)

\* What is verified was signed by a key the resolver of that call trusts for
\* the message, for the identity returned.
THEOREM VerifiedIsTrustedAlways == Spec => []VerifiedIsTrusted
<1>1. IInv => VerifiedIsTrusted
  <2> SUFFICES ASSUME IInv, NEW c \in Calls, outcome[c] = "verified"
               PROVE  /\ payload[c] \notin LargePayloads
                      /\ token[c].header.alg \in AllowedAlgorithms
                      /\ HeaderError(token[c].header) = "none"
                      /\ token[c].signed = payload[c]
                      /\ \E r \in seen[c] :
                            Trusts(r, token[c].header, verifiedID[c],
                                   token[c].signer)
    BY DEF VerifiedIsTrusted
  <2>1. Admitted(c) /\ token[c].signed = payload[c]
    BY DEF IInv, CallInv
  <2>2. PICK r \in seen[c] : Answer(r, token[c].header)
                                = Found(verifiedID[c], token[c].signer)
    BY DEF IInv, CallInv
  <2>3. /\ r \in Resolvers /\ ValidKeyArgument(r)
        /\ token[c].header \in Headers
        /\ token[c].signer # NilMaterial
    BY DEF IInv, CallInv, TypeOK, TokenType
  <2>4. Trusts(r, token[c].header, verifiedID[c], token[c].signer)
    BY <2>2, <2>3, AnsweredIsTrusted
  <2> QED
    BY <2>1, <2>4 DEF Admitted
<1> QED
  BY <1>1, IInvAlways, PTL

\* While its resolver answers the same, a call that gets as far as the
\* resolver verifies exactly the genuine messages, if what the application
\* overwrites is material the verifier has copied.
THEOREM UndisturbedVerdictAlways ==
    ASSUME WipesCopies
    PROVE  Spec => []UndisturbedVerdict
<1>1. IInv => UndisturbedVerdict
  <2> SUFFICES ASSUME IInv, NEW c \in Calls, NEW r \in seen[c],
                      Undisturbed(c), outcome[c] \notin CallErrors
               PROVE  outcome[c] = "verified" <=> Genuine(c, r)
    BY DEF UndisturbedVerdict
  <2>1. /\ r \in Resolvers /\ ValidKeyArgument(r)
        /\ token[c].header \in Headers
        /\ verifiedID[c] \in KeyHints \cup {NoKid}
    BY DEF IInv, CallInv, TypeOK, TokenType
  <2>2. \A q \in seen[c] : q = r
    <3>1. PICK q : seen[c] = {q}
      <4>1. IsFiniteSet(seen[c]) /\ Cardinality(seen[c]) = 1
        BY DEF Undisturbed, IInv, CallInv
      <4> QED
        BY <4>1, FS_Singleton
    <3> QED
      BY <3>1
  <2>3. CASE outcome[c] = "verified"
    <3>1. /\ token[c].signer # NilMaterial /\ token[c].signed = payload[c]
          /\ Answer(r, token[c].header) = Found(verifiedID[c], token[c].signer)
      BY <2>2, <2>3 DEF IInv, CallInv
    <3> QED
      BY <2>1, <2>3, <3>1, AnsweredIsTrusted DEF Genuine
  <2>4. CASE outcome[c] # "verified"
    <3>1. Refuted(c, r)
      BY <2>2, <2>4 DEF IInv, CallInv, Undisturbed
    <3> QED
      BY <2>1, <2>4, <3>1, AnsweredIsTrusted DEF Refuted, Genuine
  <2> QED
    BY <2>3, <2>4
<1> QED
  BY <1>1, IInvAlways, PTL

\* A rebuilt verifier in which the key that answered a header is still
\* trusted for it answers with that key or calls the header ambiguous.
THEOREM RotationNeverSubstitutesAlways == Spec => RotationNeverSubstitutes
<1> DEFINE A == ~ IsFunction(resolver) /\ ~ IsFunction(resolver') =>
        \A header \in HeadersSeen :
          LET before == StaticResolve(resolver, header)
              after == StaticResolve(resolver', header)
          IN /\ before.error = "none"
             /\ \E i \in DOMAIN Entries(resolver') :
                   /\ Applies(Entries(resolver')[i], resolver', header)
                   /\ Entries(resolver')[i].material = before.material
                   /\ Entries(resolver')[i].keyID = before.keyID
             => after = before \/ after = Failure("ErrInvalidConfig")
<1>1. TypeOK /\ TypeOK' => A
  <2> SUFFICES ASSUME TypeOK, TypeOK',
                      ~ IsFunction(resolver), ~ IsFunction(resolver'),
                      NEW header \in HeadersSeen,
                      StaticResolve(resolver, header).error = "none",
                      NEW i \in DOMAIN Entries(resolver'),
                      Applies(Entries(resolver')[i], resolver', header),
                      Entries(resolver')[i].material
                         = StaticResolve(resolver, header).material,
                      Entries(resolver')[i].keyID
                         = StaticResolve(resolver, header).keyID
               PROVE  \/ StaticResolve(resolver', header)
                            = StaticResolve(resolver, header)
                      \/ StaticResolve(resolver', header)
                            = Failure("ErrInvalidConfig")
    OBVIOUS
  <2>1. /\ resolver \in Resolvers /\ ValidKeyArgument(resolver)
        /\ resolver' \in Resolvers /\ ValidKeyArgument(resolver')
        /\ header \in Headers
    BY VerifierAssumption, KeyArguments DEF TypeOK, HeadersSeen, TokenType
  <2>2. StaticResolve(resolver, header) \in Replies
    BY <2>1, AnswerType DEF Answer
  <2>3. StaticResolve(resolver, header)
           = Found(Entries(resolver')[i].keyID, Entries(resolver')[i].material)
    BY <2>2 DEF Replies, Found
  <2>4. i \in Applicable(resolver', header)
    BY DEF Applicable
  <2>5. StaticResolve(resolver', header)
           = IF Applicable(resolver', header) = {i}
             THEN Found(Entries(resolver')[i].keyID,
                        Entries(resolver')[i].material)
             ELSE Failure("ErrInvalidConfig")
    BY <2>1, <2>4, ApplicableEntryAnswers
  <2> QED
    BY <2>3, <2>5
<1>2. TypeOK /\ TypeOK' => [A]_vars
  BY <1>1
<1> QED
  BY <1>2, TypeCorrect, PTL DEF Spec, RotationNeverSubstitutes
=============================================================================
