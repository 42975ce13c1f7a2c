-------------------------- MODULE JWTVerifierProofs --------------------------
(***************************************************************************)
(* For any tokens, keys, resolvers, configurations, clocks and number of   *)
(* concurrent callers: jwt.Verifier accepts only what is authentic and     *)
(* timely, tells nothing of the content of an unauthentic token, and, left *)
(* alone by resolver and clock, accepts exactly the fit tokens. For any    *)
(* options and claims, its policy is what the options that count promise,  *)
(* and a later reading of the clock changes its verdict in one direction.  *)
(***************************************************************************)
EXTENDS JWTVerifierProps, JWTPolicyEvaluation, FiniteSetTheorems, TLAPS

-----------------------------------------------------------------------------
(* The policy on its own: configured and judging, by JWTPolicyEvaluation.  *)

EvaluationTypeOK ==
    /\ phase \in {"configuring", "refused", "ready"}
    /\ options \in Seq({o \in Options : ValidOption(o)})
    /\ built \in Configs
    /\ presented \in ClaimSets
    /\ reading \in Int
    /\ delay \in Nat

\* The options that count are one of each slot.
OneOfEachSlot ==
    \A o, p \in Effective : Slot(o) = Slot(p) => o = p

\* What an option leaves in its field of the configuration.
Chosen(kind, value, default) ==
    \/ \E o \in Effective : o.kind = kind /\ o.value = value
    \/ value = default /\ \A o \in Effective : o.kind # kind

Given(kinds) == \E o \in Effective : o.kind \in kinds

\* The strengthening: whatever was applied before and replaced since, the
\* configuration holds what the effective options say and nothing else.
ConfigIsEffective ==
    /\ Chosen("issuer", built.issuer, NoText)
    /\ Chosen("subject", built.subject, NoText)
    /\ Chosen("leeway", built.leeway, 0)
    /\ Chosen("maxLifetime", built.maxLifetime, 0)
    /\ Chosen("maxAge", built.maxAge, 0)
    /\ \/ Chosen("audience", built.audiences, {}) /\ built.audienceMode = "any"
          /\ ~ Given({"allAudiences"})
       \/ Chosen("allAudiences", built.audiences, {})
          /\ built.audienceMode = "all" /\ ~ Given({"audience"})
    /\ built.requireExp <=> ~ Given({"allowMissingExpiration"})
    /\ built.requireNBF <=> Given({"requireNotBefore"})
    /\ built.validateIAT <=> Given({"validateIssuedAt", "requireIssuedAt"})
    /\ built.requireIAT <=> Given({"requireIssuedAt"})

EvaluationInv == EvaluationTypeOK /\ OneOfEachSlot /\ ConfigIsEffective

-----------------------------------------------------------------------------
(* Configuring.                                                            *)

\* Applying an option makes it count, instead of that of its slot.
LEMMA EffectiveAfter ==
    ASSUME EvaluationTypeOK, NEW option \in Options, ApplyOption(option)
    PROVE  \A o : o \in Effective' <=> \/ o = option
                                       \/ o \in Effective /\ Slot(o) # Slot(option)
<1> DEFINE n == Len(options)
           new == options'
<1>1. /\ n \in Nat /\ DOMAIN options = 1 .. n
      /\ Len(new) = n + 1 /\ DOMAIN new = 1 .. n + 1
      /\ new[n + 1] = option
      /\ \A i \in 1 .. n : new[i] = options[i]
  BY DEF EvaluationTypeOK, ApplyOption
<1> HIDE DEF n, new
<1>2. Effective = {options[i] : i \in {j \in 1 .. n :
                       \A k \in j + 1 .. n : Slot(options[k]) # Slot(options[j])}}
  BY <1>1 DEF Effective, n
<1>3. Effective' = {new[i] : i \in {j \in 1 .. n + 1 :
                        \A k \in j + 1 .. n + 1 : Slot(new[k]) # Slot(new[j])}}
  BY <1>1 DEF Effective, new
<1>4. ASSUME NEW j \in 1 .. n
      PROVE  (\A k \in j + 1 .. n + 1 : Slot(new[k]) # Slot(new[j]))
             <=> /\ \A k \in j + 1 .. n : Slot(options[k]) # Slot(options[j])
                 /\ Slot(options[j]) # Slot(option)
  <2>1. \A k : k \in j + 1 .. n + 1 <=> k \in j + 1 .. n \/ k = n + 1
    BY <1>1
  <2>2. \A k \in j + 1 .. n : k \in 1 .. n
    BY <1>1
  <2> QED
    BY <1>1, <2>1, <2>2
<1>5. option \in Effective'
  <2>1. n + 1 \in 1 .. n + 1 /\ (n + 1) + 1 .. n + 1 = {}
    BY <1>1
  <2> QED
    BY <1>1, <1>3, <2>1
<1>6. ASSUME NEW o, o \in Effective'
      PROVE  o = option \/ (o \in Effective /\ Slot(o) # Slot(option))
  <2>1. PICK j \in 1 .. n + 1 :
            /\ o = new[j]
            /\ \A k \in j + 1 .. n + 1 : Slot(new[k]) # Slot(new[j])
    BY <1>3, <1>6
  <2>2. CASE j \in 1 .. n
    BY <1>1, <1>2, <1>4, <2>1, <2>2
  <2> QED
    BY <1>1, <2>1, <2>2
<1>7. ASSUME NEW o \in Effective, Slot(o) # Slot(option)
      PROVE  o \in Effective'
  <2>1. PICK j \in 1 .. n :
            /\ o = options[j]
            /\ \A k \in j + 1 .. n : Slot(options[k]) # Slot(options[j])
    BY <1>2
  <2>2. j \in 1 .. n + 1 /\ o = new[j]
    BY <1>1, <2>1
  <2> QED
    BY <1>3, <1>4, <1>7, <2>1, <2>2
<1> QED
  BY <1>5, <1>6, <1>7

LEMMA SameSlot ==
    ASSUME NEW o, NEW p, ValidOption(o), ValidOption(p)
    PROVE  Slot(o) = Slot(p) <=>
              \/ o.kind = p.kind
              \/ {o.kind, p.kind} \subseteq AudienceOptions
              \/ {o.kind, p.kind} \subseteq {"requireExpiration",
                                             "allowMissingExpiration"}
  BY DEF Slot, ValidOption, TextOptions, AudienceOptions, DurationOptions,
         FlagOptions

\* What an option leaves of a configuration.
LEMMA Applied ==
    ASSUME NEW c \in Configs, NEW o, ValidOption(o),
           o.kind \in DurationOptions \cup {"leeway"} => o.value \in Int
    PROVE  LET d == Apply(c, o) IN
           /\ d \in Configs
           /\ d.issuer = IF o.kind = "issuer" THEN o.value ELSE c.issuer
           /\ d.subject = IF o.kind = "subject" THEN o.value ELSE c.subject
           /\ d.leeway = IF o.kind = "leeway" THEN o.value ELSE c.leeway
           /\ d.maxLifetime = IF o.kind = "maxLifetime" THEN o.value
                                                        ELSE c.maxLifetime
           /\ d.maxAge = IF o.kind = "maxAge" THEN o.value ELSE c.maxAge
           /\ d.audiences = IF o.kind \in AudienceOptions THEN o.value
                                                          ELSE c.audiences
           /\ d.audienceMode = IF o.kind = "audience" THEN "any"
                               ELSE IF o.kind = "allAudiences" THEN "all"
                               ELSE c.audienceMode
           /\ d.requireExp <=> \/ o.kind = "requireExpiration"
                               \/ c.requireExp /\ o.kind # "allowMissingExpiration"
           /\ d.requireNBF <=> c.requireNBF \/ o.kind = "requireNotBefore"
           /\ d.validateIAT <=>
                 c.validateIAT \/ o.kind \in {"validateIssuedAt", "requireIssuedAt"}
           /\ d.requireIAT <=> c.requireIAT \/ o.kind = "requireIssuedAt"
<1> USE DEF Configs, AudienceOptions, DurationOptions, ValidOption, TextOptions,
            FlagOptions
<1>1. CASE o.kind = "methods"
  <2>1. Apply(c, o) = [c EXCEPT !.methods = o.value] /\ o.value \in SUBSET Methods
    BY <1>1 DEF Apply
  <2> QED
    BY <1>1, <2>1
<1>2. CASE o.kind = "type"
  <2>1. Apply(c, o) = [c EXCEPT !.typ = o.value] /\ o.value \in Texts
    BY <1>2 DEF Apply
  <2> QED
    BY <1>2, <2>1
<1>3. CASE o.kind = "issuer"
  <2>1. Apply(c, o) = [c EXCEPT !.issuer = o.value] /\ o.value \in Texts
    BY <1>3 DEF Apply
  <2> QED
    BY <1>3, <2>1
<1>4. CASE o.kind = "subject"
  <2>1. Apply(c, o) = [c EXCEPT !.subject = o.value] /\ o.value \in Texts
    BY <1>4 DEF Apply
  <2> QED
    BY <1>4, <2>1
<1>5. CASE o.kind = "leeway"
  <2>1. Apply(c, o) = [c EXCEPT !.leeway = o.value] /\ o.value \in Nat
    BY <1>5 DEF Apply
  <2> QED
    BY <1>5, <2>1
<1>6. CASE o.kind = "maxLifetime"
  <2>1. Apply(c, o) = [c EXCEPT !.maxLifetime = o.value] /\ o.value \in Nat
    BY <1>6 DEF Apply
  <2> QED
    BY <1>6, <2>1
<1>7. CASE o.kind = "maxAge"
  <2>1. Apply(c, o) = [c EXCEPT !.maxAge = o.value] /\ o.value \in Nat
    BY <1>7 DEF Apply
  <2> QED
    BY <1>7, <2>1
<1>8. CASE o.kind = "audience"
  <2>1. /\ Apply(c, o) = [c EXCEPT !.audiences = o.value, !.audienceMode = "any"]
        /\ o.value \in SUBSET Texts
    BY <1>8 DEF Apply
  <2> QED
    BY <1>8, <2>1
<1>9. CASE o.kind = "allAudiences"
  <2>1. /\ Apply(c, o) = [c EXCEPT !.audiences = o.value, !.audienceMode = "all"]
        /\ o.value \in SUBSET Texts
    BY <1>9 DEF Apply
  <2> QED
    BY <1>9, <2>1
<1>10. CASE o.kind \in FlagOptions
  <2>1. Apply(c, o) = ApplyFlag(c, o.kind)
    BY <1>10 DEF Apply
  <2> QED
    BY <1>10, <2>1 DEF ApplyFlag
<1> QED
  BY <1>1, <1>2, <1>3, <1>4, <1>5, <1>6, <1>7, <1>8, <1>9, <1>10

\* A field of the configuration that an option of its own sets.
LEMMA ChosenNext ==
    ASSUME EvaluationTypeOK, NEW option \in Options, ApplyOption(option), NEW kind,
           NEW old, NEW new, NEW default, Chosen(kind, old, default),
           new = IF option.kind = kind THEN option.value ELSE old,
           kind \in TextOptions \cup DurationOptions \cup {"leeway"}
    PROVE  \/ \E o \in Effective' : o.kind = kind /\ o.value = new
           \/ new = default /\ \A o \in Effective' : o.kind # kind
<1>1. ASSUME NEW o \in Effective
      PROVE  /\ ValidOption(o)
             /\ o.kind = kind => (Slot(o) = Slot(option) <=> option.kind = kind)
  <2>1. ValidOption(o) /\ ValidOption(option)
    BY DEF Effective, EvaluationTypeOK, ApplyOption
  <2> QED
    BY <2>1, SameSlot DEF TextOptions, DurationOptions, AudienceOptions
<1>2. CASE option.kind = kind
  BY <1>2, EffectiveAfter
<1>3. CASE option.kind # kind
  <2>1. CASE \E o \in Effective : o.kind = kind /\ o.value = old
    <3>1. PICK o \in Effective : o.kind = kind /\ o.value = old
      BY <2>1
    <3>2. o \in Effective'
      BY <1>1, <1>3, <3>1, EffectiveAfter
    <3> QED
      BY <1>3, <3>1, <3>2
  <2>2. CASE old = default /\ \A o \in Effective : o.kind # kind
    BY <1>3, <2>2, EffectiveAfter
  <2> QED
    BY <2>1, <2>2 DEF Chosen
<1> QED
  BY <1>2, <1>3

\* A flag an option sets for good.
LEMMA GivenNext ==
    ASSUME EvaluationTypeOK, NEW option \in Options, ApplyOption(option), NEW kinds,
           \/ kinds \subseteq {"requireNotBefore", "validateIssuedAt",
                               "requireIssuedAt"}
           \/ kinds = {"allowMissingExpiration"}
              /\ option.kind # "requireExpiration"
    PROVE  (\E o \in Effective' : o.kind \in kinds)
              <=> Given(kinds) \/ option.kind \in kinds
<1>1. ASSUME NEW o \in Effective, o.kind \in kinds, Slot(o) = Slot(option)
      PROVE  option.kind \in kinds
  <2>1. ValidOption(o) /\ ValidOption(option)
    BY DEF Effective, EvaluationTypeOK, ApplyOption
  <2> QED
    BY <1>1, <2>1, SameSlot DEF AudienceOptions
<1> QED
  BY <1>1, EffectiveAfter DEF Given

LEMMA ConfigStep ==
    ASSUME EvaluationInv, NEW option \in Options, ApplyOption(option)
    PROVE  ConfigIsEffective'
<1> USE DEF EvaluationInv
<1>1. /\ built \in Configs /\ built' = Apply(built, option)
      /\ ValidOption(option)
      /\ option.kind \in DurationOptions \cup {"leeway"} => option.value \in Int
  BY EvaluationAssumption DEF EvaluationTypeOK, ApplyOption
<1>2. ConfigIsEffective
  OBVIOUS
<1> DEFINE d == built'
<1>3. /\ d.issuer = IF option.kind = "issuer" THEN option.value ELSE built.issuer
      /\ d.subject = IF option.kind = "subject" THEN option.value
                                                ELSE built.subject
      /\ d.leeway = IF option.kind = "leeway" THEN option.value ELSE built.leeway
      /\ d.maxLifetime = IF option.kind = "maxLifetime" THEN option.value
                                                        ELSE built.maxLifetime
      /\ d.maxAge = IF option.kind = "maxAge" THEN option.value ELSE built.maxAge
      /\ d.audiences = IF option.kind \in AudienceOptions THEN option.value
                                                          ELSE built.audiences
      /\ d.audienceMode = IF option.kind = "audience" THEN "any"
                          ELSE IF option.kind = "allAudiences" THEN "all"
                          ELSE built.audienceMode
      /\ d.requireExp <=> \/ option.kind = "requireExpiration"
                          \/ built.requireExp
                             /\ option.kind # "allowMissingExpiration"
      /\ d.requireNBF <=> built.requireNBF \/ option.kind = "requireNotBefore"
      /\ d.validateIAT <=>
            built.validateIAT
            \/ option.kind \in {"validateIssuedAt", "requireIssuedAt"}
      /\ d.requireIAT <=> built.requireIAT \/ option.kind = "requireIssuedAt"
  BY <1>1, Applied
<1> HIDE DEF d
<1>4. ASSUME NEW field \in {"issuer", "subject", "leeway", "maxLifetime", "maxAge"},
             NEW default, Chosen(field, built[field], default)
      PROVE  Chosen(field, built[field], default)'
  <2>1. d[field] = IF option.kind = field THEN option.value ELSE built[field]
    BY <1>3, <1>4
  <2>2. \/ \E o \in Effective' : o.kind = field /\ o.value = d[field]
        \/ d[field] = default /\ \A o \in Effective' : o.kind # field
    BY <1>4, <2>1, ChosenNext DEF TextOptions, DurationOptions
  <2> QED
    BY <2>2 DEF Chosen, d
<1>5. /\ Chosen("issuer", built.issuer, NoText)'
      /\ Chosen("subject", built.subject, NoText)'
      /\ Chosen("leeway", built.leeway, 0)'
      /\ Chosen("maxLifetime", built.maxLifetime, 0)'
      /\ Chosen("maxAge", built.maxAge, 0)'
  BY <1>2, <1>4 DEF ConfigIsEffective
<1>6. \/ /\ Chosen("audience", built.audiences, {})'
         /\ d.audienceMode = "any" /\ ~ Given({"allAudiences"})'
      \/ /\ Chosen("allAudiences", built.audiences, {})'
         /\ d.audienceMode = "all" /\ ~ Given({"audience"})'
  <2>1. ASSUME NEW o \in Effective
        PROVE  o.kind \in AudienceOptions =>
                  (Slot(o) = Slot(option) <=> option.kind \in AudienceOptions)
    <3>1. ValidOption(o) /\ ValidOption(option)
      BY DEF Effective, EvaluationTypeOK, ApplyOption
    <3> QED
      BY <3>1, SameSlot DEF AudienceOptions
  <2>2. CASE option.kind \in AudienceOptions
    BY <1>3, <2>1, <2>2, EffectiveAfter DEF Chosen, Given, AudienceOptions, d
  <2>3. CASE option.kind \notin AudienceOptions
    <3>1. \A o : o.kind \in AudienceOptions => (o \in Effective' <=> o \in Effective)
      BY <2>1, <2>3, EffectiveAfter
    <3>2. d.audiences = built.audiences /\ d.audienceMode = built.audienceMode
      BY <1>3, <2>3 DEF AudienceOptions
    <3> QED
      BY <1>2, <3>1, <3>2 DEF ConfigIsEffective, Chosen, Given, AudienceOptions, d
  <2> QED
    BY <2>2, <2>3
<1>7. d.requireExp <=> ~ Given({"allowMissingExpiration"})'
  <2>1. CASE option.kind = "requireExpiration"
    <3>1. ASSUME NEW o \in Effective', o.kind = "allowMissingExpiration"
          PROVE  FALSE
      <4>1. o \in Effective /\ Slot(o) # Slot(option)
        BY <2>1, <3>1, EffectiveAfter
      <4>2. ValidOption(o) /\ ValidOption(option)
        BY <4>1 DEF Effective, EvaluationTypeOK, ApplyOption
      <4> QED
        BY <2>1, <3>1, <4>1, <4>2, SameSlot
    <3> QED
      BY <1>3, <2>1, <3>1 DEF Given
  <2>2. CASE option.kind # "requireExpiration"
    BY <1>2, <1>3, <2>2, GivenNext DEF ConfigIsEffective, Given
  <2> QED
    BY <2>1, <2>2
<1>8. d.requireNBF <=> Given({"requireNotBefore"})'
  BY <1>2, <1>3, GivenNext DEF ConfigIsEffective, Given
<1>9. d.validateIAT <=> Given({"validateIssuedAt", "requireIssuedAt"})'
  BY <1>2, <1>3, GivenNext DEF ConfigIsEffective, Given
<1>10. d.requireIAT <=> Given({"requireIssuedAt"})'
  BY <1>2, <1>3, GivenNext DEF ConfigIsEffective, Given
<1> QED
  BY <1>5, <1>6, <1>7, <1>8, <1>9, <1>10
     DEF ConfigIsEffective, d

THEOREM EvaluationInvAlways == EvaluationSpec => []EvaluationInv
<1>1. EvaluationInit => EvaluationInv
  <2> SUFFICES ASSUME EvaluationInit
               PROVE  EvaluationInv
    OBVIOUS
  <2>1. EvaluationTypeOK
    BY DEF EvaluationInit, EvaluationTypeOK, DefaultConfig, Configs, NoClaims, ClaimSets, TimeClaims
  <2>2. Effective = {}
    BY DEF EvaluationInit, Effective
  <2> QED
    BY <2>1, <2>2 DEF EvaluationInv, OneOfEachSlot, ConfigIsEffective, EvaluationInit, Chosen, Given,
                      DefaultConfig
<1>2. EvaluationInv /\ [EvaluationNext]_evaluationVars => EvaluationInv'
  <2> SUFFICES ASSUME EvaluationInv, [EvaluationNext]_evaluationVars
               PROVE  EvaluationInv'
    OBVIOUS
  <2>1. ASSUME NEW option \in Options, ApplyOption(option)
        PROVE  EvaluationInv'
    <3>1. EvaluationTypeOK'
      <4>1. /\ ValidOption(option) /\ built \in Configs
            /\ option.kind \in DurationOptions \cup {"leeway"} => option.value \in Int
        BY <2>1, EvaluationAssumption DEF EvaluationInv, EvaluationTypeOK, ApplyOption
      <4>2. built' \in Configs
        BY <2>1, <4>1, Applied DEF ApplyOption
      <4>3. options' \in Seq({o \in Options : ValidOption(o)})
        BY <2>1, <4>1 DEF EvaluationInv, EvaluationTypeOK, ApplyOption
      <4> QED
        BY <2>1, <4>2, <4>3 DEF EvaluationInv, EvaluationTypeOK, ApplyOption
    <3>2. OneOfEachSlot'
      <4>1. \A o, p \in Effective : Slot(o) = Slot(p) => o = p
        BY DEF EvaluationInv, OneOfEachSlot
      <4>2. \A o, p \in Effective' : Slot(o) = Slot(p) => o = p
        BY <2>1, <4>1, EffectiveAfter DEF EvaluationInv
      <4> QED
        BY <4>2 DEF OneOfEachSlot
    <3>3. ConfigIsEffective'
      BY <2>1, ConfigStep
    <3> QED
      BY <3>1, <3>2, <3>3 DEF EvaluationInv
  <2>2. ASSUME \/ \E option \in Options : RefuseOption(option)
               \/ MethodsMissing \/ NewVerifier \/ ReadAgain
               \/ UNCHANGED evaluationVars
        PROVE  EvaluationInv'
    <3>1. options' = options /\ built' = built
      BY <2>2 DEF RefuseOption, MethodsMissing, NewVerifier, ReadAgain, evaluationVars
    <3>2. EvaluationTypeOK'
      BY <2>2, EvaluationAssumption DEF EvaluationInv, EvaluationTypeOK, RefuseOption, MethodsMissing,
         NewVerifier, ReadAgain, evaluationVars
    <3>3. Effective' = Effective
      BY <3>1 DEF Effective
    <3> QED
      BY <3>1, <3>2, <3>3 DEF EvaluationInv, OneOfEachSlot, ConfigIsEffective, Chosen, Given
  <2> QED
    BY <2>1, <2>2 DEF EvaluationNext
<1> QED
  BY <1>1, <1>2, PTL DEF EvaluationSpec

-----------------------------------------------------------------------------
(* Judging.                                                                *)

\* The verdict, by what the two evaluators found: joined errors never look
\* like success, and each class of the classification has its own ground.
LEMMA VerdictGrounds ==
    ASSUME NEW c, NEW cl, NEW first, NEW second
    PROVE  LET verdict == ClaimsVerdict(c, cl, first, second)
               lifetime == ValidateLifetime(c, cl, second)
           IN
           /\ verdict = "none" <=>
                 /\ ~ Expired(c, cl, first) /\ ~ NotValidYet(c, cl, first)
                 /\ ~ UsedBeforeIssued(c, cl, first) /\ ~ ClaimsInvalid(c, cl)
                 /\ lifetime = "none"
           /\ verdict = "ErrExpiredToken" => Expired(c, cl, first)
           /\ verdict = "ErrNotYetValid" => NotValidYet(c, cl, first)
           /\ verdict = "ErrInvalidLifetime" => lifetime = "ErrInvalidLifetime"
           /\ verdict = "ErrIssuedInFuture" =>
                 \/ UsedBeforeIssued(c, cl, first)
                 \/ lifetime = "ErrIssuedInFuture"
<1> DEFINE found == ValidatorErrors(c, cl, first)
           lifetime == ValidateLifetime(c, cl, second)
<1>1. /\ "jwt.Expired" \in found <=> Expired(c, cl, first)
      /\ "jwt.NotValidYet" \in found <=> NotValidYet(c, cl, first)
      /\ "jwt.UsedBeforeIssued" \in found <=> UsedBeforeIssued(c, cl, first)
      /\ "jwt.OtherClaim" \in found <=> ClaimsInvalid(c, cl)
      /\ \A e \in found : e \in {"jwt.Expired", "jwt.NotValidYet",
                                  "jwt.UsedBeforeIssued", "jwt.OtherClaim"}
  BY DEF ValidatorErrors
<1>2. lifetime \in {"none", "ErrInvalidLifetime", "ErrIssuedInFuture"}
  BY DEF ValidateLifetime
<1> HIDE DEF found, lifetime
<1>3. CASE found = {}
  <2>1. ClaimsVerdict(c, cl, first, second) = lifetime
    BY <1>3 DEF ClaimsVerdict, found, lifetime
  <2> QED
    BY <1>1, <1>2, <1>3, <2>1 DEF lifetime
<1>4. CASE found # {}
  <2> DEFINE all == found \cup {"jwt.InvalidClaims"}
             verdict == ClassifyVerifyError(all)
  <2>1. ClaimsVerdict(c, cl, first, second) = verdict
    BY <1>4 DEF ClaimsVerdict, ClaimsErrors, found
  <2>2. /\ "context" \notin all
        /\ {"jwt.Malformed", "ErrInvalidHeader"} \cap all = {}
        /\ "jwt.SignatureInvalid" \notin all
        /\ "jwt.InvalidClaims" \in all
        /\ "jwt.Expired" \in all <=> "jwt.Expired" \in found
        /\ "jwt.NotValidYet" \in all <=> "jwt.NotValidYet" \in found
        /\ "jwt.UsedBeforeIssued" \in all <=> "jwt.UsedBeforeIssued" \in found
    BY <1>1
  <2>3. verdict = IF "jwt.Expired" \in found THEN "ErrExpiredToken"
                  ELSE IF "jwt.NotValidYet" \in found THEN "ErrNotYetValid"
                  ELSE IF "jwt.UsedBeforeIssued" \in found
                       THEN "ErrIssuedInFuture"
                  ELSE "ErrInvalidClaims"
    BY <2>2 DEF ClassifyVerifyError
  <2> HIDE DEF verdict
  <2> QED
    BY <1>1, <1>4, <2>1, <2>3
<1> QED
  BY <1>3, <1>4

\* The leeway the promises speak of is that of the configuration.
LEMMA LeewayIsConfigured ==
    ASSUME EvaluationInv
    PROVE  Leeway = built.leeway
<1>1. Chosen("leeway", built.leeway, 0)
  BY DEF EvaluationInv, ConfigIsEffective
<1>2. ASSUME NEW o \in Effective, NEW p \in Effective,
             o.kind = "leeway", p.kind = "leeway"
      PROVE  o = p
  BY <1>2 DEF EvaluationInv, OneOfEachSlot, Slot, AudienceOptions
<1> QED
  BY <1>1, <1>2 DEF Leeway, Chosen

\* A field set by an option of its own says what that option says.
LEMMA FieldOf ==
    ASSUME EvaluationInv, NEW kind \in TextOptions \cup DurationOptions \cup AudienceOptions,
           NEW value, NEW default, Chosen(kind, value, default)
    PROVE  /\ \A o \in Effective : o.kind = kind => o.value = value
           /\ (\E o \in Effective : o.kind = kind) \/ value = default
<1>1. ASSUME NEW o \in Effective, NEW p \in Effective,
             o.kind = kind, p.kind = kind
      PROVE  o = p
  <2>1. Slot(o) = Slot(p)
    BY <1>1 DEF Slot
  <2> QED
    BY <2>1 DEF EvaluationInv, OneOfEachSlot
<1> QED
  BY <1>1 DEF Chosen

\* The claims that are texts: iss, sub and aud.
LEMMA TextPromises ==
    ASSUME EvaluationInv
    PROVE  /\ (built.issuer # NoText => presented.iss = built.issuer) <=>
                 \A o \in Effective : o.kind = "issuer" => presented.iss = o.value
           /\ (built.subject # NoText => presented.sub = built.subject) <=>
                 \A o \in Effective : o.kind = "subject" => presented.sub = o.value
           /\ ~ WrongAudience(built, presented) <=>
                 /\ \A o \in Effective : o.kind = "audience" =>
                        o.value \cap presented.aud # {}
                 /\ \A o \in Effective : o.kind = "allAudiences" =>
                        o.value \subseteq presented.aud
<1>1. ASSUME NEW o \in Effective
      PROVE  /\ o.kind \in {"issuer", "subject"} => o.value # NoText
             /\ o.kind \in AudienceOptions => o.value # {}
  <2>1. ValidOption(o)
    BY DEF EvaluationInv, EvaluationTypeOK, Effective
  <2> QED
    BY <2>1, PolicyAssumption DEF ValidOption, TextOptions, AudienceOptions,
                                  DurationOptions, FlagOptions
<1>2. /\ \A o \in Effective : o.kind = "issuer" => o.value = built.issuer
      /\ (\E o \in Effective : o.kind = "issuer") \/ built.issuer = NoText
  BY FieldOf DEF EvaluationInv, ConfigIsEffective, TextOptions
<1>3. /\ \A o \in Effective : o.kind = "subject" => o.value = built.subject
      /\ (\E o \in Effective : o.kind = "subject") \/ built.subject = NoText
  BY FieldOf DEF EvaluationInv, ConfigIsEffective, TextOptions
<1>4. \/ /\ built.audienceMode = "any"
         /\ \A o \in Effective : o.kind # "allAudiences"
         /\ \A o \in Effective : o.kind = "audience" => o.value = built.audiences
         /\ (\E o \in Effective : o.kind = "audience") \/ built.audiences = {}
      \/ /\ built.audienceMode = "all"
         /\ \A o \in Effective : o.kind # "audience"
         /\ \A o \in Effective : o.kind = "allAudiences" => o.value = built.audiences
         /\ (\E o \in Effective : o.kind = "allAudiences") \/ built.audiences = {}
  <2>1. CASE /\ Chosen("audience", built.audiences, {})
             /\ built.audienceMode = "any" /\ ~ Given({"allAudiences"})
    <3>1. \A o \in Effective : o.kind # "allAudiences"
      BY <2>1 DEF Given
    <3>2. /\ \A o \in Effective : o.kind = "audience" => o.value = built.audiences
          /\ (\E o \in Effective : o.kind = "audience") \/ built.audiences = {}
      BY <2>1, FieldOf DEF AudienceOptions
    <3> QED
      BY <2>1, <3>1, <3>2
  <2>2. CASE /\ Chosen("allAudiences", built.audiences, {})
             /\ built.audienceMode = "all" /\ ~ Given({"audience"})
    <3>1. \A o \in Effective : o.kind # "audience"
      BY <2>2 DEF Given
    <3>2. /\ \A o \in Effective : o.kind = "allAudiences" => o.value = built.audiences
          /\ (\E o \in Effective : o.kind = "allAudiences") \/ built.audiences = {}
      BY <2>2, FieldOf DEF AudienceOptions
    <3> QED
      BY <2>2, <3>1, <3>2
  <2> QED
    BY <2>1, <2>2 DEF EvaluationInv, ConfigIsEffective
<1>5. ~ WrongAudience(built, presented) <=>
         /\ \A o \in Effective : o.kind = "audience" => o.value \cap presented.aud # {}
         /\ \A o \in Effective : o.kind = "allAudiences" =>
                o.value \subseteq presented.aud
  BY <1>1, <1>4 DEF WrongAudience, AudienceOptions
<1> QED
  BY <1>1, <1>2, <1>3, <1>5

\* The baseline, and the options about exp and nbf.
LEMMA BaselinePromises ==
    ASSUME EvaluationInv
    PROVE  /\ ~ Expired(built, presented, reading)
           /\ ~ NotValidYet(built, presented, reading)
           /\ ~ (built.requireExp /\ presented.exp = Absent)
           /\ ~ (built.requireNBF /\ presented.nbf = Absent)
           /\ Unreadable \notin {presented.exp, presented.nbf}
           /\ presented.selfValid
           <=>
           /\ Baseline
           /\ \A o \in Effective : o.kind = "requireExpiration" => IsTime(presented.exp)
           /\ \A o \in Effective : o.kind = "requireNotBefore" => IsTime(presented.nbf)
<1>1. /\ presented.exp \in Int \cup {Absent, Unreadable}
      /\ presented.nbf \in Int \cup {Absent, Unreadable}
      /\ built.leeway \in Nat /\ reading \in Int /\ built \in Configs
  BY DEF EvaluationInv, EvaluationTypeOK, ClaimSets, TimeClaims, Configs
<1>2. /\ built.requireExp <=> ~ \E o \in Effective : o.kind = "allowMissingExpiration"
      /\ built.requireNBF <=> \E o \in Effective : o.kind = "requireNotBefore"
  BY DEF EvaluationInv, ConfigIsEffective, Given
<1>3. ASSUME NEW o \in Effective, NEW p \in Effective,
             o.kind = "requireExpiration", p.kind = "allowMissingExpiration"
      PROVE  FALSE
  <2>1. Slot(o) = Slot(p)
    BY <1>3 DEF Slot, AudienceOptions
  <2> QED
    BY <1>3, <2>1 DEF EvaluationInv, OneOfEachSlot
<1>4. ~ Expired(built, presented, reading) <=>
         (presented.exp \in Int => reading < presented.exp + Leeway)
  BY <1>1, LeewayIsConfigured DEF Expired
<1>5. ~ NotValidYet(built, presented, reading) <=>
         (presented.nbf \in Int => presented.nbf <= reading + Leeway)
  BY <1>1, LeewayIsConfigured DEF NotValidYet
<1> QED
  BY <1>1, <1>2, <1>3, <1>4, <1>5, PolicyAssumption DEF Baseline, IsTime

\* The options about iat, which two readings of the clock decide.
LEMMA IssuedAtPromises ==
    ASSUME EvaluationInv, Unreadable \notin {presented.exp}
    PROVE  /\ ~ UsedBeforeIssued(built, presented, reading)
           /\ ~ (built.validateIAT /\ presented.iat = Unreadable)
           /\ ValidateLifetime(built, presented, reading + delay) = "none"
           <=>
           \A o \in Effective :
               o.kind \in {"validateIssuedAt", "requireIssuedAt", "maxAge",
                           "maxLifetime"} => Promise(o)
<1> DEFINE L == built.leeway
           second == reading + delay
<1>1. /\ presented.iat \in Int \cup {Absent, Unreadable}
      /\ presented.exp \in Int \cup {Absent}
      /\ L \in Nat /\ reading \in Int /\ delay \in Nat /\ second \in Int
      /\ second >= reading
      /\ built.maxAge \in Nat /\ built.maxLifetime \in Nat
      /\ built.validateIAT \in BOOLEAN /\ built.requireIAT \in BOOLEAN
  BY DEF EvaluationInv, EvaluationTypeOK, ClaimSets, TimeClaims, Configs
<1>2. /\ built.validateIAT <=>
            \E o \in Effective : o.kind \in {"validateIssuedAt", "requireIssuedAt"}
      /\ built.requireIAT <=> \E o \in Effective : o.kind = "requireIssuedAt"
  BY DEF EvaluationInv, ConfigIsEffective, Given
<1>3. ASSUME NEW o \in Effective, o.kind \in DurationOptions
      PROVE  o.value \in Nat \ {0}
  <2>1. ValidOption(o) /\ o \in Options
    BY DEF EvaluationInv, EvaluationTypeOK, Effective
  <2>2. o.value \in Int
    BY <1>3, <2>1, EvaluationAssumption
  <2> QED
    BY <1>3, <2>1, <2>2 DEF ValidOption, TextOptions, AudienceOptions,
                            DurationOptions, FlagOptions
<1>4. /\ \A o \in Effective : o.kind = "maxAge" => o.value = built.maxAge
      /\ (\E o \in Effective : o.kind = "maxAge") \/ built.maxAge = 0
      /\ \A o \in Effective : o.kind = "maxLifetime" => o.value = built.maxLifetime
      /\ (\E o \in Effective : o.kind = "maxLifetime") \/ built.maxLifetime = 0
  BY FieldOf DEF EvaluationInv, ConfigIsEffective, DurationOptions
<1>5. /\ built.maxAge > 0 <=> \E o \in Effective : o.kind = "maxAge"
      /\ built.maxLifetime > 0 <=> \E o \in Effective : o.kind = "maxLifetime"
  BY <1>1, <1>3, <1>4 DEF DurationOptions
<1>6. (\A o \in Effective :
          o.kind \in {"validateIssuedAt", "requireIssuedAt", "maxAge",
                      "maxLifetime"} => Promise(o))
      <=>
      /\ built.requireIAT => presented.iat \in Int
      /\ built.validateIAT =>
            \/ presented.iat = Absent
            \/ presented.iat \in Int /\ presented.iat <= reading + L
      /\ built.maxAge > 0 =>
            \/ presented.iat = Absent
            \/ presented.iat \in Int /\ second - presented.iat \in - L .. built.maxAge + L
      /\ built.maxLifetime > 0 =>
            \/ presented.iat = Absent
            \/ /\ presented.iat \in Int
               /\ presented.exp \in Int =>
                     presented.exp - presented.iat \in 1 .. built.maxLifetime
  <2>1. Leeway = L
    BY LeewayIsConfigured
  <2> HIDE DEF L
  <2>2. (\A o \in Effective :
            o.kind \in {"validateIssuedAt", "requireIssuedAt"} => Promise(o))
        <=>
        /\ built.requireIAT => presented.iat \in Int
        /\ built.validateIAT =>
              \/ presented.iat = Absent
              \/ presented.iat \in Int /\ presented.iat <= reading + L
    BY <1>2, <2>1, PolicyAssumption DEF Promise, IsTime
  <2>3. (\A o \in Effective : o.kind = "maxAge" => Promise(o))
        <=>
        (built.maxAge > 0 =>
            \/ presented.iat = Absent
            \/ presented.iat \in Int /\ second - presented.iat \in - L .. built.maxAge + L)
    <3>1. ASSUME NEW o \in Effective, o.kind = "maxAge"
          PROVE  Promise(o) <=>
                    \/ presented.iat = Absent
                    \/ /\ presented.iat \in Int
                       /\ second - presented.iat \in - L .. built.maxAge + L
      <4>1. o.value = built.maxAge
        BY <1>4, <3>1
      <4>2. Promise(o) <=>
               \/ presented.iat = Absent
               \/ /\ IsTime(presented.iat)
                  /\ reading + delay - presented.iat \in - Leeway .. o.value + Leeway
        BY <3>1, Zenon DEF Promise
      <4> QED
        BY <1>1, <2>1, <4>1, <4>2 DEF IsTime
    <3> QED
      BY <1>5, <3>1
  <2>4. (\A o \in Effective : o.kind = "maxLifetime" => Promise(o))
        <=>
        (built.maxLifetime > 0 =>
            \/ presented.iat = Absent
            \/ /\ presented.iat \in Int
               /\ presented.exp \in Int =>
                     presented.exp - presented.iat \in 1 .. built.maxLifetime)
    BY <1>4, <1>5 DEF Promise, IsTime
  <2> QED
    BY <2>2, <2>3, <2>4
<1> HIDE DEF L, second
<1>7. CASE presented.iat = Absent
  BY <1>1, <1>6, <1>7, PolicyAssumption
     DEF UsedBeforeIssued, ValidateLifetime, LifetimeConfigured, second, L
<1>8. CASE presented.iat = Unreadable
  BY <1>1, <1>6, <1>8, PolicyAssumption
     DEF UsedBeforeIssued, ValidateLifetime, LifetimeConfigured, second, L
<1>9. CASE presented.iat \in Int
  BY <1>1, <1>6, <1>9, PolicyAssumption
     DEF UsedBeforeIssued, ValidateLifetime, LifetimeConfigured, second, L,
         IssuedInFuture, TooOld, LivesTooLong
<1> QED
  BY <1>1, <1>7, <1>8, <1>9

\* "A token is accepted only when every baseline and application-defined
\* constraint succeeds", and then it is: for any options in any order, the
\* configuration they build and its two evaluators accept exactly the claims
\* for which the effective options all hold (parserOptions options.go:58,
\* validateLifetime verifier.go:169).
THEOREM OptionsArePromisesAlways == EvaluationSpec => []OptionsArePromises
<1>1. EvaluationInv => OptionsArePromises
  <2> SUFFICES ASSUME EvaluationInv
               PROVE  Verdict = "none" <=> Baseline /\ \A o \in Effective : Promise(o)
    BY DEF OptionsArePromises
  <2> DEFINE lifetime == ValidateLifetime(built, presented, reading + delay)
  <2>1. Verdict = "none" <=>
           /\ ~ Expired(built, presented, reading) /\ ~ NotValidYet(built, presented, reading)
           /\ ~ UsedBeforeIssued(built, presented, reading)
           /\ ~ ClaimsInvalid(built, presented)
           /\ lifetime = "none"
    BY VerdictGrounds DEF Verdict
  <2> HIDE DEF lifetime
  <2>2. ~ ClaimsInvalid(built, presented) <=>
           /\ ~ (built.requireExp /\ presented.exp = Absent)
           /\ ~ (built.requireNBF /\ presented.nbf = Absent)
           /\ Unreadable \notin {presented.exp, presented.nbf}
           /\ ~ (built.validateIAT /\ presented.iat = Unreadable)
           /\ built.issuer # NoText => presented.iss = built.issuer
           /\ built.subject # NoText => presented.sub = built.subject
           /\ ~ WrongAudience(built, presented)
           /\ presented.selfValid
    BY DEF ClaimsInvalid
  <2>3. Baseline => Unreadable \notin {presented.exp}
    BY PolicyAssumption DEF Baseline, IsTime
  <2>4. Unreadable \notin {presented.exp} =>
           (/\ ~ UsedBeforeIssued(built, presented, reading)
            /\ ~ (built.validateIAT /\ presented.iat = Unreadable)
            /\ lifetime = "none"
            <=>
            \A o \in Effective :
                o.kind \in {"validateIssuedAt", "requireIssuedAt", "maxAge",
                            "maxLifetime"} => Promise(o))
    BY IssuedAtPromises DEF lifetime
  <2>5. (\A o \in Effective : Promise(o)) <=>
           /\ \A o \in Effective : o.kind = "issuer" => presented.iss = o.value
           /\ \A o \in Effective : o.kind = "subject" => presented.sub = o.value
           /\ \A o \in Effective : o.kind = "audience" =>
                  o.value \cap presented.aud # {}
           /\ \A o \in Effective : o.kind = "allAudiences" =>
                  o.value \subseteq presented.aud
           /\ \A o \in Effective : o.kind = "requireExpiration" => IsTime(presented.exp)
           /\ \A o \in Effective : o.kind = "requireNotBefore" => IsTime(presented.nbf)
           /\ \A o \in Effective :
                  o.kind \in {"validateIssuedAt", "requireIssuedAt", "maxAge",
                              "maxLifetime"} => Promise(o)
    <3>1. ASSUME NEW o \in Effective
          PROVE  Promise(o) <=>
                    /\ o.kind = "issuer" => presented.iss = o.value
                    /\ o.kind = "subject" => presented.sub = o.value
                    /\ o.kind = "audience" => o.value \cap presented.aud # {}
                    /\ o.kind = "allAudiences" => o.value \subseteq presented.aud
                    /\ o.kind = "requireExpiration" => IsTime(presented.exp)
                    /\ o.kind = "requireNotBefore" => IsTime(presented.nbf)
                    /\ o.kind \in {"validateIssuedAt", "requireIssuedAt", "maxAge",
                                   "maxLifetime"} => Promise(o)
      BY DEF Promise
    <3> QED
      BY <3>1
  <2> QED
    BY <2>1, <2>2, <2>3, <2>4, <2>5, TextPromises, BaselinePromises
<1> QED
  BY <1>1, EvaluationInvAlways, PTL

\* What time has done to a token it never undoes, and what it has not done
\* yet was never done before: whatever the options, a rejection for age stands
\* at every later pair of readings, one for youth stood at every earlier pair.
THEOREM RejectionsHaveADirectionAlways == EvaluationSpec => RejectionsHaveADirection
<1> DEFINE Directed ==
       phase = "ready" =>
           /\ /\ Verdict \in {"ErrExpiredToken", "ErrInvalidLifetime"}
              /\ reading' >= reading /\ reading' + delay' >= reading + delay
              => Verdict' # "none"
           /\ /\ Verdict \in {"ErrNotYetValid", "ErrIssuedInFuture"}
              /\ reading' <= reading /\ reading' + delay' <= reading + delay
              => Verdict' # "none"
<1>1. EvaluationInv /\ EvaluationInv' /\ [EvaluationNext]_evaluationVars => [Directed]_evaluationVars
  <2> SUFFICES ASSUME EvaluationInv, EvaluationInv', EvaluationNext, phase = "ready"
               PROVE  Directed
    OBVIOUS
  <2>1. ReadAgain
    BY DEF EvaluationNext, ApplyOption, RefuseOption, MethodsMissing, NewVerifier
  <2> DEFINE now == reading + delay
             now2 == reading' + delay'
  <2>2. /\ built' = built /\ presented' = presented
        /\ reading \in Int /\ reading' \in Int /\ now \in Int /\ now2 \in Int
        /\ built \in Configs
        /\ presented.exp \in Int \cup {Absent, Unreadable}
        /\ presented.nbf \in Int \cup {Absent, Unreadable}
        /\ presented.iat \in Int \cup {Absent, Unreadable}
    BY <2>1 DEF ReadAgain, EvaluationInv, EvaluationTypeOK, ClaimSets, TimeClaims
  <2>3. /\ built.leeway \in Nat /\ built.maxAge \in Nat /\ built.maxLifetime \in Nat
        /\ built.validateIAT \in BOOLEAN /\ built.requireIAT \in BOOLEAN
    BY <2>2 DEF Configs
  <2>4. /\ Verdict = ClaimsVerdict(built, presented, reading, now)
        /\ Verdict' = ClaimsVerdict(built, presented, reading', now2)
    BY <2>2 DEF Verdict
  <2> HIDE DEF now, now2
  <2>5. ASSUME Verdict = "ErrExpiredToken", reading' >= reading
        PROVE  Verdict' # "none"
    <3>1. Expired(built, presented, reading)
      BY <2>4, <2>5, VerdictGrounds
    <3>2. Expired(built, presented, reading')
      BY <2>2, <2>3, <2>5, <3>1 DEF Expired
    <3> QED
      BY <2>4, <3>2, VerdictGrounds
  <2>6. ASSUME Verdict = "ErrInvalidLifetime", now2 >= now
        PROVE  Verdict' # "none"
    <3>1. ValidateLifetime(built, presented, now) = "ErrInvalidLifetime"
      BY <2>4, <2>6, VerdictGrounds
    <3>2. ValidateLifetime(built, presented, now2) # "none"
      BY <2>2, <2>3, <2>6, <3>1, PolicyAssumption
         DEF ValidateLifetime, LifetimeConfigured, TooOld
    <3> QED
      BY <2>4, <3>2, VerdictGrounds
  <2>7. ASSUME Verdict = "ErrNotYetValid", reading' <= reading
        PROVE  Verdict' # "none"
    <3>1. NotValidYet(built, presented, reading)
      BY <2>4, <2>7, VerdictGrounds
    <3>2. NotValidYet(built, presented, reading')
      BY <2>2, <2>3, <2>7, <3>1 DEF NotValidYet
    <3> QED
      BY <2>4, <3>2, VerdictGrounds
  <2>8. ASSUME Verdict = "ErrIssuedInFuture", reading' <= reading, now2 <= now
        PROVE  Verdict' # "none"
    <3>1. CASE UsedBeforeIssued(built, presented, reading)
      <4>1. UsedBeforeIssued(built, presented, reading')
        BY <2>2, <2>3, <2>8, <3>1 DEF UsedBeforeIssued
      <4> QED
        BY <2>4, <4>1, VerdictGrounds
    <3>2. CASE ValidateLifetime(built, presented, now) = "ErrIssuedInFuture"
      <4>1. ValidateLifetime(built, presented, now2) # "none"
        BY <2>2, <2>3, <2>8, <3>2, PolicyAssumption
           DEF ValidateLifetime, LifetimeConfigured, IssuedInFuture
      <4> QED
        BY <2>4, <4>1, VerdictGrounds
    <3> QED
      BY <2>4, <2>8, <3>1, <3>2, VerdictGrounds
  <2> QED
    BY <2>5, <2>6, <2>7, <2>8 DEF now, now2
<1> HIDE DEF Directed
<1>2. EvaluationSpec => [][Directed]_evaluationVars
  BY <1>1, EvaluationInvAlways, PTL DEF EvaluationSpec
<1> QED
  BY <1>2 DEF Directed, RejectionsHaveADirection

-----------------------------------------------------------------------------
(* Errors.                                                                 *)

\* The errors of ParseWithClaims that are classified as judgements of content.
ContentMarks == {"jwt.InvalidClaims", "jwt.OtherClaim", "jwt.Expired",
                 "jwt.NotValidYet", "jwt.UsedBeforeIssued"}

\* Whatever is classified, errors.Is finds a sentinel of the module in it.
LEMMA ClassifiedHasSentinel ==
    ASSUME NEW es \in SUBSET (Sentinels \cup ParserSentinels)
    PROVE  /\ Classified(es) \in SUBSET (Sentinels \cup ParserSentinels)
           /\ Classified(es) \cap Sentinels # {}
<1> DEFINE verdict == ClassifyVerifyError(es)
<1>1. CASE verdict = "none"
  <2>1. "context" \in es \/ UnchangedErrors \cap es # {}
    BY <1>1 DEF ClassifyVerifyError
  <2> QED
    BY <1>1, <2>1 DEF Classified, Sentinels
<1>2. CASE verdict # "none"
  <2>1. verdict \in Sentinels
    BY <1>2 DEF ClassifyVerifyError, Sentinels
  <2>2. Classified(es) = es \cup {verdict}
    BY <1>2 DEF Classified
  <2> QED
    BY <2>1, <2>2
<1> QED
  BY <1>1, <1>2

\* No error about the content comes of a classification but those the
\* validator marked.
LEMMA ClassifiedContent ==
    ASSUME NEW es, es \cap (ContentErrors \cup ContentMarks) = {}
    PROVE  Classified(es) \cap ContentErrors = {}
  BY DEF Classified, ClassifyVerifyError, ContentErrors, ContentMarks

LEMMA LifetimeErrors ==
    ASSUME NEW cfg, NEW claimSet, NEW now
    PROVE  ValidateLifetime(cfg, claimSet, now)
               \in {"none", "ErrInvalidLifetime", "ErrIssuedInFuture"}
  BY DEF ValidateLifetime

LEMMA ClaimsErrorsType ==
    ASSUME NEW cfg, NEW claimSet, NEW now
    PROVE  /\ ClaimsErrors(cfg, claimSet, now) \in SUBSET ParserSentinels
           /\ ClaimsErrors(cfg, claimSet, now) = {}
                 <=> ValidatorErrors(cfg, claimSet, now) = {}
  BY DEF ClaimsErrors, ValidatorErrors, ParserSentinels

LEMMA EarlyErrorsType ==
    ASSUME NEW t
    PROVE  /\ EarlyErrors(t) \in SUBSET (Sentinels \cup ParserSentinels)
           /\ EarlyErrors(t) # {} => EarlyErrors(t) \cap Sentinels # {}
           /\ EarlyErrors(t) \cap ContentErrors = {}
<1>1. /\ ParseErrors(t) \in SUBSET (Sentinels \cup ParserSentinels)
      /\ ParseErrors(t) \cap (ContentErrors \cup ContentMarks) = {}
  BY DEF ParseErrors, Sentinels, ParserSentinels, ContentErrors, ContentMarks
<1>2. /\ RawTokenErrors(t) \in SUBSET Sentinels
      /\ RawTokenErrors(t) \cap ContentErrors = {}
  BY DEF RawTokenErrors, Sentinels, ContentErrors
<1> QED
  BY <1>1, <1>2, ClassifiedHasSentinel, ClassifiedContent DEF EarlyErrors

\* What passes the early checks.
LEMMA PassedEarly ==
    ASSUME NEW t \in TokenType, config \in Configurations
    PROVE  EarlyErrors(t) = {} <=>
              /\ RawTokenErrors(t) = {} /\ t.wellFormed /\ t.encoded
              /\ t.header.alg \in config.methods /\ HeaderValid(t.header)
<1>1. config.methods \subseteq Algorithms
  BY VerifierAssumption DEF Configs
<1>2. \A es \in SUBSET (Sentinels \cup ParserSentinels) : Classified(es) # {}
  BY ClassifiedHasSentinel
<1>3. /\ ParseErrors(t) \in SUBSET (Sentinels \cup ParserSentinels)
      /\ ParseErrors(t) = {} <=> /\ t.wellFormed /\ t.encoded
                                 /\ t.header.alg \in config.methods
                                 /\ HeaderValid(t.header)
  BY <1>1 DEF ParseErrors, Sentinels, ParserSentinels
<1> QED
  BY <1>2, <1>3 DEF EarlyErrors

-----------------------------------------------------------------------------
(* Answers of resolvers.                                                   *)

LEMMA ResolveKeyType ==
    ASSUME NEW k \in VerificationKeys, NEW header
    PROVE  /\ ResolveKey(k, header).error \in ResolveErrors \cup {"none"}
           /\ ResolveKey(k, header).key \in VerificationKeys
  BY DEF ResolveKey, Failure, Found, ZeroKey, ResolveErrors, VerificationKeys,
         AnyKeyID

LEMMA StaticResolveType ==
    ASSUME NEW keys \in Seq(VerificationKeys), ValidStaticKeySet(keys), NEW header
    PROVE  /\ StaticResolve(keys, header).error \in ResolveErrors \cup {"none"}
           /\ StaticResolve(keys, header).key \in VerificationKeys
<1> DEFINE named == {i \in DOMAIN keys : keys[i].id = header.kid}
<1>1. keys[1] \in VerificationKeys
  BY DEF ValidStaticKeySet
<1>2. ASSUME named # {}
      PROVE  keys[CHOOSE i \in named : TRUE] \in VerificationKeys
  <2>1. (CHOOSE i \in named : TRUE) \in named
    BY <1>2
  <2> QED
    BY <2>1
<1>3. /\ Failure("ErrMissingKeyID").error \in ResolveErrors
      /\ Failure("ErrUnknownKey").error \in ResolveErrors
      /\ Failure("ErrMissingKeyID").key \in VerificationKeys
      /\ Failure("ErrUnknownKey").key \in VerificationKeys
  BY DEF Failure, ResolveErrors, ZeroKey, VerificationKeys, AnyKeyID
<1> QED
  BY <1>1, <1>2, <1>3, ResolveKeyType DEF StaticResolve

LEMMA SetResolveType ==
    ASSUME NEW keys \in Seq(JWKs), ValidSet(keys), NEW header
    PROVE  /\ SetResolve(keys, header).error \in ResolveErrors \cup {"none"}
           /\ SetResolve(keys, header).key \in VerificationKeys
<1> DEFINE named == {i \in DOMAIN keys : keys[i].keyID = header.kid}
<1>1. ASSUME NEW e \in ResolveErrors
      PROVE  Failure(e).error \in ResolveErrors /\ Failure(e).key \in VerificationKeys
  BY DEF Failure, ZeroKey, VerificationKeys, AnyKeyID
<1>2. ASSUME NEW k \in JWKs, header.alg \in Algorithms
      PROVE  /\ ToVerificationKey(k, header.alg).error \in ResolveErrors \cup {"none"}
             /\ ToVerificationKey(k, header.alg).key \in VerificationKeys
  BY <1>2 DEF ToVerificationKey, NewVerificationKey, Failure, Found, ZeroKey,
              ResolveErrors, VerificationKeys, JWKs, AnyKeyID
<1>3. ASSUME named # {}
      PROVE  keys[CHOOSE i \in named : TRUE] \in JWKs
  <2>1. (CHOOSE i \in named : TRUE) \in named
    BY <1>3
  <2> QED
    BY <2>1
<1>4. {"ErrMissingKeyID", "ErrUnknownKey", "ErrUnexpectedAlgorithm"} \subseteq ResolveErrors
  BY DEF ResolveErrors
<1> QED
  BY <1>1, <1>2, <1>3, <1>4 DEF SetResolve

\* A resolver's errors, and that none of a StaticKeySet or a Set is about
\* the content of a token.
LEMMA AnswerType ==
    ASSUME NEW r \in Registries, NEW header
    PROVE  LET answer == Answer(r, header) IN
           /\ answer.errors \in SUBSET (Sentinels \cup ParserSentinels)
           /\ IF r.kind = "failing" THEN answer.errors = r.errors
              ELSE answer.errors \cap (ContentErrors \cup ContentMarks) = {}
           /\ answer.key \in VerificationKeys
<1>1. r.kind \in RegistryKinds
  BY VerifierAssumption
<1>2. /\ ResolveErrors \subseteq Sentinels
      /\ ResolveErrors \cap (ContentErrors \cup ContentMarks) = {}
      /\ "none" \notin ResolveErrors
  BY DEF ResolveErrors, Sentinels, UnchangedErrors, ContentErrors, ContentMarks
<1>3. CASE r.kind = "static"
  <2>1. r.keys \in Seq(VerificationKeys) /\ ValidStaticKeySet(r.keys)
    BY <1>3, VerifierAssumption
  <2>2. Answer(r, header) = [errors |-> {StaticResolve(r.keys, header).error} \ {"none"},
                             key |-> StaticResolve(r.keys, header).key]
    BY <1>3 DEF Answer
  <2>3. {StaticResolve(r.keys, header).error} \ {"none"} \subseteq ResolveErrors
    BY <2>1, StaticResolveType
  <2> QED
    BY <1>2, <1>3, <2>1, <2>2, <2>3, StaticResolveType
<1>4. CASE r.kind = "set"
  <2>1. r.keys \in Seq(JWKs) /\ ValidSet(r.keys)
    BY <1>4, VerifierAssumption
  <2>2. Answer(r, header) = [errors |-> {SetResolve(r.keys, header).error} \ {"none"},
                             key |-> SetResolve(r.keys, header).key]
    BY <1>4 DEF Answer
  <2>3. {SetResolve(r.keys, header).error} \ {"none"} \subseteq ResolveErrors
    BY <2>1, SetResolveType
  <2> QED
    BY <1>2, <1>4, <2>1, <2>2, <2>3, SetResolveType
<1>5. CASE r.kind = "function"
  <2>1. r.key \in VerificationKeys
    BY <1>5, VerifierAssumption
  <2> QED
    BY <1>5, <2>1 DEF Answer
<1>6. CASE r.kind = "failing"
  <2>1. r.errors \in SUBSET (Sentinels \cup ParserSentinels)
    BY <1>6, VerifierAssumption
  <2>2. ZeroKey \in VerificationKeys
    BY DEF ZeroKey, VerificationKeys, AnyKeyID
  <2>3. Answer(r, header) = [errors |-> r.errors, key |-> ZeroKey]
    BY <1>6 DEF Answer
  <2> QED
    BY <1>6, <2>1, <2>2, <2>3
<1> QED
  BY <1>1, <1>3, <1>4, <1>5, <1>6 DEF RegistryKinds

-----------------------------------------------------------------------------
(* Types.                                                                  *)

LEMMA NewClaimsType == NewClaims \in ClaimSets
  BY DEF NewClaims, ClaimSets, TimeClaims

LEMMA DecodeType ==
    ASSUME NEW value \in ClaimSets, NEW decoded \in ClaimSets
    PROVE  /\ DecodeOver(value, decoded) \in ClaimSets
           /\ value = NewClaims => DecodeOver(value, decoded) = decoded
<1>1. DecodeOver(value, decoded) \in ClaimSets
  BY DEF DecodeOver, ClaimSets
<1>2. DecodeOver(NewClaims, decoded) = decoded
  BY DEF DecodeOver, NewClaims, ClaimSets
<1> QED
  BY <1>1, <1>2

LEMMA TokensType == Tokens \cup {NoToken} \subseteq TokenType
<1>1. NoToken \in TokenType
  BY NewClaimsType DEF NoToken, TokenType, Headers, AnyKeyID
<1> QED
  BY <1>1, VerifierAssumption

\* What a rejection with errors es makes of the variables.
LEMMA RejectType ==
    ASSUME TypeOK, NEW c \in Callers,
           NEW es \in SUBSET (Sentinels \cup ParserSentinels),
           es \cap Sentinels # {}, Reject(c, es),
           UNCHANGED <<world, history, calls, token, claims, key>>
    PROVE  TypeOK'
<1>1. /\ pc' = [pc EXCEPT ![c] = "rejected"]
      /\ errors' = [errors EXCEPT ![c] = es]
  BY DEF Reject
<1> QED
  BY <1>1 DEF TypeOK, world, history

LEMMA TypeInit == Init => TypeOK
<1>1. ZeroKey \in VerificationKeys
  BY DEF ZeroKey, VerificationKeys, AnyKeyID
<1> QED
  BY <1>1, NewClaimsType, TokensType, VerifierAssumption DEF Init, TypeOK

LEMMA TypeNext == TypeOK /\ [Next]_vars => TypeOK'
<1> SUFFICES ASSUME TypeOK, [Next]_vars
             PROVE  TypeOK'
  OBVIOUS
<1>1. ASSUME NEW c \in Callers, NEW t \in Tokens, VerifyToken(c, t)
      PROVE  TypeOK'
  <2>1. PICK value \in {NewClaims, claims[c]} :
          /\ blank' = [blank EXCEPT ![c] = value = NewClaims]
          /\ claims' = [claims EXCEPT ![c] = claims'[c]]
          /\ claims'[c] \in {value, DecodeOver(value, t.claims)}
    BY <1>1 DEF VerifyToken, TypeOK
  <2>2. value \in ClaimSets /\ t \in TokenType /\ t.claims \in ClaimSets
    BY TokensType, NewClaimsType DEF TypeOK, TokenType
  <2>3. claims'[c] \in ClaimSets
    BY <2>1, <2>2, DecodeType
  <2>4. /\ pc' = [pc EXCEPT ![c] = pc'[c]]
        /\ errors' = [errors EXCEPT ![c] = errors'[c]]
        /\ pc'[c] \in {"resolving", "rejected"}
        /\ errors'[c] \in SUBSET (Sentinels \cup ParserSentinels)
        /\ (pc'[c] = "rejected") <=> (errors'[c] \cap Sentinels # {})
    <3>1. CASE EarlyErrors(t) # {}
      BY <1>1, <3>1, EarlyErrorsType DEF VerifyToken, Reject, TypeOK
    <3>2. CASE EarlyErrors(t) = {}
      BY <1>1, <3>2 DEF VerifyToken, TypeOK
    <3> QED
      BY <3>1, <3>2
  <2>5. /\ calls' = [calls EXCEPT ![c] = @ + 1] /\ calls[c] < MaxCalls
        /\ token' = [token EXCEPT ![c] = t]
        /\ seen' = [seen EXCEPT ![c] = {registry}]
        /\ clocks' = [clocks EXCEPT ![c] = {clock}]
        /\ UNCHANGED <<config, registry, clock, key>>
    BY <1>1 DEF VerifyToken, world
  <2>6. (value = NewClaims) \in BOOLEAN
    OBVIOUS
  <2>7. calls[c] + 1 \in 0 .. MaxCalls
    BY <2>5, VerifierAssumption DEF TypeOK
  <2> QED
    BY <2>1, <2>2, <2>3, <2>4, <2>5, <2>6, <2>7 DEF TypeOK
<1>2. ASSUME NEW c \in Callers, ResolverFailure(c)
      PROVE  TypeOK'
  <2>1. Reply(c).errors \in SUBSET (Sentinels \cup ParserSentinels)
    BY AnswerType DEF Reply, TypeOK
  <2>2. Reply(c).errors \cup {"jwt.Unverifiable"}
           \in SUBSET (Sentinels \cup ParserSentinels)
    BY <2>1 DEF ParserSentinels
  <2> QED
    BY <1>2, <2>2, ClassifiedHasSentinel, RejectType DEF ResolverFailure
<1>3. ASSUME NEW c \in Callers, UninitializedKey(c)
      PROVE  TypeOK'
  <2>1. {"jwt.Unverifiable", "ErrInvalidKey"} \in SUBSET (Sentinels \cup ParserSentinels)
    BY DEF Sentinels, ParserSentinels, UnchangedErrors
  <2> QED
    BY <1>3, <2>1, ClassifiedHasSentinel, RejectType DEF UninitializedKey
<1>4. ASSUME NEW c \in Callers, UnexpectedAlgorithm(c)
      PROVE  TypeOK'
  <2>1. {"jwt.Unverifiable", "ErrUnexpectedAlgorithm"}
           \in SUBSET (Sentinels \cup ParserSentinels)
    BY DEF Sentinels, ParserSentinels, UnchangedErrors
  <2> QED
    BY <1>4, <2>1, ClassifiedHasSentinel, RejectType DEF UnexpectedAlgorithm
<1>5. ASSUME NEW c \in Callers, KeyResolved(c)
      PROVE  TypeOK'
  <2>1. Reply(c).key \in VerificationKeys
    BY AnswerType DEF Reply, TypeOK
  <2> QED
    BY <1>5, <2>1 DEF KeyResolved, TypeOK, world, history
<1>6. ASSUME NEW c \in Callers, SignatureInvalid(c)
      PROVE  TypeOK'
  <2>1. {"jwt.SignatureInvalid"} \in SUBSET (Sentinels \cup ParserSentinels)
    BY DEF ParserSentinels
  <2> QED
    BY <1>6, <2>1, ClassifiedHasSentinel, RejectType DEF SignatureInvalid
<1>7. ASSUME NEW c \in Callers, ClaimsRejected(c)
      PROVE  TypeOK'
  <2>1. ClaimsErrors(config, claims[c], clock)
           \in SUBSET (Sentinels \cup ParserSentinels)
    BY ClaimsErrorsType
  <2> QED
    BY <1>7, <2>1, ClassifiedHasSentinel, RejectType DEF ClaimsRejected
<1>8. ASSUME NEW c \in Callers, ClaimsValid(c) \/ Accept(c)
      PROVE  TypeOK'
  BY <1>8 DEF ClaimsValid, Accept, TypeOK, world, history
<1>9. ASSUME NEW c \in Callers, UnexpectedType(c)
      PROVE  TypeOK'
  <2>1. {"ErrUnexpectedType"} \in SUBSET (Sentinels \cup ParserSentinels)
        /\ {"ErrUnexpectedType"} \cap Sentinels # {}
    BY DEF Sentinels
  <2> QED
    BY <1>9, <2>1, RejectType DEF UnexpectedType
<1>10. ASSUME NEW c \in Callers, LifetimeRejected(c)
       PROVE  TypeOK'
  <2> DEFINE e == ValidateLifetime(config, claims[c], clock)
  <2>1. Reject(c, {e}) /\ UNCHANGED <<world, history, calls, token, claims, key>>
    BY <1>10 DEF LifetimeRejected
  <2>2. e \in Sentinels
    BY <1>10, LifetimeErrors DEF LifetimeRejected, Sentinels
  <2> HIDE DEF e
  <2> QED
    BY <2>1, <2>2, RejectType
<1>11. ASSUME MoveClock
       PROVE  TypeOK'
  BY <1>11 DEF MoveClock, TypeOK
<1>12. ASSUME ChangeRegistry
       PROVE  TypeOK'
  BY <1>12 DEF ChangeRegistry, TypeOK
<1>13. CASE UNCHANGED vars
  BY <1>13 DEF vars, TypeOK
<1>14. ASSUME NEW c \in Callers, RefuseCall(c)
       PROVE  TypeOK'
  <2>1. PICK error \in {"ErrInvalidConfig", "ErrInvalidClaims"} : Reject(c, {error})
    BY <1>14 DEF RefuseCall
  <2>2. /\ error \in Sentinels
        /\ pc' = [pc EXCEPT ![c] = "rejected"]
        /\ errors' = [errors EXCEPT ![c] = {error}]
    BY <2>1 DEF Reject, Sentinels
  <2>3. /\ calls' = [calls EXCEPT ![c] = @ + 1] /\ calls[c] < MaxCalls
        /\ token' = [token EXCEPT ![c] = NoToken]
        /\ seen' = [seen EXCEPT ![c] = {registry}]
        /\ clocks' = [clocks EXCEPT ![c] = {clock}]
        /\ UNCHANGED <<config, registry, clock, claims, key, blank>>
    BY <1>14 DEF RefuseCall, world
  <2>4. calls[c] + 1 \in 0 .. MaxCalls
    BY <2>3, VerifierAssumption DEF TypeOK
  <2> QED
    BY <2>2, <2>3, <2>4, TokensType DEF TypeOK
<1> QED
  BY <1>14, <1>1, <1>2, <1>3, <1>4, <1>5, <1>6, <1>7, <1>8, <1>9, <1>10, <1>11, <1>12,
     <1>13 DEF Next, Step, ResolveKeyStep

\* A rejection always comes with one of the module's errors, and whatever
\* resolvers answer and tokens contain, every variable keeps its type.
THEOREM TypeCorrect == Spec => []TypeOK
<1> QED
  BY TypeInit, TypeNext, PTL DEF Spec

-----------------------------------------------------------------------------
(* The inductive invariant: what a call knows at each of its points.       *)

\* r answered t with k, which keyFunc does not refuse.
Answered(t, r, k) ==
    LET answer == Answer(r, t.header) IN
    /\ answer.errors = {}
    /\ Initialized(answer.key)
    /\ answer.key.method = t.header.alg
    /\ answer.key = k

\* A call that goes on has passed the early checks; the resolver and the
\* clock as they are now are among those it may meet. A new claims value
\* holds the token's claims. The key in hand is an answer of a resolver in
\* force since the call began; after the first reading of the clock it has
\* verified the signature.
Informed(c) ==
    /\ IsFiniteSet(seen[c]) /\ IsFiniteSet(clocks[c])
    /\ InProgress(c) => /\ EarlyErrors(token[c]) = {}
                        /\ registry \in seen[c] /\ clock \in clocks[c]
    /\ pc[c] # "idle" /\ EarlyErrors(token[c]) = {} /\ blank[c] =>
          claims[c] = token[c].claims
    /\ pc[c] \in {"verifying", "policy"} =>
          \E r \in seen[c] : Answered(token[c], r, key[c])
    /\ pc[c] = "policy" =>
          /\ SignatureValid(c)
          /\ \E first \in clocks[c] :
                ValidatorErrors(config, claims[c], first) = {}

AcceptedForCause(c) ==
    pc[c] = "accepted" =>
        /\ EarlyErrors(token[c]) = {}
        /\ Authentic(c)
        /\ TypeExpected(c)
        /\ \E first, second \in clocks[c] :
              /\ ValidatorErrors(config, claims[c], first) = {}
              /\ ValidateLifetime(config, claims[c], second) = "none"

\* What speaks against a token that was rejected.
Grounds(c) ==
    \/ EarlyErrors(token[c]) # {}
    \/ \E r \in seen[c] : ~ Genuine(token[c], r)
    \/ ~ TypeExpected(c)
    \/ \E now \in clocks[c] :
          \/ ValidatorErrors(config, claims[c], now) # {}
          \/ ValidateLifetime(config, claims[c], now) # "none"

RejectedForCause(c) ==
    pc[c] = "rejected" =>
        /\ token[c] # NoToken =>
              \A error \in errors[c] \cap ContentErrors :
                  Authentic(c) \/ ResolverClaims(c, error)
        /\ Grounds(c)

CallInv(c) == Informed(c) /\ AcceptedForCause(c) /\ RejectedForCause(c)

IInv == TypeOK /\ \A c \in Callers : CallInv(c)

LEMMA SameEarlyErrors ==
    ASSUME config' = config
    PROVE  \A t : EarlyErrors(t)' = EarlyErrors(t)
<1>1. ASSUME NEW t
      PROVE  EarlyErrors(t)' = EarlyErrors(t)
  BY DEF EarlyErrors, ParseErrors
<1> QED
  BY <1>1

\* A step that leaves a call alone, but for resolvers and clocks it may now
\* have seen, leaves what it knows true.
LEMMA OtherCalls ==
    ASSUME NEW c \in Callers, CallInv(c), config' = config,
           pc'[c] = pc[c], token'[c] = token[c], claims'[c] = claims[c],
           key'[c] = key[c], errors'[c] = errors[c], blank'[c] = blank[c],
           seen[c] \subseteq seen'[c], IsFiniteSet(seen'[c]),
           clocks[c] \subseteq clocks'[c], IsFiniteSet(clocks'[c]),
           InProgress(c) => registry' \in seen'[c] /\ clock' \in clocks'[c]
    PROVE  CallInv(c)'
<1>1. EarlyErrors(token[c])' = EarlyErrors(token[c])
  BY DEF EarlyErrors, ParseErrors
<1>2. Authentic(c) => Authentic(c)'
  BY DEF Authentic
<1>3. TypeExpected(c)' <=> TypeExpected(c)
  BY DEF TypeExpected
<1>4. Informed(c)'
  BY <1>1 DEF CallInv, Informed, InProgress, SignatureValid
<1>5. AcceptedForCause(c)'
  BY <1>1, <1>2, <1>3 DEF CallInv, AcceptedForCause
<1>6. Grounds(c) => Grounds(c)'
  BY <1>1, <1>3 DEF Grounds
<1>7. ASSUME NEW error, ResolverClaims(c, error)
      PROVE  ResolverClaims(c, error)'
  BY <1>7 DEF ResolverClaims
<1>8. RejectedForCause(c)'
  BY <1>2, <1>6, <1>7 DEF CallInv, RejectedForCause
<1> QED
  BY <1>4, <1>5, <1>8 DEF CallInv

LEMMA InvInit == Init => IInv
<1> SUFFICES ASSUME Init, NEW c \in Callers
             PROVE  CallInv(c)
  BY TypeInit DEF IInv
<1>1. pc[c] = "idle" /\ seen[c] = {} /\ clocks[c] = {}
  BY DEF Init
<1>2. IsFiniteSet({})
  BY FS_EmptySet
<1> QED
  BY <1>1, <1>2 DEF CallInv, Informed, AcceptedForCause, RejectedForCause, InProgress

\* A late rejection whose grounds are known, and which has no content error
\* unless the token is authentic or the resolver gave that error.
LEMMA LateRejection ==
    ASSUME NEW c \in Callers, TypeOK, CallInv(c), InProgress(c),
           NEW es, Reject(c, es), Grounds(c),
           \A error \in es \cap ContentErrors :
               Authentic(c) \/ ResolverClaims(c, error),
           UNCHANGED <<world, history, calls, token, claims, key>>
    PROVE  CallInv(c)'
<1>1. /\ pc'[c] = "rejected" /\ errors'[c] = es
      /\ UNCHANGED <<config, registry, clock, blank, seen, clocks, token, claims, key>>
  BY DEF Reject, TypeOK, world, history
<1>2. EarlyErrors(token[c])' = EarlyErrors(token[c])
  BY <1>1 DEF EarlyErrors, ParseErrors
<1>3. Informed(c)'
  BY <1>1, <1>2 DEF CallInv, Informed, InProgress
<1>4. Authentic(c) => Authentic(c)'
  BY <1>1 DEF Authentic
<1>5. Grounds(c)'
  BY <1>1, <1>2 DEF Grounds, TypeExpected
<1>6. \A error : ResolverClaims(c, error) => ResolverClaims(c, error)'
  BY <1>1 DEF ResolverClaims
<1>7. RejectedForCause(c)'
  BY <1>1, <1>4, <1>5, <1>6 DEF RejectedForCause
<1> QED
  BY <1>1, <1>3, <1>7 DEF CallInv, AcceptedForCause

\* A key of a resolver that verifies the signature makes the token authentic.
LEMMA KeyInHandAuthentic ==
    ASSUME NEW c \in Callers, TypeOK, CallInv(c),
           pc[c] \in {"verifying", "policy"}, SignatureValid(c)
    PROVE  Authentic(c)
<1>1. /\ EarlyErrors(token[c]) = {} /\ token[c] \in TokenType
      /\ config \in Configurations
  BY DEF CallInv, Informed, InProgress, TypeOK
<1>2. token[c].header.alg \in config.methods /\ HeaderValid(token[c].header)
  BY <1>1, PassedEarly
<1>3. PICK r \in seen[c] : Answered(token[c], r, key[c])
  BY DEF CallInv, Informed
<1>4. Genuine(token[c], r)
  BY <1>3 DEF Answered, Genuine, SignatureValid
<1> QED
  BY <1>2, <1>4 DEF Authentic

LEMMA InvNext == IInv /\ [Next]_vars => IInv'
<1> SUFFICES ASSUME IInv, [Next]_vars
             PROVE  \A d \in Callers : CallInv(d)'
  BY TypeNext DEF IInv
<1> TAKE d \in Callers
<1>1. TypeOK /\ CallInv(d)
  BY DEF IInv
<1>2. InProgress(d) => registry \in seen[d] /\ clock \in clocks[d]
  BY <1>1 DEF CallInv, Informed
<1>3. IsFiniteSet(seen[d]) /\ IsFiniteSet(clocks[d])
  BY <1>1 DEF CallInv, Informed
\* The caller that makes the step.
<1>4. ASSUME NEW t \in Tokens, VerifyToken(d, t)
      PROVE  CallInv(d)'
  <2>1. /\ UNCHANGED <<config, registry, clock, key>>
        /\ token'[d] = t /\ seen'[d] = {registry} /\ clocks'[d] = {clock}
        /\ pc'[d] \in {"resolving", "rejected"}
        /\ pc'[d] = "rejected" => /\ EarlyErrors(t) # {}
                                  /\ errors'[d] = EarlyErrors(t)
        /\ pc'[d] = "resolving" => EarlyErrors(t) = {}
    BY <1>1, <1>4 DEF VerifyToken, Reject, TypeOK, world
  <2>2. t \in TokenType /\ t.claims \in ClaimSets /\ config \in Configurations
    BY <1>1, TokensType DEF TokenType, TypeOK
  <2>3. ASSUME EarlyErrors(t) = {}, blank'[d]
        PROVE  claims'[d] = t.claims
    <3>1. RawTokenErrors(t) = {} /\ t.wellFormed
      BY <2>2, <2>3, PassedEarly
    <3>2. PICK value \in {NewClaims, claims[d]} :
             /\ blank' = [blank EXCEPT ![d] = value = NewClaims]
             /\ \/ claims' = [claims EXCEPT ![d] = DecodeOver(value, t.claims)]
                \/ RawTokenErrors(t) # {} \/ ~ t.wellFormed
      BY <1>4 DEF VerifyToken
    <3>3. blank \in [Callers -> BOOLEAN] /\ DOMAIN claims = Callers
      BY <1>1 DEF TypeOK
    <3>4. value = NewClaims
      BY <2>3, <3>2, <3>3, Zenon
    <3>5. claims' = [claims EXCEPT ![d] = DecodeOver(NewClaims, t.claims)]
      BY <3>1, <3>2, <3>4
    <3>6. claims'[d] = DecodeOver(NewClaims, t.claims)
      BY <3>3, <3>5
    <3> QED
      BY <2>2, <3>6, DecodeType, NewClaimsType
  <2>4. EarlyErrors(t)' = EarlyErrors(t) /\ EarlyErrors(token[d])' = EarlyErrors(t)
    BY <2>1 DEF EarlyErrors, ParseErrors
  <2>5. IsFiniteSet({registry}) /\ IsFiniteSet({clock})
    BY FS_Singleton
  <2>6. Informed(d)'
    BY <2>1, <2>3, <2>4, <2>5 DEF Informed, InProgress
  <2>7. RejectedForCause(d)'
    BY <2>1, <2>4, EarlyErrorsType DEF RejectedForCause, Grounds
  <2> QED
    BY <2>1, <2>6, <2>7 DEF CallInv, AcceptedForCause
<1>5. ASSUME pc[d] = "resolving",
             \/ Reply(d).errors # {}
             \/ ~ Initialized(Reply(d).key)
             \/ Reply(d).key.method # token[d].header.alg
      PROVE  Grounds(d) /\ InProgress(d)
  BY <1>2, <1>5 DEF Grounds, Genuine, Reply, InProgress
<1>6. ASSUME ResolverFailure(d)
      PROVE  CallInv(d)'
  <2> DEFINE es == Classified(Reply(d).errors \cup {"jwt.Unverifiable"})
  <2>1. CASE registry.kind = "failing"
    <3>1. Reply(d).errors = registry.errors
      BY <1>1, <2>1, AnswerType DEF Reply, TypeOK
    <3>2. registry \in seen[d]
      BY <1>1, <1>6 DEF ResolverFailure, CallInv, Informed, InProgress
    <3>3. \A error \in es : ResolverClaims(d, error)
      BY <2>1, <3>1, <3>2 DEF ResolverClaims
    <3> HIDE DEF es
    <3> QED
      BY <1>1, <1>5, <1>6, <3>3, LateRejection DEF ResolverFailure, es
  <2>2. CASE registry.kind # "failing"
    <3>1. Reply(d).errors \cap (ContentErrors \cup ContentMarks) = {}
      BY <1>1, <2>2, AnswerType DEF Reply, TypeOK
    <3>2. (Reply(d).errors \cup {"jwt.Unverifiable"})
              \cap (ContentErrors \cup ContentMarks) = {}
      BY <3>1 DEF ContentErrors, ContentMarks
    <3>3. es \cap ContentErrors = {}
      BY <3>2, ClassifiedContent
    <3> HIDE DEF es
    <3> QED
      BY <1>1, <1>5, <1>6, <3>3, LateRejection DEF ResolverFailure, es
  <2> QED
    BY <2>1, <2>2
<1>7. ASSUME UninitializedKey(d)
      PROVE  CallInv(d)'
  <2>1. {"jwt.Unverifiable", "ErrInvalidKey"} \cap (ContentErrors \cup ContentMarks) = {}
    BY DEF ContentErrors, ContentMarks
  <2> QED
    BY <1>1, <1>5, <1>7, <2>1, ClassifiedContent, LateRejection DEF UninitializedKey
<1>8. ASSUME UnexpectedAlgorithm(d)
      PROVE  CallInv(d)'
  <2>1. {"jwt.Unverifiable", "ErrUnexpectedAlgorithm"}
            \cap (ContentErrors \cup ContentMarks) = {}
    BY DEF ContentErrors, ContentMarks
  <2> QED
    BY <1>1, <1>5, <1>8, <2>1, ClassifiedContent, LateRejection DEF UnexpectedAlgorithm
<1>9. ASSUME KeyResolved(d)
      PROVE  CallInv(d)'
  <2>1. /\ pc[d] = "resolving" /\ pc'[d] = "verifying" /\ key'[d] = Reply(d).key
        /\ UNCHANGED <<config, registry, clock, blank, seen, clocks, token, claims>>
        /\ Answered(token[d], registry, key'[d])
    BY <1>1, <1>9 DEF KeyResolved, TypeOK, world, history, Reply, Answered
  <2>2. EarlyErrors(token[d])' = EarlyErrors(token[d])
    BY <2>1 DEF EarlyErrors, ParseErrors
  <2>3. Informed(d)'
    BY <1>1, <2>1, <2>2 DEF CallInv, Informed, InProgress
  <2> QED
    BY <2>1, <2>3 DEF CallInv, AcceptedForCause, RejectedForCause
<1>10. ASSUME SignatureInvalid(d)
       PROVE  CallInv(d)'
  <2>1. PICK r \in seen[d] : Answered(token[d], r, key[d])
    BY <1>1, <1>10 DEF SignatureInvalid, CallInv, Informed
  <2>2. Grounds(d) /\ InProgress(d)
    BY <1>10, <2>1 DEF SignatureInvalid, SignatureValid, Grounds, Answered,
                       Genuine, InProgress
  <2>3. {"jwt.SignatureInvalid"} \cap (ContentErrors \cup ContentMarks) = {}
    BY DEF ContentErrors, ContentMarks
  <2> QED
    BY <1>1, <1>10, <2>2, <2>3, ClassifiedContent, LateRejection DEF SignatureInvalid
<1>11. ASSUME ClaimsRejected(d)
       PROVE  CallInv(d)'
  <2>1. /\ pc[d] = "verifying" /\ SignatureValid(d)
        /\ ValidatorErrors(config, claims[d], clock) # {}
    BY <1>11, ClaimsErrorsType DEF ClaimsRejected
  <2>2. Grounds(d) /\ InProgress(d)
    BY <1>2, <2>1 DEF Grounds, InProgress
  <2> QED
    BY <1>1, <1>11, <2>1, <2>2, KeyInHandAuthentic, LateRejection DEF ClaimsRejected
<1>12. ASSUME ClaimsValid(d)
       PROVE  CallInv(d)'
  <2>1. /\ pc[d] = "verifying" /\ pc'[d] = "policy" /\ SignatureValid(d)
        /\ ValidatorErrors(config, claims[d], clock) = {}
        /\ UNCHANGED <<config, registry, clock, blank, seen, clocks, token, claims, key>>
    BY <1>1, <1>12, ClaimsErrorsType DEF ClaimsValid, TypeOK, world, history
  <2>2. EarlyErrors(token[d])' = EarlyErrors(token[d])
    BY <2>1 DEF EarlyErrors, ParseErrors
  <2>3. Informed(d)'
    BY <1>1, <1>2, <2>1, <2>2 DEF CallInv, Informed, InProgress, SignatureValid
  <2> QED
    BY <2>1, <2>3 DEF CallInv, AcceptedForCause, RejectedForCause
<1>13. pc[d] = "policy" => Authentic(d) /\ EarlyErrors(token[d]) = {} /\ InProgress(d)
  BY <1>1, KeyInHandAuthentic DEF CallInv, Informed, InProgress
<1>14. ASSUME UnexpectedType(d)
       PROVE  CallInv(d)'
  <2>1. Grounds(d)
    BY <1>14 DEF UnexpectedType, Grounds
  <2> QED
    BY <1>1, <1>13, <1>14, <2>1, LateRejection DEF UnexpectedType
<1>15. ASSUME LifetimeRejected(d)
       PROVE  CallInv(d)'
  <2>1. Grounds(d)
    BY <1>2, <1>13, <1>15 DEF LifetimeRejected, Grounds
  <2> QED
    BY <1>1, <1>13, <1>15, <2>1, LateRejection DEF LifetimeRejected
<1>16. ASSUME Accept(d)
       PROVE  CallInv(d)'
  <2>1. /\ pc[d] = "policy" /\ pc'[d] = "accepted" /\ TypeExpected(d)
        /\ ValidateLifetime(config, claims[d], clock) = "none"
        /\ UNCHANGED <<config, registry, clock, blank, seen, clocks, token, claims, key>>
    BY <1>1, <1>16 DEF Accept, TypeOK, world, history
  <2>2. EarlyErrors(token[d])' = EarlyErrors(token[d])
    BY <2>1 DEF EarlyErrors, ParseErrors
  <2>3. Informed(d)'
    BY <1>1, <2>1, <2>2 DEF CallInv, Informed, InProgress
  <2>4. Authentic(d)' /\ TypeExpected(d)'
    BY <1>13, <2>1 DEF Authentic, TypeExpected
  <2>5. \E first, second \in clocks[d] :
           /\ ValidatorErrors(config, claims[d], first) = {}
           /\ ValidateLifetime(config, claims[d], second) = "none"
    BY <1>1, <1>2, <1>13, <2>1 DEF CallInv, Informed
  <2>6. AcceptedForCause(d)'
    BY <1>13, <2>1, <2>2, <2>4, <2>5 DEF AcceptedForCause
  <2> QED
    BY <2>1, <2>3, <2>6 DEF CallInv, RejectedForCause
<1>20. ASSUME RefuseCall(d)
       PROVE  CallInv(d)'
  <2>1. /\ pc'[d] = "rejected" /\ token'[d] = NoToken /\ config' = config
        /\ seen'[d] = {registry} /\ clocks'[d] = {clock}
    BY <1>1, <1>20 DEF RefuseCall, Reject, TypeOK, world
  <2>2. EarlyErrors(token[d])' # {}
    BY <2>1 DEF EarlyErrors, RawTokenErrors, NoToken
  <2>3. IsFiniteSet({registry}) /\ IsFiniteSet({clock})
    BY FS_Singleton
  <2>4. Informed(d)'
    BY <2>1, <2>2, <2>3 DEF Informed, InProgress
  <2>5. RejectedForCause(d)'
    BY <2>1, <2>2 DEF RejectedForCause, Grounds
  <2> QED
    BY <2>1, <2>4, <2>5 DEF CallInv, AcceptedForCause
\* The others, and the environment.
<1>17. ASSUME NEW c \in Callers, c # d,
              Step(c) \/ RefuseCall(c) \/ \E t \in Tokens : VerifyToken(c, t)
       PROVE  CallInv(d)'
  <2>1. /\ config' = config /\ registry' = registry /\ clock' = clock
        /\ pc'[d] = pc[d] /\ token'[d] = token[d] /\ claims'[d] = claims[d]
        /\ key'[d] = key[d] /\ errors'[d] = errors[d] /\ blank'[d] = blank[d]
        /\ seen'[d] = seen[d] /\ clocks'[d] = clocks[d]
    <3> USE DEF TypeOK, world, history, Reject
    <3>1. CASE RefuseCall(c) \/ \E t \in Tokens : VerifyToken(c, t)
      BY <1>1, <1>17, <3>1 DEF RefuseCall, VerifyToken
    <3>2. CASE ResolveKeyStep(c)
      BY <1>1, <1>17, <3>2 DEF ResolveKeyStep, ResolverFailure, UninitializedKey,
                               UnexpectedAlgorithm, KeyResolved
    <3>3. CASE SignatureInvalid(c) \/ ClaimsRejected(c) \/ ClaimsValid(c)
      BY <1>1, <1>17, <3>3 DEF SignatureInvalid, ClaimsRejected, ClaimsValid
    <3>4. CASE UnexpectedType(c) \/ LifetimeRejected(c) \/ Accept(c)
      BY <1>1, <1>17, <3>4 DEF UnexpectedType, LifetimeRejected, Accept
    <3> QED
      BY <1>17, <3>1, <3>2, <3>3, <3>4 DEF Step
  <2> QED
    BY <1>1, <1>2, <1>3, <2>1, OtherCalls
<1>18. ASSUME MoveClock \/ ChangeRegistry
       PROVE  CallInv(d)'
  <2>1. /\ config' = config
        /\ pc'[d] = pc[d] /\ token'[d] = token[d] /\ claims'[d] = claims[d]
        /\ key'[d] = key[d] /\ errors'[d] = errors[d] /\ blank'[d] = blank[d]
        /\ seen'[d] \in {seen[d], seen[d] \cup {registry'}}
        /\ clocks'[d] \in {clocks[d], clocks[d] \cup {clock'}}
        /\ InProgress(d) => registry' \in seen'[d] /\ clock' \in clocks'[d]
    BY <1>2, <1>18 DEF MoveClock, ChangeRegistry
  <2>2. /\ IsFiniteSet(seen[d] \cup {registry'})
        /\ IsFiniteSet(clocks[d] \cup {clock'})
    BY <1>3, FS_AddElement
  <2>3. IsFiniteSet(seen'[d]) /\ IsFiniteSet(clocks'[d])
    BY <1>3, <2>1, <2>2
  <2> QED
    BY <1>1, <2>1, <2>3, OtherCalls
<1>19. CASE UNCHANGED vars
  <2>1. /\ config' = config /\ registry' = registry /\ clock' = clock
        /\ pc'[d] = pc[d] /\ token'[d] = token[d] /\ claims'[d] = claims[d]
        /\ key'[d] = key[d] /\ errors'[d] = errors[d] /\ blank'[d] = blank[d]
        /\ seen'[d] = seen[d] /\ clocks'[d] = clocks[d]
    BY <1>19 DEF vars
  <2> QED
    BY <1>1, <1>2, <1>3, <2>1, OtherCalls
<1> QED
  BY <1>4, <1>6, <1>7, <1>8, <1>9, <1>10, <1>11, <1>12, <1>14, <1>15, <1>16,
     <1>17, <1>18, <1>19, <1>20 DEF Next, Step, ResolveKeyStep

\* At every point of a call: what it has checked so far, and which resolver
\* and which instants since it began explain it.
THEOREM IInvAlways == Spec => []IInv
<1> QED
  BY InvInit, InvNext, PTL DEF Spec

-----------------------------------------------------------------------------
\* The verdict on the claims is favourable exactly if both evaluators are.
LEMMA VerdictNone ==
    ASSUME NEW cfg, NEW claimSet, NEW first, NEW second
    PROVE  ClaimsVerdict(cfg, claimSet, first, second) = "none" <=>
              /\ ValidatorErrors(cfg, claimSet, first) = {}
              /\ ValidateLifetime(cfg, claimSet, second) = "none"
<1> DEFINE es == ClaimsErrors(cfg, claimSet, first)
<1>1. ASSUME ValidatorErrors(cfg, claimSet, first) # {}
      PROVE  ClassifyVerifyError(es) # "none"
  <2>1. "jwt.InvalidClaims" \in es /\ "context" \notin es
    BY <1>1 DEF ClaimsErrors, ValidatorErrors
  <2> HIDE DEF es
  <2> QED
    BY <2>1 DEF ClassifyVerifyError
<1> QED
  BY <1>1 DEF ClaimsVerdict

\* An accepted token was signed by a key trusted for its kid and algorithm at
\* some moment of the call, with an allowed algorithm, is of the configured
\* type, and the claims returned are its own.
THEOREM AcceptedIsAuthenticAlways == Spec => []AcceptedIsAuthentic
<1>1. IInv => AcceptedIsAuthentic
  BY DEF IInv, CallInv, AcceptedForCause, Informed, TypeExpected,
         AcceptedIsAuthentic
<1> QED
  BY <1>1, IInvAlways, PTL

\* The claims accepted satisfy the whole policy at two instants the clock
\* showed during the call, and had not expired at the first.
THEOREM AcceptedIsTimelyAlways == Spec => []AcceptedIsTimely
<1>1. ASSUME IInv, NEW c \in Callers, pc[c] = "accepted"
      PROVE  \E first, second \in clocks[c] :
                /\ ClaimsVerdict(config, claims[c], first, second) = "none"
                /\ claims[c].exp = Absent \/ first < claims[c].exp + config.leeway
  <2>1. PICK first \in clocks[c], second \in clocks[c] :
           /\ ValidatorErrors(config, claims[c], first) = {}
           /\ ValidateLifetime(config, claims[c], second) = "none"
    BY <1>1 DEF IInv, CallInv, AcceptedForCause
  <2>2. ~ Expired(config, claims[c], first) /\ ~ ClaimsInvalid(config, claims[c])
    BY <2>1 DEF ValidatorErrors
  <2>3. /\ claims[c].exp \in Int \cup {Absent, Unreadable}
        /\ config.leeway \in Nat /\ first \in Int
    BY <1>1, VerifierAssumption DEF IInv, TypeOK, ClaimSets, TimeClaims, Configs
  <2>4. claims[c].exp = Absent \/ first < claims[c].exp + config.leeway
    BY <2>2, <2>3 DEF Expired, ClaimsInvalid
  <2> QED
    BY <2>1, <2>4, VerdictNone
<1>2. IInv => AcceptedIsTimely
  BY <1>1 DEF AcceptedIsTimely
<1> QED
  BY <1>2, IInvAlways, PTL

\* What a rejection says about a token's content, it says of an authentic one.
THEOREM ContentErrorsAreAuthenticAlways == Spec => []ContentErrorsAreAuthentic
<1>1. IInv => ContentErrorsAreAuthentic
  BY DEF IInv, CallInv, RejectedForCause, ContentErrorsAreAuthentic
<1> QED
  BY <1>1, IInvAlways, PTL

\* While resolver and clock stay the same, a call accepts exactly the fit
\* tokens, whatever other callers of the verifier do.
THEOREM UndisturbedVerdictAlways == Spec => []UndisturbedVerdict
<1>1. ASSUME IInv, NEW c \in Callers, Undisturbed(c)
      PROVE  pc[c] = "accepted" <=> Fit(c)
  <2>1. /\ CallInv(c) /\ token[c] \in TokenType /\ config \in Configurations
        /\ blank[c] /\ pc[c] \in {"accepted", "rejected"}
    BY <1>1 DEF IInv, TypeOK, Undisturbed
  <2>2. /\ \A x, y \in seen[c] : x = y
        /\ \A x, y \in clocks[c] : x = y
    <3>1. /\ IsFiniteSet(seen[c]) /\ Cardinality(seen[c]) = 1
          /\ IsFiniteSet(clocks[c]) /\ Cardinality(clocks[c]) = 1
      BY <1>1, <2>1 DEF CallInv, Informed, Undisturbed
    <3>2. (\E x : seen[c] = {x}) /\ (\E x : clocks[c] = {x})
      BY <3>1, FS_Singleton
    <3> QED
      BY <3>2
  <2>3. EarlyErrors(token[c]) = {} <=>
           /\ RawTokenErrors(token[c]) = {}
           /\ token[c].wellFormed /\ token[c].encoded
           /\ token[c].header.alg \in config.methods
           /\ HeaderValid(token[c].header)
    BY <2>1, PassedEarly
  <2>4. EarlyErrors(token[c]) = {} => claims[c] = token[c].claims
    BY <2>1 DEF CallInv, Informed
  <2>5. ASSUME pc[c] = "accepted"
        PROVE  Fit(c)
    <3>1. /\ EarlyErrors(token[c]) = {} /\ Authentic(c) /\ TypeExpected(c)
          /\ \E now \in clocks[c] :
                /\ ValidatorErrors(config, claims[c], now) = {}
                /\ ValidateLifetime(config, claims[c], now) = "none"
      BY <2>1, <2>2, <2>5 DEF CallInv, AcceptedForCause
    <3> QED
      BY <2>3, <2>4, <3>1, VerdictNone DEF Fit, TypeExpected
  <2>6. ASSUME pc[c] = "rejected", Fit(c)
        PROVE  FALSE
    <3>1. EarlyErrors(token[c]) = {} /\ claims[c] = token[c].claims
      BY <2>3, <2>4, <2>6 DEF Fit, Authentic
    <3>2. /\ \A r \in seen[c] : Genuine(token[c], r)
          /\ TypeExpected(c)
      BY <2>2, <2>6 DEF Fit, Authentic, TypeExpected
    <3>3. \A now \in clocks[c] :
             /\ ValidatorErrors(config, claims[c], now) = {}
             /\ ValidateLifetime(config, claims[c], now) = "none"
      BY <2>2, <2>6, <3>1, VerdictNone DEF Fit
    <3> QED
      BY <2>1, <2>6, <3>1, <3>2, <3>3 DEF CallInv, RejectedForCause, Grounds
  <2> QED
    BY <2>1, <2>5, <2>6
<1>2. IInv => UndisturbedVerdict
  BY <1>1 DEF UndisturbedVerdict
<1> QED
  BY <1>2, IInvAlways, PTL
=============================================================================
