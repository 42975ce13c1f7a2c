------------------------- MODULE JWTPolicyEvaluation -------------------------
(***************************************************************************)
(* A verifier is configured option by option, then judges one set of       *)
(* claims again and again while time moves. The validator reads the clock, *)
(* and validateLifetime reads it once more, delay later.                   *)
(***************************************************************************)
EXTENDS JWTPolicy, Sequences

CONSTANTS
    Options,            \* the options an application tries
    Claims,             \* the claims presented
    Readings,           \* the instants of the first reading
    Delays,             \* how much later the second one may be
    MaxOptions          \* bound: options given to NewVerifier

ASSUME EvaluationAssumption ==
    /\ Claims \subseteq ClaimSets
    /\ Readings \subseteq Int
    /\ Delays \subseteq Nat
    /\ MaxOptions \in Nat
    /\ \A option \in Options :
          option.kind \in DurationOptions \cup {"leeway"} => option.value \in Int

VARIABLES
    phase,      \* configuring, refused (NewVerifier failed) or ready
    options,    \* history: the options applied so far
    built,      \* the configuration they built
    presented,  \* the claims to judge
    reading,    \* the first reading
    delay       \* the second is reading + delay

evaluationVars == <<phase, options, built, presented, reading, delay>>

NoClaims == [exp |-> Absent, nbf |-> Absent, iat |-> Absent, iss |-> NoText,
             sub |-> NoText, aud |-> {}, selfValid |-> TRUE]

EvaluationInit ==
    /\ phase = "configuring"
    /\ options = <<>>
    /\ built = DefaultConfig
    /\ presented = NoClaims
    /\ reading = 0
    /\ delay = 0

ApplyOption(option) ==
    /\ phase = "configuring" /\ Len(options) < MaxOptions
    /\ ValidOption(option)
    /\ built' = Apply(built, option)
    /\ options' = Append(options, option)
    /\ UNCHANGED <<phase, presented, reading, delay>>

RefuseOption(option) ==
    /\ phase = "configuring" /\ Len(options) < MaxOptions
    /\ ~ ValidOption(option)
    /\ phase' = "refused"
    /\ UNCHANGED <<options, built, presented, reading, delay>>

\* WithMethods is required.
MethodsMissing ==
    /\ phase = "configuring"
    /\ built.methods = {}
    /\ phase' = "refused"
    /\ UNCHANGED <<options, built, presented, reading, delay>>

\* The verifier is made and given claims to judge.
NewVerifier ==
    /\ phase = "configuring"
    /\ built.methods # {}
    /\ phase' = "ready"
    /\ presented' \in Claims
    /\ reading' \in Readings
    /\ delay' \in Delays
    /\ UNCHANGED <<options, built>>

\* Time passes, or the application's clock is set back.
ReadAgain ==
    /\ phase = "ready"
    /\ reading' \in Readings
    /\ delay' \in Delays
    /\ UNCHANGED <<phase, options, built, presented>>

EvaluationNext ==
    \/ \E option \in Options : ApplyOption(option) \/ RefuseOption(option)
    \/ MethodsMissing \/ NewVerifier \/ ReadAgain

EvaluationSpec == EvaluationInit /\ [][EvaluationNext]_evaluationVars

-----------------------------------------------------------------------------
Verdict == ClaimsVerdict(built, presented, reading, reading + delay)

-----------------------------------------------------------------------------
(* What each option promises on its own, as jwt/README.md ("Policy         *)
(* Interactions") and the options' comments describe it.                   *)

Slot(option) ==
    CASE option.kind \in AudienceOptions -> "audiences"
      [] option.kind \in {"requireExpiration", "allowMissingExpiration"} -> "exp"
      [] OTHER -> option.kind

\* Options of one slot replace each other; the last one counts.
Effective ==
    {options[i] : i \in {j \in DOMAIN options :
        \A k \in j + 1 .. Len(options) : Slot(options[k]) # Slot(options[j])}}

Leeway ==
    IF \E o \in Effective : o.kind = "leeway"
    THEN (CHOOSE o \in Effective : o.kind = "leeway").value ELSE 0

IsTime(claim) == claim \in Int

Promise(option) ==
    LET present == IsTime(presented.iat)
        age == reading + delay - presented.iat   \* by the second reading
    IN
    /\ option.kind = "issuer" => presented.iss = option.value
    /\ option.kind = "subject" => presented.sub = option.value
    /\ option.kind = "audience" => option.value \cap presented.aud # {}
    /\ option.kind = "allAudiences" => option.value \subseteq presented.aud
    /\ option.kind = "requireExpiration" => IsTime(presented.exp)
    /\ option.kind = "requireNotBefore" => IsTime(presented.nbf)
    /\ option.kind = "validateIssuedAt" =>
          presented.iat = Absent \/ (present /\ presented.iat <= reading + Leeway)
    /\ option.kind = "requireIssuedAt" =>
          present /\ presented.iat <= reading + Leeway
    /\ option.kind = "maxAge" =>
          \/ presented.iat = Absent
          \/ present /\ age \in - Leeway .. option.value + Leeway
    /\ option.kind = "maxLifetime" =>
          \/ presented.iat = Absent
          \/ /\ present
             /\ IsTime(presented.exp) =>
                   presented.exp - presented.iat \in 1 .. option.value

\* The baseline without any option: exp is required and validated, nbf is
\* validated when present.
Baseline ==
    /\ \/ IsTime(presented.exp) /\ reading < presented.exp + Leeway
       \/ /\ presented.exp = Absent
          /\ \E o \in Effective : o.kind = "allowMissingExpiration"
    /\ \/ presented.nbf = Absent
       \/ IsTime(presented.nbf) /\ presented.nbf <= reading + Leeway
    /\ presented.selfValid

\* "A token is accepted only when every baseline and application-defined
\* constraint succeeds", and then it is accepted: whatever the options, their
\* number and their order, the merged configuration and its two evaluators
\* accept exactly the claims for which the effective options all hold
\* (parserOptions options.go:58, validateLifetime verifier.go:169).
OptionsArePromises ==
    phase = "ready" =>
        (Verdict = "none" <=> Baseline /\ \A o \in Effective : Promise(o))

\* A rejection has a direction in time. What is expired, too old or lives
\* too long is never accepted at a later reading; what is not valid yet or
\* issued in the future would not have been accepted at an earlier one. A
\* caller may retry the second kind and must drop the first.
RejectionsHaveADirection ==
    [][phase = "ready" =>
        /\ /\ Verdict \in {"ErrExpiredToken", "ErrInvalidLifetime"}
           /\ reading' >= reading /\ reading' + delay' >= reading + delay
           => Verdict' # "none"
        /\ /\ Verdict \in {"ErrNotYetValid", "ErrIssuedInFuture"}
           /\ reading' <= reading /\ reading' + delay' <= reading + delay
           => Verdict' # "none"]_evaluationVars
=============================================================================
