------------------------------ MODULE JWTPolicy ------------------------------
(***************************************************************************)
(* The verification policy of jwt.Verifier: how the options build the      *)
(* configuration (jwt/options.go), what golang-jwt's validator makes of it *)
(* for the registered claims, and the verifier's own lifetime policy       *)
(* (validateLifetime, jwt/verifier.go).                                    *)
(*                                                                         *)
(* Times and durations are integers of one unit, the second of a           *)
(* NumericDate. A time claim is a time, Absent, or Unreadable: a value the *)
(* claims' getter returns an error for.                                    *)
(***************************************************************************)
EXTENDS Integers

CONSTANTS
    Absent, Unreadable,
    Texts, NoText,      \* values of iss, sub, aud and typ; the empty string
    Methods             \* the alg values of the signing methods

ASSUME PolicyAssumption ==
    /\ Absent \notin Int /\ Unreadable \notin Int /\ Absent # Unreadable
    /\ NoText \notin Texts

TimeClaims == Int \cup {Absent, Unreadable}

\* The registered claims the policy reads; selfValid is what the Validate
\* method of the application's claims type answers, if it has one.
ClaimSets == [exp : TimeClaims, nbf : TimeClaims, iat : TimeClaims,
              iss : Texts \cup {NoText}, sub : Texts \cup {NoText},
              aud : SUBSET Texts, selfValid : BOOLEAN]

Configs == [methods : SUBSET Methods, typ : Texts \cup {NoText},
            issuer : Texts \cup {NoText}, subject : Texts \cup {NoText},
            audiences : SUBSET Texts, audienceMode : {"any", "all"},
            leeway : Nat, maxLifetime : Nat, maxAge : Nat,
            requireExp : BOOLEAN, requireNBF : BOOLEAN,
            validateIAT : BOOLEAN, requireIAT : BOOLEAN]

-----------------------------------------------------------------------------
(* Configuration. An option is a record [kind, value]; flags have no value.*)

DefaultConfig ==
    [methods |-> {}, typ |-> NoText, issuer |-> NoText, subject |-> NoText,
     audiences |-> {}, audienceMode |-> "any", leeway |-> 0,
     maxLifetime |-> 0, maxAge |-> 0, requireExp |-> TRUE,
     requireNBF |-> FALSE, validateIAT |-> FALSE, requireIAT |-> FALSE]

TextOptions == {"type", "issuer", "subject"}
AudienceOptions == {"audience", "allAudiences"}
DurationOptions == {"maxLifetime", "maxAge"}
FlagOptions == {"requireExpiration", "allowMissingExpiration",
                "requireNotBefore", "validateIssuedAt", "requireIssuedAt"}

\* What the apply methods accept; a nil option is refused like a bad value.
ValidOption(option) ==
    \/ option.kind \in TextOptions /\ option.value \in Texts
    \/ option.kind = "methods" /\ option.value # {}
                               /\ option.value \subseteq Methods
    \/ option.kind \in AudienceOptions /\ option.value # {}
                                       /\ option.value \subseteq Texts
    \/ option.kind = "leeway" /\ option.value >= 0
    \/ option.kind \in DurationOptions /\ option.value > 0
    \/ option.kind \in FlagOptions

\* Mutant: RequireIssuedAt only asks for the claim.
ApplyFlagWithoutValidation(config, kind) ==
    [config EXCEPT
        !.requireExp = (@ \/ kind = "requireExpiration")
                       /\ kind # "allowMissingExpiration",
        !.requireNBF = @ \/ kind = "requireNotBefore",
        !.validateIAT = @ \/ kind = "validateIssuedAt",
        !.requireIAT = @ \/ kind = "requireIssuedAt"]

ApplyFlag(config, kind) ==
    [config EXCEPT
        !.requireExp = (@ \/ kind = "requireExpiration")
                       /\ kind # "allowMissingExpiration",
        !.requireNBF = @ \/ kind = "requireNotBefore",
        !.validateIAT = @ \/ kind \in {"validateIssuedAt", "requireIssuedAt"},
        !.requireIAT = @ \/ kind = "requireIssuedAt"]

Apply(config, option) ==
    CASE option.kind = "methods" -> [config EXCEPT !.methods = option.value]
      [] option.kind = "type" -> [config EXCEPT !.typ = option.value]
      [] option.kind = "issuer" -> [config EXCEPT !.issuer = option.value]
      [] option.kind = "subject" -> [config EXCEPT !.subject = option.value]
      [] option.kind = "audience" ->
            [config EXCEPT !.audiences = option.value, !.audienceMode = "any"]
      [] option.kind = "allAudiences" ->
            [config EXCEPT !.audiences = option.value, !.audienceMode = "all"]
      [] option.kind = "leeway" -> [config EXCEPT !.leeway = option.value]
      [] option.kind = "maxLifetime" ->
            [config EXCEPT !.maxLifetime = option.value]
      [] option.kind = "maxAge" -> [config EXCEPT !.maxAge = option.value]
      [] OTHER -> ApplyFlag(config, option.kind)

-----------------------------------------------------------------------------
(* The registered claims, as golang-jwt's validator checks them with one   *)
(* clock reading. Every check runs; the errors are joined.                 *)

Expired(config, claims, now) ==
    claims.exp \in Int /\ now >= claims.exp + config.leeway

NotValidYet(config, claims, now) ==
    claims.nbf \in Int /\ now < claims.nbf - config.leeway

UsedBeforeIssued(config, claims, now) ==
    config.validateIAT /\ claims.iat \in Int /\ now < claims.iat - config.leeway

WrongAudience(config, claims) ==
    /\ config.audiences # {}
    /\ IF config.audienceMode = "all"
       THEN ~ config.audiences \subseteq claims.aud
       ELSE config.audiences \cap claims.aud = {}

\* Everything reported as ErrInvalidClaims: a required claim that is missing,
\* one that cannot be read, and values other than those expected.
ClaimsInvalid(config, claims) ==
    \/ config.requireExp /\ claims.exp = Absent
    \/ config.requireNBF /\ claims.nbf = Absent
    \/ Unreadable \in {claims.exp, claims.nbf}
    \/ config.validateIAT /\ claims.iat = Unreadable
    \/ config.issuer # NoText /\ claims.iss # config.issuer
    \/ config.subject # NoText /\ claims.sub # config.subject
    \/ WrongAudience(config, claims)
    \/ ~ claims.selfValid

-----------------------------------------------------------------------------
(* validateLifetime, with a clock reading of its own.                      *)

LifetimeConfigured(config) ==
    \/ config.requireIAT \/ config.validateIAT
    \/ config.maxAge # 0 \/ config.maxLifetime # 0

IssuedInFuture(config, claims, now) ==
    /\ config.validateIAT \/ config.maxAge > 0
    /\ claims.iat > now + config.leeway

\* Mutant: After instead of Before, which refuses the young tokens.
TooYoung(config, claims, now) ==
    config.maxAge > 0 /\ claims.iat > now - config.maxAge - config.leeway

TooOld(config, claims, now) ==
    config.maxAge > 0 /\ claims.iat < now - config.maxAge - config.leeway

LivesTooLong(config, claims) ==
    /\ config.maxLifetime > 0 /\ claims.exp \in Int
    /\ \/ claims.exp - claims.iat <= 0
       \/ claims.exp - claims.iat > config.maxLifetime

\* The error of validateLifetime, "none" if it accepts. That exp can be read
\* is known by then: the validator read it.
ValidateLifetime(config, claims, now) ==
    IF ~ LifetimeConfigured(config) \/ (claims.iat = Absent /\ ~ config.requireIAT)
    THEN "none"
    ELSE IF claims.iat \in {Absent, Unreadable} THEN "ErrInvalidLifetime"
    ELSE IF IssuedInFuture(config, claims, now) THEN "ErrIssuedInFuture"
    ELSE IF TooOld(config, claims, now) \/ LivesTooLong(config, claims)
         THEN "ErrInvalidLifetime"
    ELSE "none"

-----------------------------------------------------------------------------
(* Errors. An error is the set of the sentinels errors.Is finds in it.     *)

\* The errors of the validator, joined.
ValidatorErrors(config, claims, now) ==
    {error \in {"jwt.Expired", "jwt.NotValidYet", "jwt.UsedBeforeIssued",
                "jwt.OtherClaim"} :
        \/ error = "jwt.Expired" /\ Expired(config, claims, now)
        \/ error = "jwt.NotValidYet" /\ NotValidYet(config, claims, now)
        \/ error = "jwt.UsedBeforeIssued" /\ UsedBeforeIssued(config, claims, now)
        \/ error = "jwt.OtherClaim" /\ ClaimsInvalid(config, claims)}

\* What ParseWithClaims makes of them.
ClaimsErrors(config, claims, now) ==
    LET errors == ValidatorErrors(config, claims, now) IN
    IF errors = {} THEN {} ELSE errors \cup {"jwt.InvalidClaims"}

\* The module's own errors of key resolution.
UnchangedErrors == {"ErrUnknownKey", "ErrMissingKeyID", "ErrUnexpectedAlgorithm",
                    "ErrKeyUnavailable", "ErrInvalidKey"}

\* The sentinel classifyVerifyError wraps the error in, by the first case
\* that applies; "none" where the error is returned as it is.
ClassifyVerifyError(errors) ==
    IF "context" \in errors THEN "none"
    ELSE IF {"jwt.Malformed", "ErrInvalidHeader"} \cap errors # {}
         THEN "ErrMalformedToken"
    ELSE IF "jwt.Expired" \in errors THEN "ErrExpiredToken"
    ELSE IF "jwt.NotValidYet" \in errors THEN "ErrNotYetValid"
    ELSE IF "jwt.UsedBeforeIssued" \in errors THEN "ErrIssuedInFuture"
    ELSE IF "jwt.SignatureInvalid" \in errors THEN "ErrInvalidSignature"
    ELSE IF {"jwt.InvalidClaims", "jwt.OtherClaim"} \cap errors # {}
         THEN "ErrInvalidClaims"
    ELSE IF UnchangedErrors \cap errors # {} THEN "none"
    ELSE "ErrVerify"

\* The claims as a whole, with the two readings of the clock.
ClaimsVerdict(config, claims, first, second) ==
    IF ValidatorErrors(config, claims, first) # {}
    THEN ClassifyVerifyError(ClaimsErrors(config, claims, first))
    ELSE ValidateLifetime(config, claims, second)
=============================================================================
