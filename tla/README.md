# A verification development for xjose

xjose is a Go library that puts strict, opinionated APIs over go-jose and
golang-jwt: signed messages (`jws`), encrypted messages (`jwe`), tokens (`jwt`)
and public key sets (`jwk`). It keeps no global state and persists nothing. What
makes it hard is elsewhere: untrusted input meets *trusted key resolvers* that
belong to the application, may be slow, may fail and may change their minds
during a call; contexts are cancelled; one verifier serves many goroutines; time
is read twice; and an aggregate verdict over several signatures, or over a dozen
options, must be exactly the one the documentation promises.

This directory holds TLA+ models of that logic, the TLC configurations that check
them on small instances, and TLAPS proofs of the central facts for every
instance. Cryptography is idealised throughout: a signature verifies under the
key that made it and under no other.

## 1. The system

| component | source | state | operations |
|---|---|---|---|
| signature policies | `jws/policy.go` | an immutable policy tree | validate (at configuration), evaluate over the results of a message |
| JWS MultiVerifier | `jws/multi_verifier.go` | per call: results, a flag, the key in hand | `VerifyMessage`: limits, loop over signatures, policy |
| JWS Verifier and resolvers | `jws/verifier.go`, `jws/resolver.go` | static, JWK or JWKS resolver | `VerifyMessage`, `VerifyDetached`, `Resolve` |
| JWS Signer, MultiSigner, keys, options | `jws/signer.go`, `multi_signer.go`, `key.go`, `options.go` | backend and configuration | construct (merge key metadata), `Sign`, `SignDetached` |
| JWT options and claims policy | `jwt/options.go`, the checks in `jwt/verifier.go` | configuration | apply options in order, judge claims |
| JWT Verifier | `jwt/verifier.go`, `header.go`, `errors.go` | per call: the caller's claims value, the key | `Verify`, `VerifyToken` |
| JWT keys, StaticKeySet | `jwt/key.go`, `jwt/keyset.go` | immutable keys | construct, resolve |
| JWT Signer | `jwt/signer.go` | signing key and template headers | `Sign` |
| JWK Key and Set | `jwk/key.go`, `jwk/set.go` | immutable public keys | parse, export, resolve |
| JWE encrypters | `jwe/encrypter.go`, `multi_encrypter.go`, `options.go`, `key.go` | configuration, copied keys | construct (options in order), `Encrypt`, multi-recipient with AAD |
| JWE decrypters | `jwe/decrypter.go`, `multi_decrypter.go`, `header.go` | per call: the shared header, the key | `DecryptToken` of both: limits, policy, resolver, policy again |
| nested tokens | `jwe/nested.go` | a JWT signer/verifier and a JWE encrypter/decrypter | `Issue`, `VerifyToken` |

**Interactions.** Everything is a call. A verifier calls its resolver (an
application callback, a `jwt.StaticKeySet`, a `jwk.Set`, or the JWK/JWKS
resolvers of `jws`) in the middle of a verification, with untrusted header values
as hints; a MultiVerifier calls its policy (possibly an application function) at
the end; a JWT verifier hands the caller's claims value to the parser, which fills
it before anything has been authenticated, and calls the application's clock
twice; a nested verifier runs a JWE decryption and then a JWT verification. A
`jwt.StaticKeySet` is exported as a JWK Set document, which other processes fetch.

**What is hard.** Keys rotated, revoked or unavailable between two resolutions
of one call; cancellation between two signatures; the early exit of one policy
and of no other; per-signature failures against failures of the call; identities
counted twice; two clock readings with a clock that may go back; options that
override, extend or imply each other; errors joined by a library and then
classified by priority; a claims value used again; key sets looked up by two
implementations that must agree. `PROJECT.json` lists each under `hazards`, at its
line and with the properties that are about it.

**What makes each part correct.**
- *policies*: a configured policy accepts exactly what its documentation
  promises, by distinct approvers, and what the application's functions in it
  agree to; more signatures revoke approval only under `RequireAllSignatures` or
  such a function.
- *MultiVerifier*: what is accepted rests on enough genuine signatures under keys
  trusted during the call; a policy error is a verdict on the whole message, never
  an infrastructure failure in disguise; nothing starts after cancellation; calls
  do not influence each other; every call returns.
- *JWT options and claims*: the merged configuration accepts exactly the claims
  for which every effective option holds; a rejection has a direction in time.
- *JWT Verifier*: what is accepted was signed by a key trusted for its kid and
  algorithm during the call, and is timely by clock readings of the call; what a
  caller learns about a token's content is the word of an authentic token or of the
  application's own resolver.
- *keys and sets*: a resolved key is bound to the header that asked for it, both
  implementations agree, rotation leaves the remaining keys alone.
- *signers*: a signer signs with the keys it was built from and under their kid;
  what it makes, a verifier that agrees with it accepts, intact signatures only.
- *key rollover*: an issuer that keeps the documented order never makes a verifier
  refuse a valid token because of the rotation.
- *JWE*: plaintext is returned for a key of the call and a header and size that
  satisfy the whole configuration; what could have been refused before a key was
  asked for was refused then; encrypters keep their keys, and what they make opens.
- *nested tokens*: acceptance needs both layers, the caller's claims are not touched
  before the outer one holds, no header of a token that failed in either layer is
  returned, and a token of an agreeing issuer verifies.

## 2. Modules

| module | models | what it is |
|---|---|---|
| `SignaturePolicies` | `jws/policy.go` | policies as records, `ValidPolicy`, `Evaluate`, and `Satisfied`, the reference definition by distinct approvers |
| `JWSHeaders` | `jws/header.go`, limits of `jws/validation.go` | protected headers and their checks, shared by both verifiers |
| `SignatureAcceptance` | nothing of the code | abstract: calls gather approvals and are decided by them |
| `JWSMultiVerifier`, `JWSMultiVerifierProps` | `jws/multi_verifier.go` | concurrent calls, one action per outcome of each step of the loop; properties and the mapping to `SignatureAcceptance` |
| `JWSResolvers` | `jws/resolver.go`, `cloneKeyMaterial` | resolution of raw keys, a JWK and a JWKS, as operators |
| `JWSVerifier`, `JWSVerifierProps` | `jws/verifier.go` | concurrent calls, attached and detached; resolvers that change, verifiers rebuilt, key material overwritten |
| `JWSSigners` | `jws/options.go`, `jws/key.go`, the constructors | options in order, signing keys and JWK metadata, the signers made of them, as operators |
| `JWSSender` | `jws/signer.go`, `jws/multi_signer.go` | concurrent `Sign` and `SignDetached` while opaque signers rotate and buffers are overwritten |
| `SignedChannel` | nothing of the code | abstract: what is verified was signed, by the key known under the name told |
| `JWSExchange` | | `JWSSender`, a transport and `JWSVerifier` |
| `JWSMultiExchange` | | `JWSSender` with a `MultiSigner`, a transport and `JWSMultiVerifier` |
| `JWTPolicy` | `jwt/options.go`, claim checks, `validateLifetime`, error classification | operators |
| `JWTPolicyEvaluation` | configuring and judging | option by option, then claims judged while the clock moves |
| `JWTKeys` | `jwt/key.go`, `jwt/keyset.go`, `jwk/key.go`, `jwk/set.go` | key validation and the two lookups, as operators |
| `KeySetRotation` | an application rotating and publishing keys, a consumer fetching them | composes the operators of `JWTKeys` |
| `JWTVerifier`, `JWTVerifierProps` | `jwt/verifier.go` and its header, limits and errors | concurrent callers, moving clock, changing registry, claims values used again |
| `JWTSigners` | `jwt/signer.go`, signing keys of `jwt/key.go` | local and external signing keys, options, headers, the token made, as operators |
| `JWTExchange` | the key rollover of `DESIGN.md` | issuer, transport and `JWTVerifier` |
| `JWEHeaders` | `jwe/header.go`, the `validatePolicy` functions | headers, their merge, what is demanded of them |
| `JWEDecrypter`, `JWEDecrypterProps` | `jwe/decrypter.go`, `jwe/multi_decrypter.go` | concurrent callers of either decrypter |
| `JWEEncrypters` | `jwe/encrypter.go`, `multi_encrypter.go`, `options.go`, `key.go` | options in order, key copies, headers and tokens, as operators |
| `SealedChannel` | nothing of the code | abstract: a message opens with a key it was sealed for, unchanged |
| `JWEExchange` | | encrypters rebuilt and their buffers overwritten, a transport, `JWEDecrypter` |
| `NestedToken` | `jwe/nested.go` | `JWTSigners`, `JWEEncrypters`, `JWEDecrypter` and `JWTVerifier` in one |
| `*Proofs` | | the proofs; those of a receiver are in the module of the exchange that extends it |
| `MC*` | | instances for TLC |

An exchange adds its variables to those of a receiving component, and each of its
actions conjoins an action of that component with what the transport does; nothing
of a component is modelled twice. `JWEExchange` and `JWSMultiExchange` extend the
module of their receiver, so that its invariant and the lemmas about its steps hold
of the exchange as they stand. Where a name would otherwise mean two things
(`JWSExchange`, `JWTExchange`, `NestedToken`), the receiver is an `INSTANCE`. In a
module that extends its receiver, `Spec` is the receiver alone and `ExchangeSpec`
the composition.

## 3. How the models correspond to the code

**Common conventions.** Keys, identities, header values, algorithms and payloads
are model values; a serialized message is a record of the answers the code gets
when it asks something of it (its size, whether it parses, its headers, who signed
or sealed it). A size is counted in units of which the limits are two or three, so
that messages below, at and above a limit exist. A Go error is the name of its
sentinel, or the set of sentinels `errors.Is` finds where the code joins and
classifies errors. Functions of the code that only compute are operators of the
same name; each handler is split into actions where another goroutine, the context,
the clock or the resolver can intervene, that is at the resolver call, between two
signatures and between two clock readings, and nowhere else. Variables called
*history* (`seen`, `clocks`, `blank`) record what the properties need and are read
by no action, except that `seen` carries the bound on the environment's changes.

**Policies.** A policy is a record whose `kind` is the Go type behind the
interface; an application's function (`SignaturePolicyFunc`) is the set of result
sequences it accepts, any set, so that it may take an acceptance back (`AtMostOne` of
the instance does). `Nodes` is the tree of an `AllOf`, two levels deep. `ThresholdReached`
counts places of the configured list, as the loop does; that this is the number
of distinct approvers is a lemma, proved, and rests on the duplicate test.

**JWSMultiVerifier.** `pc` is the place in `verify`: `loop` (the loop head),
`resolving` (in `Resolve`), `verifying` (key in hand), `evaluate` (left early),
`done`. `VerifyMessage` makes the five admission checks in their order;
`CheckContext` is the context test at the head of `verifySignature`;
`RejectHeader`, `KeyNotFound` and `VerifySignature` each append one result and
decide whether the loop stops (`Record`); `ResolverFailure` and `NilKeyResolved`
end the call; `NoValidSignature`, `PolicyRejects` and `Accept` are the end of
`verify`. The resolver is `registry`, a map from the protected kid to an answer,
replaced at any moment by `ChangeRegistry`; `Reply` reads it in the step in which
the call returns. `Cancel` ends a context at any moment.

**JWSVerifier and JWSResolvers.** `Begin` is `VerifyMessage` or `VerifyDetached`
up to the resolver (`MessageError` and `DetachedError` are the checks in their
order), then one action per outcome. `resolver` is the key argument: the static
kinds are resolved by `StaticResolve`, whose cases are the three resolver types;
a function answers by kid and changes its answers (`ChangeAnswers`). An
application with static keys rotates them by making a new verifier (`Rebuild`,
between calls). `Wipe` overwrites material the application gave to `NewVerifier`;
what `cloneKeyMaterial` copied is not affected (`Intact`).

**JWS signers.** Options are records applied in order to a configuration
(`MakeConfig`), typ, cty and extra headers in one map as in the code. A `SigningKey`
is a record whose `kind` is the Go type of its key; `Build` is what the constructors
keep of it. A call of `JWSSender` is `Sign`, for each key `PrepareHeader` (an opaque
signer is asked for its public JWK) and `SignInput` (it is asked to sign), since
`RotateOpaqueKey` may come between, then `Serialize` with the limit on the output, or
`SigningFails`: an opaque signer fails, or go-jose refuses a `b64` parameter that is
not Boolean (`Base64Fits`). `Overwrite` changes the application's buffers; `SignsAs` tells what
the code has copied of them. `publics`, the
JWKs the opaque signer has had since the call began, is history.

**JWT.** `Apply` is the options' `apply` methods; `ValidatorErrors` is what the
parser's validator, configured by `parserOptions`, reports at one instant;
`ValidateLifetime` has an instant of its own; `ClassifyVerifyError` is the
priority of the errors. `JWTVerifier` has the places `resolving` (in `keyFunc`),
`verifying` (signature and claims) and `policy` (`validatePolicy`). `DecodeOver`
is what decoding into a used claims value leaves in it. A registry is a
`StaticKeySet`, a `jwk.Set`, a function of the application, or one of its resolvers
that fails, with any error: `verifier.go` returns it wrapped and classifies it with
`errors.Is` as it does the parser's. `RefuseCall` is a call with a nil verifier,
context or claims; the calls of the exchanges and of nested tokens pass none.

**KeySetRotation.** `NewStaticKeySet`, `Publish`, `AddForeignJWK` and `ParseSet`
are what the two applications can do with the two set types; the resolutions are
operators, compared on every header of the instance in every state.

**JWTExchange.** `Introduce` publishes a key, `Adopt` builds the next signer,
`Retire` withdraws a key, each under the guard the documentation puts on the
application (`DESIGN.md:288`, `DESIGN.md:691-695`): a key is adopted once the
verifier's key source knows it, and withdrawn when the tokens signed with it, those
still being signed included, are outside the acceptance window. `Sign` and `Issue`
are the two halves of a call, between which an external backend takes its time.
`Fetch` replaces the verifier's source by that of the keys published. These guards
are the application's duty, not the library's: with that of `Adopt` or that of
`Retire` left out, TLC finds `RotationIsSeamless` violated, so that the documented
order is needed as well as sufficient.

**JWEDecrypter.** One module for both decrypters, which share their steps: `multi`
is the only difference, in what is demanded of the header before a recipient is
known and in judging the header of the recipient afterwards. `DecryptToken` is
everything up to the resolver (limits, parsing, algorithms, `crit`, the policy),
then one action per outcome of the resolver and of the trial of the recipients. A
header is a function from the names it has to values; `SharedHeader` and
`RecipientHeader` are go-jose's merges.

**JWEEncrypters and JWEExchange.** `ProtectedHeader` follows the order in which each
encrypter sets typ, cty and the extra headers. An encrypter holds what the code
copied of a buffer, or the buffer itself where it does not copy; `Overwrite` tells
the two apart. An extra header is written over the parameter it names, but the
library encrypts with the algorithms the constructor was given: a token whose header
names other ones (`Truthful`) opens for nobody. Extra headers that name zip are
excluded (`LeaveZip`): what the recipient restores of a plaintext that was not
compressed as zip says has no counterpart in the model, and `jwe/options.go:161-162`
leaves such conflicts to the caller.

**NestedToken.** `Issue` is `NestedIssuer.Issue`, `Forward` what anyone with the
recipient's public key can seal; `VerifyToken` starts the outer call, `Call` steps
it, hands its plaintext over to the inner verification and steps that. `stage` is
the layer a caller is in, `returned` the headers of the `VerifiedToken` it was handed.
The two key sources rotate separately.

## 4. What each run checks

| run | question | properties |
|---|---|---|
| `multi_verifier` | is every verdict for the right cause, under rotation, outage and cancellation, on every message and policy, and do two calls on one verifier implement the abstract call, each on its own, and return? | `TypeOK`, `AcceptedIsVouched`, `AcceptedEvidence`, `RejectionIsPerSignature`, `UndisturbedCallIsDeterministic`, `PolicyKeepsPromise`, `AcceptanceIsStable`, `ImplementsAcceptance`, `NothingStartsAfterCancellation` |
| `jws_verifier` | the same for Compact JWS, attached and detached, with every kind of key material | `TypeOK`, `VerifiedIsTrusted`, `UndisturbedVerdict`, `RotationNeverSubstitutes` |
| `jws_key_snapshot` | is overwritten key material harmless? (**violated**) | `OverwrittenKeysStillVerify` |
| `jws_exchange` | is what a `Signer` makes, with options of its own, what a `Verifier` verifies? | `SignersKeepTheirKeys`, `SignedUnderItsKid`, `OwnMessagesVerify`, `ImplementsChannel` |
| `jws_multi_exchange` | is what a `MultiSigner` makes verified exactly as far as it arrives intact? | `IntactSignaturesDecide` |
| `jwt_configuration` | what a verifier is configured with: does a policy built from any options accept what they all promise, do the two key set types agree, and does a rotation leave other keys alone? | `OptionsArePromises`, `RejectionsHaveADirection`, `ExportAgrees`, `RotationKeepsRemainingKeys` |
| `jwt_verifier` | is what is accepted authentic and timely, what is refused refused for a reason an authentic token gave, and do callers and calls not influence each other? | `TypeOK`, `AcceptedIsAuthentic`, `AcceptedIsTimely`, `ContentErrorsAreAuthentic`, `UndisturbedVerdict` |
| `jwt_rollover` | does the documented order of a key rollover lose no valid token? | `ImplementsChannel`, `RotationIsSeamless` |
| `jwe_decrypter` | is plaintext returned for the right cause, is what could be refused early refused early, and do calls not influence each other? | `TypeOK`, `ReturnedIsAuthentic`, `LateRejectionsAreNews`, `UndisturbedVerdict` |
| `jwe_exchange` | do encrypters and decrypter make a sealed channel, and does what arrives unaltered open? | `ImplementsChannel`, `EncryptersKeepTheirKeys`, `OwnTokensOpen` |
| `nested` | do acceptance, and the headers returned with it, need both layers, and do the issuer's own tokens verify? | `AcceptedByBothLayers`, `IssuedTokensVerify`, `ClaimsNeedTheOuterLayer`, `ReturnedHeadersAreVouched` |

The properties `UndisturbedVerdict` and `UndisturbedCallIsDeterministic` state an
equivalence: while resolver, context and clock hold still, a call accepts exactly
the messages a short declarative definition calls genuine or fit. They are what
tells a verifier that is safe because it refuses everything from one that works.
`OwnMessagesVerify`, `OwnTokensOpen`, `IssuedTokensVerify` and
`IntactSignaturesDecide` do the same for the exchanges.

**Finding.**
- `jws_key_snapshot`: `cloneKeyMaterial` copies byte-backed keys, and its comment
  names RSA, ECDSA, opaque signers and custom objects as those that must be treated
  as immutable. `ed25519.PublicKey` is a byte slice, is not copied and is not
  named: overwriting it after `NewVerifier` makes genuine messages fail.

**Observations** met while modelling, which no run is about:
- `MultiDecrypter` judges typ and cty by the merged header of a recipient
  (`jwe/multi_decrypter.go:169`), in which a parameter may be unprotected, while
  `DESIGN.md:95` speaks of expected *protected* values. `ReturnedIsAuthentic` states
  what holds, about the merged header.
- `DESIGN.md:493` says that the number of recipients is checked before
  cryptographic processing; `jwe/multi_decrypter.go` has no such limit.
- The `KeyID` of a signing key reaches the kid header through the public half of a
  JSON Web Key (`jws/key.go:135`), which an HMAC key does not have: its messages
  carry no kid, although `jws/key.go:22` describes `KeyID` as that header.
  `OwnMessagesVerify` therefore asks of the verifier that it answers the kid that
  was sent, not the one that was configured.
- `WithHeader` on typ or cty replaces or contradicts what `WithType` and
  `WithContentType` set, in an order the encrypters differ in; what is documented
  as the caller's responsibility is an exception in `OwnTokensOpen` (`Contradicted`,
  `Compatible`: an extra header may also be one the decrypter refuses, as crit is).
- An opaque signer whose key is rotated inside one call signs under the kid it told
  before (`jws/signer.go:117`, go-jose asks for the kid first). `SignedUnderItsKid`
  says what is left then: kid and key are each of a JWK the signer had during that
  call, and of the same one unless it had several.
- `classifyVerifyError` cannot tell a resolver's errors from the parser's: a resolver
  that fails with an error wrapping `jwt.ErrTokenExpired` makes a token `ErrExpiredToken`
  that nobody authenticated. `ContentErrorsAreAuthentic` excepts exactly the errors
  of such a resolver; a `StaticKeySet` or a `jwk.Set` has none.
- `jwt/README.md:216-217` asks for a fresh claims value for each call. The models let
  a caller pass the value of its previous call nevertheless: the parser decodes over
  it, and a member the new token lacks, exp included, is judged as it was left.
  `AcceptedIsAuthentic`, `AcceptedIsTimely` and `AcceptedByBothLayers` say what holds
  then, too, and what holds only of a fresh value (`blank`).

## 5. Bounds, and why they are enough

**Parts of a run.** Three needs multiply: every input, an environment that moves at
any step, and a second call. An MC module therefore names the parts of its
instance (`OneCall`, `EveryPolicy`, `TwoCalls`, ...): one call on everything, and
two calls on a part that still has a message of each verdict and a change of keys
that matters to it. `MCNext` lets the *environment* and the beginning of calls only
make steps into a state of one of the parts (`Explored'`); the steps of calls in
progress are never restricted, so that every behaviour explored is one of `Spec`,
and no call is left standing at a bound. `MCJWTConfiguration` puts two specifications
that share no state, the options and the key sets, into one run; a behaviour is one
of either. The keys and kids of a `Signer` are checked in `jws_exchange`; of a
`MultiSigner` they are proved (`MultiSignersKeepTheirKeys`).

- *Concurrency*: two calls. Calls share the verifier's immutable configuration and
  the resolver only; a third call could add nothing a second cannot. Where the
  component is proved about, this is no assumption: the proofs are for any number.
- *Messages*: up to four signatures with a limit of three: none, one, fewer than,
  exactly and more than a threshold, a repeated signer, a corrupted signature
  between two valid ones; JWEs with one and two recipients, parameters in each
  of the three places. Sizes and payloads on both sides of each limit.
- *Registries*: both keys trusted, an alias of an identity, an outage, a kid moved
  to another key and a nil key; changed as often as one likes in `multi_verifier`,
  once during a call elsewhere (`MaxChanges = 1`, `MaxSources = 2`). There a call
  asks its resolver once, so that one change before and one after that moment are
  all it can see.
- *Policies*: every kind, thresholds at zero, at and beyond the length of the list,
  lists with duplicates, empty and overlong identities, `AllOf` in `AllOf`.
- *Options*: every sequence of up to three JWT verifier options (`MaxOptions`): any
  two that override or extend each other, in both orders, with a third. An option has
  one or two values there, so that of most slots only one value meets the others in a
  sequence; lists of any length and with any values are the subject of the theorem
  `OptionsArePromisesAlways`. JWS and JWE
  options as lists in which a header is set before, after and in contradiction to
  the option that also sets it. *Times* 0 to 5 (0 to 3 in the verifier, 0 to 2 in
  the rollover, 0 and 1 in nested tokens) around a token's own, with leeway, age and
  lifetime of 1 or 2, so that every comparison is met below, at and above its boundary.
- *Key sets*: up to three keys (`MaxKeys`) and a document limit of two
  (`MaxSetKeys`), so that the limit is exceeded.
- *Exchanges*: one message and one altered copy of it (`MaxMessages`, `MaxTokens`,
  `MaxIssued`, `MaxAlterations`, `MaxAltered`), two tokens in `nested`. Messages do
  not meet except in a call, and a call has one; that a message of an old key meets
  a new key set needs one message. Duplication, delay, reordering and loss need no
  action: the wire is a set from which a call takes anything at any time, or never.
- *Calls of one caller*: one, or two where a claims value is used again (`MaxCalls`).

`CHECK_DEADLOCK FALSE` is set where a returned call stays returned and the
environment of the instance may have run out of changes; that calls return is the
liveness below, and elsewhere follows from their having no step that waits.

**Fairness.** Liveness assumes weak fairness of the steps of each call
of the MultiVerifier (`WF_vars(Step(c))`): a goroutine inside a call is scheduled, and
the resolver returns (with a key or any error) at some time. Nothing is assumed of
the environment: keys may change and contexts be cancelled for ever, or never. The
code has no lock and no channel a call could wait on. Starting a call is not fair.
Under it, `ImplementsAcceptance` includes the fairness of the abstract specification:
every call is decided, out of every branch of the one loop of the library whose
passes depend on a resolver. Of the other calls no liveness is stated: they are
straight-line code, in which a resolver that does not return is the only way to wait,
and that is what the fairness would assume away.

## 6. What is proved

TLAPS proves the following for every value of the constants that satisfies the
modules' named assumptions, which TLC evaluates in the runs.

- `JWSMultiExchangeProofs`, on the policies: `PolicyKeepsPromiseAlways` and
  `AcceptanceIsStableAlways`. A list without duplicates holds as many approved places
  as approvers (`ThresholdCountsApprovers`, by a bijection), hence each node of a
  policy tree evaluates as the reference says, in both directions; an application's
  function, of which the reference promises nothing, decides by what it accepts.
- On the verifier: `TypeCorrect`, `AcceptedIsVouchedAlways`,
  `AcceptedEvidenceAlways`, `RejectionIsPerSignatureAlways` and
  `NothingStartsAfterCancellationAlways`. The properties speak of returned calls, so
  they are not inductive; `IInv` says of every call, at every place, why it is
  there: where the loop is (`LoopInv`), that the key in hand was given for this
  signature by a registry in force during the call (`KeyInv`), that each recorded
  result is explained by such a registry (`EvidenceInv`), what the flag remembers
  (`FlagInv`) and what a decision rested on (`DecisionInv`). A step of another
  call, or of the environment, only adds registries to `seen`, which hurts none of
  these (`KeptCall`).
- On the refinement: `ImplementsAcceptanceSafety`, each step is a step of
  the abstract call or a stutter. `Deserving` is its heart: at the end of the loop,
  the flag and the policy hold exactly when the approvals gathered deserve
  acceptance, although the bare any policy has not seen the whole message.
  `UndisturbedCallIsDeterministicAlways` adds to `IInv` the cause of every return
  (`CauseInv`): which admission check, a fatal lookup of the signature the loop was
  at, or what the results deserved. Under one registry `EvidenceInv` makes the
  results the truth of the message, so the cause is the one its text alone gives.
- `JWSVerifierProofs`: `TypeCorrect`, `VerifiedIsTrustedAlways`,
  `RotationNeverSubstitutesAlways`, and `UndisturbedVerdictAlways` under the
  assumption `WipesCopies` (what is overwritten is material the code copies; the
  finding shows it is needed). `AnsweredIsTrusted` is the lemma about the code: the
  resolvers of raw keys, a JWK and a JWKS answer a key exactly when it is the
  only entry that applies to the header.
- `JWTVerifierProofs`: `TypeCorrect`, `AcceptedIsAuthenticAlways`,
  `AcceptedIsTimelyAlways`, `ContentErrorsAreAuthenticAlways`,
  `UndisturbedVerdictAlways`. `IInv` says what a call knows at each place
  (`Informed`), which two instants an acceptance was judged at
  (`AcceptedForCause`), and for each rejection the registry and the instant that
  give its grounds (`RejectedForCause`); a rejection must remember more than its
  errors, since the verdict of an undisturbed call rests on their being the only
  reason. `ClassifiedHasSentinel` and `ClassifiedContent` are the lemmas about the
  error classification, `PassedEarly` about what reaches the resolver.
- `JWTExchangeProofs`, on the key sets: `ExportAgreesAlways` and
  `RotationKeepsRemainingKeysAlways`, from what the two lookups find in a valid set
  (`StaticLookup`, `SetLookup`) and the equality of their answers for one key
  (`SameAnswer`); `RotationInv` is that the sets in use are valid ones.
- On the rollover: `RotationIsSeamlessAlways` and `ImplementsChannelAlways`. The heart
  of `IInv` is `Provided`: while claims that were, or are being, signed with a key can
  be acceptable now or later, that key is published and with the verifier. Publishing,
  fetching, adopting and the clock only help it; `Retire` is the step that could break
  it, and its guard is what saves it (`RetireWorld`). A call then knows that its
  token's key was found under the token's kid, or that it has seen an instant outside
  the window (`CallInv`); `SourceAnswers` takes what was proved of a key set and its
  export to whichever of the two the verifier is configured with. Assumed of the
  instance: an external backend signs with the private key of the public key it is
  registered with, which no constructor can tell, and each caller makes one call.
- `JWEExchangeProofs`, on the decrypters: `DecrypterTypes`, `ReturnsAreAuthentic`, `LateRejections`,
  `UndisturbedVerdicts`. `PassedIsFit` says what the two judgements guarantee of the
  token, `LateIsNews` that a later judgement of the merged header can only differ in
  parameters the shared header did not have, `FitPasses` that neither judgement turns
  away a token that conforms: the early one demands nothing a recipient may add.

- `JWTVerifierProofs`, on the policy: `OptionsArePromisesAlways` and
  `RejectionsHaveADirectionAlways`, for option lists of any length. `EvaluationInv`
  ties each field of the configuration to the options given so far: whatever was set
  before and replaced since, the field holds what the last option of its slot says,
  or the default where none was given. From it each claim check of the parser and of
  the lifetime policy is one of the promises.
- On the JWE exchange: `EncryptersKeepTheirKeysAlways`, `OwnTokensOpenAlways` and
  `ImplementsChannelAlways`. `ExchangeInv` says of a token on the wire which encrypter made
  it, with which keys and from what (or that it was altered), and of a call what its
  place says of its token. `OwnTokensOpen` then compares the headers an encrypter
  writes with each judgement of the decrypter, one parameter at a time.
- `JWSSenderProofs`, the lemmas both JWS exchanges rest on: `SenderInv` says, for a
  `Signer` as for a `MultiSigner`, of each signature a call has made by which key,
  under which header and over which payload, and of each message its shape: no
  larger, and with no more signatures, than the signer's limits allow, its headers
  those the signer writes. A message altered on the way keeps that shape.
- `JWSExchangeProofs`: `SignersKeepTheirKeysAlways`, `SignedUnderItsKidAlways`,
  `OwnMessagesVerifyAlways` and `ImplementsChannelAlways`, for a `Signer` and a
  `Verifier`. `VerifyInv` carries what was presented through the verifier's steps.
- `JWSMultiExchangeProofs`, on that exchange: `MultiSignersKeepTheirKeys` and
  `IntactSignaturesDecideAlways`. The verifier's lemmas are proved for whatever text
  is presented to it (`Presented`), so `ExchangeInv` is `SenderInv` and, while
  verifier and signer agree, the verifier's `IInv` and `CauseInv` of every call.
  The theorem then asks, of a returned call under one registry, each cause of a
  return in turn: the headers a `MultiSigner` writes pass every admission check of
  a verifier that agrees with it, no lookup of a key it knows is fatal, so the
  verdict is the one the results deserve; and `EvidenceInv` makes the valid results
  those of the signatures left intact. Assumed is `ExchangeConfig`: the verifier's
  limits and expected types are those `MakeConfig` computes from its options, and
  both sides speak of the same keys. It is an assumption of this theorem only, and
  TLC evaluates it for the instance of `jws_multi_exchange`.

- `NestedTokenProofs`: `AcceptedByBothLayersAlways`, `ClaimsNeedTheOuterLayerAlways`,
  `ReturnedHeadersAreVouchedAlways` and `IssuedTokensVerifyAlways`, for any number of callers and any traffic. `IInv`
  has a part for the world (`WorldInv`: both components as their constructors make
  them; a token on the wire has the shape an encrypter gives it, altered or not, and
  if it is `Issued`, then by the issuer's own calls), one for each layer of a call
  (`OuterInv`, `InnerInv`: at each place, what the component has established of its
  token, and on which key given during the call) and one that ties them together
  (`StageInv`): the inner layer is idle until the outer token opened with content type
  JWT, its token is then the plaintext of that one, and the verdict is that of the
  layer the call is in. `OuterStepOutcome` and `InnerStepOutcome` are the lemmas of
  the two components, proved of their actions under the substitutions of this module.
  Acceptance is read off `IInv`. That nothing of the issuer's is refused compares the
  headers it writes with each judgement of the two layers (`IssuedPassesOutside`,
  `IssuedPassesInside`): under `Agreement`, each layer finds the parameters it demands
  as the issuer set them, whatever the options and the recipient add. Assumed of the instance: what `JWTVerifier`,
  `JWEDecrypter` and `JWEHeaders` assume (`LayersAssumption`), and that the issuer's
  keys and options are those its constructors produce, a backend's public key being
  its own (`IssuerAssumption`).

The exchanges and nested tokens take the options as lists, and `MakeConfig` and `NewSigner` are folds
over them. That a fold keeps the configuration well-typed needs an induction over the
list. The library's induction rules have an operator as a parameter, which no
installed prover instantiates; the one property needed is proved from
well-foundedness of `<` on the naturals instead, by the least place at which it fails
(`MakeConfigType`, `NewSignerType`; `UpTo` is the induction itself, in
`NestedTokenProofs`).

Model-checked only: liveness (the fair part of `ImplementsAcceptance`) and with it everything about `ENABLED`, which the prover
cannot do. Every invariant the passing runs check is the property of a theorem.

## 7. What is not modelled, and why

- *Cryptography, JSON and base64*: idealised as said above; the wording of errors
  and logs is left out. The thumbprint and the JSON form of a JWK change no state.
- *go-jose and golang-jwt*: only what the code relies on, as the code uses it: the
  parsers' checks of `alg`, the merge of headers, the order in which recipients are
  tried, the joined errors of the claims validator, decoding over an existing value.
- *PEM helpers of `jwt`*: pure parsing, whose result is one of the keys modelled.
  *Sentinel errors, documentation, examples, tests*: no behaviour of their own.
- *Cancellation inside a JWT or JWE call*: the code hands the context to the
  resolver only, so it is one of the resolver's errors.
- *Custom policies, resolvers, claims validators and opaque signers* of an
  application are what they may answer, not how.

## 8. Plan

What would add most next: an exchange of nested tokens during the rollover, composed
of `JWTExchange` and `NestedToken`.
