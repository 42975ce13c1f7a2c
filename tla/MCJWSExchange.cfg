CONSTANTS
    kidA = kidA
    kidB = kidB
    longKid = longKid
    noKid = noKid
    hs256 = hs256
    eddsa = eddsa
    jwt = jwt
    other = other
    none = none
    secret = secret
    edKey = edKey
    ecKey = ecKey
    otherEd = otherEd
    opaque = opaque
    text = text
    huge = huge
    empty = empty
    KeyHints = {kidA, kidB, longKid}
    NoKid = noKid
    UnfitKids = {longKid}
    Algorithms = {hs256, eddsa}
    NoAlgorithm = noAlg
    AllowedAlgorithms = {hs256, eddsa}
    SymmetricAlgorithms = {hs256}
    Texts = {jwt, other}
    NoText = none
    NotAString = notAString
    ExpectedTyp = jwt
    ExpectedCty = none
    MaxTokenSize = 3
    MaxPayloadSize = 2
    ByteMaterial = {secret, edKey}
    SharedMaterial = {ecKey, otherEd}
    NilMaterial = nilMaterial
    OpaqueMaterial = opaque
    Suits <- MCSuits
    DefaultLimits <- MCDefaultLimits
    Senders = {s1}
    Payloads = {text, huge, empty}
    EmptyPayload = empty
    NilPayload = nilPayload
    PayloadSize <- MCPayloadSize
    KeyLists <- MCKeyLists
    OptionLists <- MCOptionLists
    OpaqueKeys <- MCOpaqueKeys
    OpaqueAlgorithms = {eddsa}
    Wipeable = {secret, edKey}
    MaxMessages = 1
    Calls = {v1}
    Resolvers <- MCResolvers
    MaxSources = 2
    VerifierOptions <- MCVerifierOptions
    MaxAlterations = 1
SPECIFICATION Spec
INVARIANTS
    SignersKeepTheirKeys
    SignedUnderItsKid
    OwnMessagesVerify
PROPERTY
    ImplementsChannel
\* The sender may have sent all it may, and the verifier make no further call.
CHECK_DEADLOCK FALSE
