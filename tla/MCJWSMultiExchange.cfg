CONSTANTS
    kidA = kidA
    kidB = kidB
    noKid = noKid
    hs256 = hs256
    eddsa = eddsa
    jwt = jwt
    other = other
    none = none
    secret = secret
    edKey = edKey
    ecKey = ecKey
    opaque = opaque
    text = text
    huge = huge
    NoKid = noKid
    Algorithms = {hs256, eddsa}
    NoAlgorithm = noAlg
    AllowedAlgorithms = {hs256, eddsa}
    SymmetricAlgorithms = {hs256}
    Texts = {jwt, other}
    NoText = none
    NotAString = notAString
    ExpectedTyp = jwt
    ExpectedCty = none
    MaxPayloadSize = 2
    ByteMaterial = {secret, edKey}
    NilMaterial = nilMaterial
    OpaqueMaterial = opaque
    Suits <- MCSuits
    DefaultLimits <- MCDefaultLimits
    Senders = {s1}
    NilPayload = nilPayload
    PayloadSize <- MCPayloadSize
    KeyLists <- MCKeyLists
    OptionLists <- MCOptionLists
    OpaqueKeys <- MCOpaqueKeys
    OpaqueAlgorithms = {eddsa}
    Wipeable = {secret, edKey}
    MaxMessages = 1
    Calls = {v1}
    VerifierOptions <- MCVerifierOptions
    MaxAlterations = 1
    KeyHints = {kidA, kidB}
    UnfitKids = {}
    MaxTokenSize = 9
    MaxSignatures = 2
    SharedMaterial = {ecKey}
    Payloads = {text, huge}
    EmptyPayload = text
    KeyIDs = {kidA, kidB, noKid}
    NoKeyID = noKid
    ListableKeyIDs = {kidA, kidB}
    Policies <- MCPolicies
    Registries <- MCRegistries
    Tokens = {}
    NilKey = nilMaterial
    Keys = {secret, edKey, ecKey}
SPECIFICATION ExchangeSpec
INVARIANTS
    IntactSignaturesDecide
\* The sender may have sent all it may, and the verifier make no further call.
CHECK_DEADLOCK FALSE
