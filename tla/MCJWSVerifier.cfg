CONSTANTS
    c1 = c1
    c2 = c2
    kidA = kidA
    kidB = kidB
    noKid = noKid
    es256 = es256
    eddsa = eddsa
    noAlg = noAlg
    none = none
    jwt = jwt
    rsaPub = rsaPub
    edPub = edPub
    secret = secret
    nilMaterial = nilMaterial
    text = text
    other = other
    huge = huge
    empty = empty
    KeyHints = {kidA, kidB}
    NoKid = noKid
    Algorithms = {es256, eddsa}
    NoAlgorithm = noAlg
    AllowedAlgorithms = {es256, eddsa}
    Texts = {jwt}
    NoText = none
    NotAString = number
    ExpectedTyp = jwt
    ExpectedCty = none
    MaxTokenSize = 2
    MaxPayloadSize = 2
    ByteMaterial = {secret}
    SharedMaterial = {rsaPub, edPub}
    NilMaterial = nilMaterial
    Payloads = {text, other, huge, empty}
    EmptyPayload = empty
    NilPayload = nilPayload
    LargePayloads = {huge}
    MaxSources = 2
    Calls = {c1, c2}
    Tokens <- MCTokens
    Resolvers <- MCResolvers
    Wipeable = {secret}
SPECIFICATION MCSpec
INVARIANTS
    TypeOK
    VerifiedIsTrusted
    UndisturbedVerdict
PROPERTY
    RotationNeverSubstitutes
\* A call that has returned stays so.
CHECK_DEADLOCK FALSE
