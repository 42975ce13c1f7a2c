CONSTANTS
    c1 = c1
    c2 = c2
    alice = alice
    bob = bob
    empty = empty
    overlong = overlong
    kA = kA
    kB = kB
    hintA = hintA
    hintB = hintB
    hintX = hintX
    es256 = es256
    none = none
    jwt = jwt
    KeyIDs <- MCKeyIDs
    NoKeyID = empty
    ListableKeyIDs <- MCListable
    Keys = {kA, kB}
    NilKey = nilKey
    KeyHints <- MCHints
    noKid = noKid
    NoKid = noKid
    Algorithms = {es256, none}
    NoAlgorithm = noAlg
    AllowedAlgorithms = {es256}
    Texts = {jwt}
    NoText = none
    NotAString = number
    ExpectedTyp = jwt
    ExpectedCty = none
    MaxTokenSize = 2
    MaxPayloadSize = 2
    MaxSignatures = 3
    Calls = {c1, c2}
    Policies <- MCPolicies
    Tokens <- MCTokens
    Registries <- MCRegistries
SPECIFICATION MCSpec
INVARIANTS
    TypeOK
    AcceptedIsVouched
    AcceptedEvidence
    RejectionIsPerSignature
    UndisturbedCallIsDeterministic
    PolicyKeepsPromise
PROPERTIES
    AcceptanceIsStable
    ImplementsAcceptance
    NothingStartsAfterCancellation
\* A call that has returned stays so.
CHECK_DEADLOCK FALSE
