CONSTANTS
    c1 = c1
    es256 = es256
    hs512 = hs512
    kidA = kidA
    anon = anon
    none = none
    jwt = jwt
    jwe = jwe
    other = other
    rsa = rsa
    a256 = a256
    deflate = deflate
    privA = privA
    pubA = pubA
    privB = privB
    pubB = pubB
    k1 = k1
    k2 = k2
    b1 = b1
    noAlg = noAlg
    Algorithms = {es256, hs512}
    UnknownAlgorithms = {}
    NoAlgorithm = noAlg
    KeyIDs = {kidA}
    OverlongKeyIDs = {}
    NoKeyID = anon
    PublicMaterial = {pubA, pubB}
    OtherMaterial = {privA, privB}
    NilMaterial = nilMaterial
    Texts = {jwt, jwe, other, rsa, a256, deflate, kidA}
    NoText = none
    NotAString = notAString
    Unfit = unfit
    Deflate = deflate
    DefaultType = jwt
    DefaultTokenSize = 9
    PublicOf <- MCPublicOf
    Suits <- MCSuits
    Absent = absent
    Unreadable = unreadable
    Callers = {c1}
    Times = {0, 1}
    MaxCalls = 2
    MaxChanges = 1
    Configurations <- MCConfigurations
    MaxTokenSize = 2
    KeySources <- MCKeySources
    Keys = {k1, k2}
    Registries <- MCRegistries
    KeyAlgorithms = {rsa}
    ContentEncryptions = {a256}
    DirectAlgorithms = {}
    KeyKinds <- MCKeyKinds
    NilKey = nilKey
    Memory <- MCMemory
    SigningKeys <- MCSigningKeys
    SignerOptions <- MCSignerOptions
    OuterOptions <- MCOuterOptions
    Recipient <- MCRecipient
    Encryption = a256
    ClaimsPool <- MCClaimsPool
    StrangeContents <- MCStrangeContents
    TokenSize = 2
    MaxTokens = 2
SPECIFICATION MCSpec
INVARIANTS
    AcceptedByBothLayers
    ReturnedHeadersAreVouched
    IssuedTokensVerify
PROPERTY
    ClaimsNeedTheOuterLayer
\* A caller may make no further call.
CHECK_DEADLOCK FALSE
