CONSTANTS
    rsa = rsa
    dir = dir
    a256 = a256
    old = old
    new = new
    jwe = jwe
    json = json
    other = other
    k1 = k1
    k2 = k2
    b1 = b1
    b2 = b2
    b3 = b3
    p1 = p1
    p2 = p2
    p3 = p3
    a1 = a1
    noAuth = noAuth
    deflate = deflate
    Texts = {rsa, dir, a256, old, new, jwe, json, other, deflate}
    NoText = noText
    NotAString = notAString
    Unfit = unfit
    Deflate = deflate
    DirectAlgorithms = {dir}
    KeyKinds <- MCKeyKinds
    NilKey = nilKey
    NoKey = nilKey
    Decrypters = {}
    Tokens = {}
    WipedKey = wiped
    Keys = {k1, k2, wiped}
    Callers = {c1}
    Registries <- MCRegistries
    MaxCalls = 1
    MaxChanges = 1
    KeyAlgorithms = {rsa, dir}
    ContentEncryptions = {a256}
    OptionLists <- MCOptionLists
    RecipientLists <- MCRecipientLists
    Encryption = a256
    Plaintexts <- MCPlaintexts
    AuthData <- MCAuthData
    Unprotected <- MCUnprotected
    InitialMemory <- MCInitialMemory
    MaxTokens = 1
    MaxAlterations = 1
SPECIFICATION ExchangeSpec
INVARIANTS
    OwnTokensOpen
    EncryptersKeepTheirKeys
PROPERTY
    ImplementsChannel
\* The application may use no key and the decrypter make no further call.
CHECK_DEADLOCK FALSE
