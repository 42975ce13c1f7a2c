CONSTANTS
    c1 = c1
    c2 = c2
    rsa = rsa
    kw = kw
    a256 = a256
    old = old
    new = new
    jwe = jwe
    json = json
    wrong = wrong
    k1 = k1
    k2 = k2
    deflate = deflate
    Texts = {rsa, kw, a256, old, new, jwe, json, wrong, deflate}
    NoText = noText
    NotAString = notAString
    Unfit = unfit
    Deflate = deflate
    Keys = {k1, k2}
    NoKey = noKey
    Callers = {c1, c2}
    Decrypters <- MCDecrypters
    Tokens <- AllTokens
    Registries <- AllRegistries
    MaxCalls = 1
    MaxChanges = 1
SPECIFICATION MCSpec
INVARIANTS
    TypeOK
    ReturnedIsAuthentic
    LateRejectionsAreNews
    UndisturbedVerdict
\* A caller may make no further call.
CHECK_DEADLOCK FALSE
