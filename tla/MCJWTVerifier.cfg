CONSTANTS
    c1 = c1
    c2 = c2
    es256 = es256
    rs256 = rs256
    hs512 = hs512
    pq99 = pq99
    noAlg = noAlg
    old = old
    new = new
    overlong = overlong
    anon = anon
    notAString = notAString
    pubOld = pubOld
    pubNew = pubNew
    secret = secret
    nilMaterial = nilMaterial
    access = access
    api = api
    empty = empty
    Absent = absent
    Unreadable = unreadable
    Texts = {access, api}
    NoText = empty
    NotAString = notAString
    Algorithms = {es256, rs256, hs512}
    Methods = {es256, rs256, hs512}
    UnknownAlgorithms = {pq99}
    NoAlgorithm = noAlg
    KeyIDs = {old, new}
    OverlongKeyIDs = {overlong}
    NoKeyID = anon
    PublicMaterial = {pubOld, pubNew}
    OtherMaterial = {secret}
    NilMaterial = nilMaterial
    Configurations <- MCConfigurations
    MaxTokenSize = 2
    Callers = {c1, c2}
    Tokens <- AllTokens
    Registries <- AllRegistries
    Times = {0, 1, 2, 3}
    MaxCalls = 2
    MaxChanges = 1
SPECIFICATION MCSpec
INVARIANTS
    TypeOK
    AcceptedIsAuthentic
    AcceptedIsTimely
    ContentErrorsAreAuthentic
    UndisturbedVerdict
\* A caller may make no further call.
CHECK_DEADLOCK FALSE
