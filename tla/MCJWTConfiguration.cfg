CONSTANTS
    Absent = absent
    Unreadable = unreadable
    api = api
    web = web
    other = other
    rs256 = rs256
    Texts = {api, web, other}
    NoText = empty
    Methods = {rs256}
    Options <- MCOptions
    Claims <- MCClaims
    Readings <- MCReadings
    Delays = {0, 1}
    MaxOptions = 3
    es256 = es256
    pq99 = pq99
    noAlg = noAlg
    old = old
    new = new
    overlong = overlong
    anon = anon
    pubOld = pubOld
    pubNew = pubNew
    secret = secret
    nilMaterial = nilMaterial
    Algorithms = {es256, rs256}
    UnknownAlgorithms = {pq99}
    NoAlgorithm = noAlg
    KeyIDs = {old, new}
    OverlongKeyIDs = {overlong}
    NoKeyID = anon
    PublicMaterial = {pubOld, pubNew}
    OtherMaterial = {secret}
    NilMaterial = nilMaterial
    KeyPool <- MCKeyPool
    ForeignJWKs <- MCForeignJWKs
    HeaderPool <- MCHeaderPool
    MaxKeys = 3
    MaxSetKeys = 2
SPECIFICATION MCSpec
INVARIANTS
    OptionsArePromises
    ExportAgrees
PROPERTIES
    RejectionsHaveADirection
    RotationKeepsRemainingKeys
\* A refused configuration goes no further.
CHECK_DEADLOCK FALSE
