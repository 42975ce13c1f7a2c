CONSTANTS
    es256 = es256
    hs512 = hs512
    kidA = kidA
    kidB = kidB
    longKid = longKid
    anon = anon
    jwt = jwt
    access = access
    none = none
    privA = privA
    privB = privB
    pubA = pubA
    pubB = pubB
    secret = secret
    mute = mute
    noAlg = noAlg
    Algorithms = {es256, hs512}
    UnknownAlgorithms = {}
    NoAlgorithm = noAlg
    KeyIDs = {kidA, kidB}
    OverlongKeyIDs = {longKid}
    NoKeyID = anon
    PublicMaterial = {pubA, pubB}
    OtherMaterial = {privA, privB, secret, mute}
    NilMaterial = nilMaterial
    Texts = {jwt, access}
    NoText = none
    NotAString = notAString
    DefaultType = jwt
    DefaultTokenSize = 9
    PublicOf <- MCPublicOf
    Suits <- MCSuits
    Absent = absent
    Unreadable = unreadable
    Callers = {v1}
    Configurations <- MCConfigurations
    MaxTokenSize = 2
    Times = {0, 1, 2}
    MaxChanges = 1
    Workers = {s1}
    KeySpecs <- MCKeySpecs
    SignerOptions <- MCSignerOptions
    Shapes <- MCShapes
    Sizes = {2, 3}
    MaxIssued = 1
    MaxAltered = 1
SPECIFICATION Spec
INVARIANT
    RotationIsSeamless
PROPERTY
    ImplementsChannel
\* The clock stops, and the verifier makes no further call.
CHECK_DEADLOCK FALSE
