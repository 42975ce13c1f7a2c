--------------------------- MODULE JWSSenderProofs ---------------------------
(***************************************************************************)
(* For any options, keys, payloads and number of calls: the jws signers of *)
(* JWSSender sign with the keys they were built from, under the kid of the *)
(* key, within the limits they are configured with.                        *)
(***************************************************************************)
EXTENDS JWSSender, FiniteSetTheorems, WellFoundedInduction, TLAPS

-----------------------------------------------------------------------------
(* The options of a signer.                                                *)

\* Induction up to a bound.
LEMMA UpTo ==
    ASSUME NEW n \in Nat, NEW T, 0 \in T,
           \A m \in Nat : m < n /\ m \in T => m + 1 \in T
    PROVE  \A m \in 0 .. n : m \in T
<1> DEFINE Missed == {m \in 0 .. n : m \notin T}
           R == OpToRel(<, Nat)
<1>1. SUFFICES ASSUME Missed # {}
               PROVE  FALSE
  OBVIOUS
<1>2. IsWellFoundedOn(R, Nat)
  BY NatLessThanWellFounded
<1>3. \A x, y \in Nat : y < x => <<y, x>> \in R
  BY DEF OpToRel
<1>4. Missed \subseteq Nat
  OBVIOUS
<1> HIDE DEF R
<1>5. PICK m \in Missed : \A k \in Missed : ~ (<<k, m>> \in R)
  <2> HIDE DEF Missed
  <2> QED
    BY <1>1, <1>2, <1>4, WFMin
<1>6. m \in Nat /\ m # 0 /\ m - 1 \in Nat
  BY <1>5
<1>7. m - 1 \notin Missed
  <2>1. m - 1 < m
    BY <1>6
  <2>2. <<m - 1, m>> \in R
    BY <1>3, <1>6, <2>1
  <2> HIDE DEF Missed
  <2> QED
    BY <1>5, <2>2
<1>8. m - 1 \in T
  BY <1>5, <1>6, <1>7
<1>9. m - 1 + 1 \in T
  BY <1>5, <1>6, <1>8
<1> QED
  BY <1>5, <1>6, <1>9

LEMMA MaxOfInterval ==
    ASSUME NEW k \in Nat
    PROVE  /\ Max(1 .. k + 1) = k + 1
           /\ (1 .. k + 1) \ {k + 1} = 1 .. k
           /\ \A s \in SUBSET (1 .. k + 1) :
                 k + 1 \in s => Max(s) = k + 1 /\ s \ {k + 1} \in SUBSET (1 .. k)
<1>1. ASSUME NEW s \in SUBSET (1 .. k + 1), k + 1 \in s
      PROVE  Max(s) = k + 1
  <2>1. \A y \in s : k + 1 >= y
    BY <1>1
  <2>2. \A x \in s : (\A y \in s : x >= y) => x = k + 1
    BY <1>1
  <2> QED
    BY <1>1, <2>1, <2>2 DEF Max
<1>2. Max(1 .. k + 1) = k + 1
  BY <1>1
<1>3. (1 .. k + 1) \ {k + 1} = 1 .. k
  OBVIOUS
<1>4. \A s \in SUBSET (1 .. k + 1) : k + 1 \in s => s \ {k + 1} \in SUBSET (1 .. k)
  OBVIOUS
<1> QED
  BY <1>1, <1>2, <1>3, <1>4

\* makeConfig applies the options one after the other.
LEMMA MakeConfigSteps ==
    ASSUME NEW options, NEW n \in Nat, DOMAIN options = 1 .. n
    PROVE  \E config :
              /\ config[0] = DefaultConfig
              /\ \A i \in 0 .. n - 1 : config[i + 1] = Apply(config[i], options[i + 1])
              /\ config[n] = MakeConfig(options)
<1> DEFINE After(f, s) == IF s = {} THEN DefaultConfig
                          ELSE Apply(f[s \ {Max(s)}], options[Max(s)])
           iter == CHOOSE f : f = [s \in SUBSET DOMAIN options |-> After(f, s)]
           Defined == {m \in 0 .. n : \E f : f = [s \in SUBSET (1 .. m) |-> After(f, s)]}
<1>1. MakeConfig(options) = iter[DOMAIN options]
  BY Zenon DEF MakeConfig, FoldLeft, MapThenFoldSet
<1>2. 0 \in Defined
  <2> DEFINE f == [s \in SUBSET (1 .. 0) |-> DefaultConfig]
  <2>1. \A s \in SUBSET (1 .. 0) : s = {}
    OBVIOUS
  <2>2. f = [s \in SUBSET (1 .. 0) |-> After(f, s)]
    BY <2>1
  <2>3. 0 \in 0 .. n
    OBVIOUS
  <2> QED
    BY <2>2, <2>3
<1>3. ASSUME NEW m \in Nat, m < n, m \in Defined
      PROVE  m + 1 \in Defined
  <2>1. PICK f : f = [s \in SUBSET (1 .. m) |-> After(f, s)]
    BY <1>3
  <2> DEFINE g == [s \in SUBSET (1 .. m + 1) |->
                      IF m + 1 \in s THEN Apply(f[s \ {m + 1}], options[m + 1])
                      ELSE f[s]]
  <2>2. ASSUME NEW s \in SUBSET (1 .. m + 1)
        PROVE  g[s] = After(g, s)
    <3>1. CASE m + 1 \in s
      <4>1. Max(s) = m + 1 /\ s \ {m + 1} \in SUBSET (1 .. m)
        BY <3>1, MaxOfInterval
      <4>2. s \ {m + 1} \in SUBSET (1 .. m + 1) /\ m + 1 \notin s \ {m + 1}
        OBVIOUS
      <4>3. g[s \ {m + 1}] = f[s \ {m + 1}]
        BY <4>2
      <4>4. g[s] = Apply(f[s \ {m + 1}], options[m + 1])
        BY <3>1
      <4>5. After(g, s) = Apply(g[s \ {Max(s)}], options[Max(s)])
        BY <3>1
      <4> QED
        BY <4>1, <4>3, <4>4, <4>5
    <3>2. CASE m + 1 \notin s
      <4>1. s \in SUBSET (1 .. m) /\ \A x : s \ {x} \in SUBSET (1 .. m)
        <5>1. \A i \in 1 .. m + 1 : i # m + 1 => i \in 1 .. m
          BY <1>3
        <5> HIDE DEF g
        <5> QED
          BY <2>2, <3>2, <5>1
      <4>2. g[s] = f[s]
        BY <3>2
      <4>3. s \ {Max(s)} \in SUBSET (1 .. m + 1) /\ m + 1 \notin s \ {Max(s)}
        BY <4>1, <3>2
      <4>4. g[s \ {Max(s)}] = f[s \ {Max(s)}]
        BY <4>3
      <4>5. f[s] = After(f, s)
        BY <2>1, <4>1
      <4>6. After(f, s) = After(g, s)
        BY <4>4
      <4> QED
        BY <4>2, <4>5, <4>6
    <3> QED
      BY <3>1, <3>2
  <2>3. g = [s \in SUBSET (1 .. m + 1) |-> g[s]]
    BY Zenon
  <2> HIDE DEF g
  <2>4. g = [s \in SUBSET (1 .. m + 1) |-> After(g, s)]
    <3> HIDE DEF After
    <3> QED
      BY <2>2, <2>3
  <2>5. m + 1 \in 0 .. n
    BY <1>3
  <2> QED
    BY <2>4, <2>5
<1>4. n \in Defined
  <2> HIDE DEF Defined
  <2>1. \A m \in 0 .. n : m \in Defined
    BY <1>2, <1>3, UpTo
  <2> QED
    BY <2>1
<1>5. iter = [s \in SUBSET (1 .. n) |-> After(iter, s)]
  <2>1. \E f : f = [s \in SUBSET DOMAIN options |-> After(f, s)]
    BY <1>4
  <2>2. iter = [s \in SUBSET DOMAIN options |-> After(iter, s)]
    BY <2>1, Zenon
  <2> QED
    BY <2>2
<1> HIDE DEF iter
<1> DEFINE config == [i \in 0 .. n |-> iter[1 .. i]]
<1>6. config[0] = DefaultConfig
  <2>1. 1 .. 0 = {} /\ {} \in SUBSET (1 .. n) /\ 0 \in 0 .. n
    OBVIOUS
  <2>2. iter[{}] = After(iter, {})
    BY <1>5, <2>1
  <2> QED
    BY <2>1, <2>2
<1>7. ASSUME NEW i \in 0 .. n - 1
      PROVE  config[i + 1] = Apply(config[i], options[i + 1])
  <2>1. /\ i \in Nat /\ 1 .. i + 1 # {} /\ i + 1 \in 0 .. n /\ i \in 0 .. n
        /\ 1 .. i + 1 \in SUBSET (1 .. n)
    OBVIOUS
  <2>2. iter[1 .. i + 1] = After(iter, 1 .. i + 1)
    BY <1>5, <2>1
  <2>3. After(iter, 1 .. i + 1) = Apply(iter[1 .. i], options[i + 1])
    BY <2>1, MaxOfInterval
  <2> HIDE DEF After
  <2> QED
    BY <2>1, <2>2, <2>3
<1>8. config[n] = MakeConfig(options)
  BY <1>1
<1> HIDE DEF config
<1> QED
  BY <1>6, <1>7, <1>8

\* A config a signer or a verifier may have.
ConfigType(config) ==
    /\ DOMAIN config = {"maxTokenSize", "maxPayloadSize", "maxSignatures", "typ",
                        "cty", "extra", "customHeaderSet", "policySet"}
    /\ \A n \in Limits : config[n] \in Nat \ {0}
    /\ "kid" \in DOMAIN config.extra => config.extra["kid"] \in KeyHints
    /\ \A n \in DOMAIN config.extra \ {"kid"} :
          config.extra[n] \in Texts \cup {NoText, NotAString}

LEMMA OptionCases ==
    ASSUME NEW option \in Options
    PROVE  /\ option.set \in {"typ", "cty", "policy", "header", "nil"} \cup Limits
           /\ option.set \in Limits => option.value \in Int
           /\ option.set = "header" /\ option.name = "kid" => option.value \in KeyHints
           /\ \/ option.set \in {"typ", "cty"}
              \/ option.set = "header" /\ option.name # "kid"
              => option.value \in Texts \cup {NoText, NotAString}
  BY DEF Options, Limits

LEMMA DefaultConfigType == ConfigType(DefaultConfig)
  BY SignersAssumption DEF ConfigType, DefaultConfig, Limits, Unset

LEMMA ApplyKeepsType ==
    ASSUME NEW config, ConfigType(config), NEW option \in Options, ValidOption(option)
    PROVE  ConfigType(Apply(config, option))
<1> DEFINE value == option.value
<1>1. CASE option.set \in {"typ", "cty"}
  <2>1. Apply(config, option) = [[config EXCEPT ![option.set] = value]
                                   EXCEPT !.extra = Put(@, option.set, value)]
    <3>1. Apply(config, option) =
             SetHeader([config EXCEPT ![option.set] = value], option.set, value)
      BY <1>1, Zenon DEF Apply, Limits
    <3> QED
      BY <3>1, Zenon DEF SetHeader
  <2>2. PICK new : new = Put(config.extra, option.set, value)
    OBVIOUS
  <2>3. ("kid" \in DOMAIN new <=> "kid" \in DOMAIN config.extra)
        /\ ("kid" \in DOMAIN new => new["kid"] = config.extra["kid"])
    BY <1>1, <2>2 DEF Put
  <2>5. \A n \in DOMAIN new \ {"kid"} : new[n] \in Texts \cup {NoText, NotAString}
    BY <1>1, <2>2, OptionCases DEF Put, ConfigType
  <2>4. Apply(config, option) = [[config EXCEPT ![option.set] = value] EXCEPT !.extra = new]
    BY <1>1, <2>1, <2>2 DEF ConfigType
  <2> QED
    BY <1>1, <2>3, <2>4, <2>5 DEF ConfigType, Limits
<1>2. CASE option.set \in Limits
  <2>1. value \in Nat \ {0}
    <3>1. value > 0
      BY <1>2, Zenon DEF ValidOption, Limits
    <3> QED
      BY <1>2, <3>1, OptionCases
  <2>2. Apply(config, option) = [config EXCEPT ![option.set] = value]
    BY <1>2 DEF Apply, Limits
  <2> QED
    BY <1>2, <2>1, <2>2 DEF ConfigType, Limits
<1>3. CASE option.set = "policy"
  <2>1. Apply(config, option) = [config EXCEPT !.policySet = TRUE]
    BY <1>3 DEF Apply, Limits
  <2> QED
    BY <2>1 DEF ConfigType, Limits
<1>4. CASE option.set = "header"
  <2>1. Apply(config, option) = [[config EXCEPT !.customHeaderSet = TRUE]
                                   EXCEPT !.extra = Put(@, option.name, value)]
    BY <1>4 DEF Apply, SetHeader, Limits
  <2>2. PICK new : new = Put(config.extra, option.name, value)
    OBVIOUS
  <2>3. "kid" \in DOMAIN new => new["kid"] \in KeyHints
    BY <1>4, <2>2, OptionCases DEF Put, ConfigType
  <2>4. Apply(config, option) = [[config EXCEPT !.customHeaderSet = TRUE] EXCEPT !.extra = new]
    BY <2>1, <2>2 DEF ConfigType
  <2>5. \A n \in DOMAIN new \ {"kid"} : new[n] \in Texts \cup {NoText, NotAString}
    BY <1>4, <2>2, OptionCases DEF Put, ConfigType
  <2> QED
    BY <2>3, <2>4, <2>5 DEF ConfigType, Limits
<1>5. option.set # "nil"
  BY DEF ValidOption, Limits
<1> QED
  BY <1>1, <1>2, <1>3, <1>4, <1>5, OptionCases

LEMMA MakeConfigType ==
    ASSUME NEW options \in Seq(Options), ValidOptions(options)
    PROVE  ConfigType(MakeConfig(options))
<1> DEFINE n == Len(options)
<1>1. n \in Nat /\ DOMAIN options = 1 .. n
  OBVIOUS
<1>2. PICK config :
         /\ config[0] = DefaultConfig
         /\ \A i \in 0 .. n - 1 : config[i + 1] = Apply(config[i], options[i + 1])
         /\ config[n] = MakeConfig(options)
  BY <1>1, MakeConfigSteps
<1> DEFINE T == {i \in 0 .. n : ConfigType(config[i])}
<1>3. 0 \in T
  BY <1>1, <1>2, DefaultConfigType
<1>4. ASSUME NEW i \in Nat, i < n, i \in T
      PROVE  i + 1 \in T
  <2>1. i \in 0 .. n - 1 /\ i + 1 \in 1 .. n /\ i + 1 \in 0 .. n
    BY <1>1, <1>4
  <2>2. options[i + 1] \in Options /\ ValidOption(options[i + 1])
    BY <1>1, <2>1 DEF ValidOptions
  <2>3. ConfigType(config[i + 1])
    BY <1>2, <1>4, <2>1, <2>2, ApplyKeepsType
  <2> QED
    BY <2>1, <2>3
<1> HIDE DEF T
<1>5. \A i \in 0 .. n : i \in T
  BY <1>1, <1>3, <1>4, UpTo
<1>6. n \in T
  BY <1>1, <1>5
<1> QED
  BY <1>2, <1>6 DEF T

-----------------------------------------------------------------------------
(* Signers.                                                                *)

\* The keys NewSigner builds are the material they were given.
LEMMA BuiltMaterial ==
    ASSUME NEW key \in SigningKeys, ValidSigningKey(key), MaterialFits(key)
    PROVE  Build(key).material \in Material \cup {OpaqueMaterial}
<1> DEFINE k == key.key
<1>1. \/ k.kind \in {"nil", "opaque"}
      \/ k.kind = "raw" /\ k.material \in Material
      \/ k.kind = "jwk" /\ k.jwk.material \in Material \cup {NilMaterial, OpaqueMaterial}
  BY DEF SigningKeys
<1>2. k.kind # "nil" /\ (k.kind = "jwk" => k.jwk.material \in Material)
  BY <1>1 DEF ValidSigningKey, MaterialFits
<1>3. Build(key).material = MaterialOf(key)
  BY DEF Build
<1> QED
  BY <1>1, <1>2, <1>3 DEF MaterialOf

LEMMA BuiltKidType ==
    ASSUME NEW key \in SigningKeys
    PROVE  Build(key).kid \in KeyHints \cup {NoKid}
<1>1. /\ key.keyID \in KeyHints \cup {NoKid}
      /\ key.key.kind = "jwk" => key.key.jwk.keyID \in KeyHints \cup {NoKid}
  BY DEF SigningKeys
<1> QED
  BY <1>1 DEF Build, SentKid, BuiltKid

LEMMA SignerBuilt ==
    ASSUME NEW keys \in KeyLists, NEW options \in OptionLists, NEW multi \in BOOLEAN,
           ~ multi => Len(keys) = 1,
           NewSignerErrors(multi, keys, options, OpaqueAlgorithms) = {}
    PROVE  LET s == NewSigner(multi, keys, options) IN
           /\ s.multi = multi
           /\ s.keys \in Seq([alg : Algorithms, kid : KeyHints \cup {NoKid},
                              material : Material \cup {OpaqueMaterial}])
           /\ Len(s.keys) >= 1
           /\ ~ multi => Len(s.keys) = 1
           /\ multi => Len(s.keys) <= s.config.maxSignatures
           /\ ConfigType(s.config)
<1>1. keys \in Seq(SigningKeys) /\ options \in Seq(Options)
  BY SenderAssumption
<1>2. /\ keys # <<>> /\ ValidOptions(options)
      /\ \A i \in DOMAIN keys : ValidSigningKey(keys[i]) /\ MaterialFits(keys[i])
  BY DEF NewSignerErrors
<1> DEFINE Built == [alg : Algorithms, kid : KeyHints \cup {NoKid},
                     material : Material \cup {OpaqueMaterial}]
           built == [i \in DOMAIN keys |-> Build(keys[i])]
<1>3. ASSUME NEW i \in DOMAIN keys
      PROVE  Build(keys[i]) \in Built
  <2>1. keys[i] \in SigningKeys
    BY <1>1
  <2>2. Build(keys[i]).material \in Material \cup {OpaqueMaterial}
    BY <1>2, <2>1, BuiltMaterial
  <2>3. Build(keys[i]).kid \in KeyHints \cup {NoKid}
    BY <2>1, BuiltKidType
  <2>4. keys[i].alg \in Algorithms
    BY <1>2, <2>1 DEF SigningKeys, ValidSigningKey
  <2> QED
    BY <2>2, <2>3, <2>4 DEF Build
<1> HIDE DEF Built
<1>4. /\ DOMAIN keys = 1 .. Len(keys) /\ Len(keys) \in Nat /\ Len(keys) >= 1
  BY <1>1, <1>2
<1>5. built \in Seq(Built) /\ Len(built) = Len(keys)
  BY <1>3, <1>4
<1>6. ConfigType(MakeConfig(options))
  BY <1>1, <1>2, MakeConfigType
<1>7. multi => Len(keys) <= MakeConfig(options).maxSignatures
  <2>1. /\ Len(keys) \in Nat /\ MakeConfig(options).maxSignatures \in Nat
        /\ ~ (multi /\ Len(keys) > MakeConfig(options).maxSignatures)
    BY <1>4, <1>6 DEF NewSignerErrors, ConfigType, Limits
  <2> QED
    BY <2>1
<1> QED
  BY <1>4, <1>5, <1>6, <1>7 DEF NewSigner, Built

-----------------------------------------------------------------------------
(* The sender's invariant. The operators take the signer, and the key the  *)
(* opaque signer has, as arguments.                                        *)

BuiltKeys == [alg : Algorithms, kid : KeyHints \cup {NoKid},
              material : Material \cup {OpaqueMaterial}]

SignerType(s) ==
    /\ s.keys \in Seq(BuiltKeys)
    /\ Len(s.keys) >= 1 /\ (~ s.multi => Len(s.keys) = 1)
    /\ s.multi => Len(s.keys) <= s.config.maxSignatures
    /\ ConfigType(s.config)

\* The header and the signature a key makes while o is the opaque key.
HeaderOf(s, key, o) ==
    ProtectedHeader(s.config, key.alg,
                    IF key.material = OpaqueMaterial THEN o.keyID ELSE key.kid)
SignerOf(key, o) ==
    IF key.material = OpaqueMaterial THEN o.material ELSE key.material

SignerHeaders(s) == {HeaderOf(s, s.keys[i], o) : i \in DOMAIN s.keys, o \in OpaqueKeys}

\* Signatures a signer makes, and what the transport makes of them.
SignaturesBy(s) ==
    {x \in [alg : {h.alg : h \in SignerHeaders(s)}, protected : SignerHeaders(s),
            signer : Material \cup {NilMaterial}] : x.alg = x.protected.alg}

\* The ith signature is the ith key's; header and signature are each made with
\* one of the opaque keys there have been since the call began.
MadeBy(s, signatures, i, publics) ==
    \E o, q \in publics :
       /\ signatures[i].protected = HeaderOf(s, s.keys[i], o)
       /\ signatures[i].signer = SignerOf(s.keys[i], q)

SigningInv(s, k, call) ==
    /\ DOMAIN call = {"busy", "payload", "detached", "signatures", "header", "publics"}
    /\ call.busy /\ call.payload \in Payloads
    /\ call.detached \in BOOLEAN
    /\ call.publics \subseteq OpaqueKeys /\ k \in call.publics
    /\ PayloadSize[call.payload] <= s.config.maxPayloadSize
    /\ call.signatures \in Seq(SignaturesBy(s)) /\ Len(call.signatures) <= Len(s.keys)
    /\ \A i \in 1 .. Len(call.signatures) : MadeBy(s, call.signatures, i, call.publics)
    /\ call.header # NoHeader =>
          /\ Len(call.signatures) < Len(s.keys)
          /\ \E o \in call.publics :
                call.header = HeaderOf(s, s.keys[Len(call.signatures) + 1], o)

\* A message as it left the sender.
MessageInv(s, w) ==
    /\ w.embedded \in {w.signed, EmptyPayload}
    /\ \A i \in DOMAIN s.keys : MadeBy(s, w.signatures, i, w.publics)

\* Of altered messages, what the transport leaves alone.
MessageShape(s, w) ==
    /\ DOMAIN w = {"size", "wellFormed", "embedded", "signed", "signatures",
                   "publics", "altered"}
    /\ w.altered \in BOOLEAN /\ w.publics \subseteq OpaqueKeys
    /\ w.signed \in Payloads /\ w.embedded \in Payloads
    /\ w.size \in 1 .. s.config.maxTokenSize /\ w.wellFormed = TRUE
    /\ PayloadSize[w.signed] <= s.config.maxPayloadSize
    /\ w.signatures \in Seq(SignaturesBy(s)) /\ Len(w.signatures) <= Len(s.keys)
    /\ ~ w.altered \/ ~ s.multi => Len(w.signatures) = Len(s.keys)

SenderInv ==
    /\ SignerType(signer)
    /\ opaqueKey \in OpaqueKeys /\ wiped \subseteq Wipeable
    /\ DOMAIN signing = Senders
    /\ \A c \in Senders : signing[c] = Idle \/ SigningInv(signer, opaqueKey, signing[c])
    /\ \A w \in wire : /\ MessageShape(signer, w)
                       /\ ~ w.altered => MessageInv(signer, w)

LEMMA SenderInitInv == SenderInit => SenderInv
<1>1. SUFFICES ASSUME SenderInit
               PROVE  SenderInv
  OBVIOUS
<1>2. SignerType(signer)
  <2>1. PICK keys \in KeyLists, options \in OptionLists, multi \in BOOLEAN :
            /\ ~ multi => Len(keys) = 1
            /\ NewSignerErrors(multi, keys, options, OpaqueAlgorithms) = {}
            /\ signer = NewSigner(multi, keys, options)
    BY <1>1 DEF SenderInit
  <2> QED
    BY <2>1, SignerBuilt DEF SignerType, BuiltKeys
<1> QED
  BY <1>1, <1>2 DEF SenderInit, SenderInv

LEMMA IdleIsNotBusy == ~ Idle.busy
  BY DEF Idle

LEMMA ByKidNow ==
    ASSUME NEW key
    PROVE  ProtectedHeader(signer.config, key.alg, KidNow(key)) = HeaderOf(signer, key, opaqueKey)
  BY Zenon DEF KidNow, HeaderOf

LEMMA BySignsAs ==
    ASSUME SenderInv, NEW key
    PROVE  SignsAs(key) = SignerOf(key, opaqueKey)
  BY SenderAssumption DEF SenderInv, SignsAs, SignerOf, Cloned

LEMMA SignerOfType ==
    ASSUME NEW key \in BuiltKeys, NEW o \in OpaqueKeys
    PROVE  SignerOf(key, o) \in Material
  BY SenderAssumption DEF SignerOf, BuiltKeys

\* What every step of the sender leaves alone.
LEMMA SenderKeeps ==
    ASSUME SenderInv, signer' = signer, opaqueKey' = opaqueKey, wiped' \subseteq Wipeable,
           NEW c \in Senders, NEW call, signing' = [signing EXCEPT ![c] = call],
           call = Idle \/ SigningInv(signer, opaqueKey, call), wire' = wire
    PROVE  SenderInv'
  BY DEF SenderInv

LEMMA SignKeeps ==
    ASSUME SenderInv, NEW c \in Senders, NEW p \in Payloads \cup {NilPayload},
           NEW d \in BOOLEAN, Sign(c, p, d)
    PROVE  SenderInv'
<1> DEFINE call == [busy |-> TRUE, payload |-> p, detached |-> d,
                    signatures |-> <<>>, header |-> NoHeader, publics |-> {opaqueKey}]
<1>1. SigningInv(signer, opaqueKey, call)
  BY DEF Sign, SigningInv, SenderInv, SignerType
<1> HIDE DEF call
<1> QED
  BY <1>1, SenderKeeps DEF Sign, SenderInv, call

LEMMA PrepareHeaderKeeps ==
    ASSUME SenderInv, NEW c \in Senders, PrepareHeader(c)
    PROVE  SenderInv'
<1>1. PICK call : call = [signing[c] EXCEPT !.header =
                             HeaderOf(signer, CurrentKey(c), opaqueKey)]
  OBVIOUS
<1>2. signing[c].busy /\ SigningInv(signer, opaqueKey, signing[c])
  BY IdleIsNotBusy DEF PrepareHeader, Pending, SenderInv
<1>3. /\ DOMAIN call = DOMAIN signing[c]
      /\ \A f \in DOMAIN signing[c] \ {"header"} : call[f] = signing[c][f]
      /\ call.header = HeaderOf(signer, CurrentKey(c), opaqueKey)
  BY <1>1, <1>2 DEF SigningInv
<1>4. /\ call.busy = signing[c].busy /\ call.payload = signing[c].payload
      /\ call.detached = signing[c].detached /\ call.publics = signing[c].publics
      /\ call.signatures = signing[c].signatures
  BY <1>2, <1>3 DEF SigningInv
<1>5. opaqueKey \in OpaqueKeys /\ Len(signing[c].signatures) < Len(signer.keys)
  BY DEF SenderInv, PrepareHeader, Pending
<1>6. SigningInv(signer, opaqueKey, call)
  BY <1>2, <1>3, <1>4, <1>5 DEF SigningInv, CurrentKey
<1>7. signing' = [signing EXCEPT ![c] = call]
  BY <1>1, ByKidNow DEF PrepareHeader
<1> QED
  BY <1>6, <1>7, SenderKeeps DEF PrepareHeader, SenderInv

LEMMA SignInputKeeps ==
    ASSUME SenderInv, NEW c \in Senders, SignInput(c)
    PROVE  SenderInv'
<1> DEFINE old == signing[c]
           n == Len(old.signatures)
<1>1. old.busy /\ SigningInv(signer, opaqueKey, old)
  BY IdleIsNotBusy DEF SignInput, Pending, SenderInv
<1>2. /\ signer.keys \in Seq(BuiltKeys) /\ Len(signer.keys) \in Nat
      /\ old.signatures \in Seq(SignaturesBy(signer)) /\ n \in Nat
      /\ n < Len(signer.keys) /\ n + 1 \in DOMAIN signer.keys
      /\ CurrentKey(c) = signer.keys[n + 1] /\ CurrentKey(c) \in BuiltKeys
      /\ opaqueKey \in OpaqueKeys
  BY <1>1 DEF SigningInv, SenderInv, SignerType, SignInput, Pending, CurrentKey
<1>3. PICK o \in old.publics : old.header = HeaderOf(signer, signer.keys[n + 1], o)
  BY <1>1 DEF SigningInv, SignInput
<1>4. PICK new : new = [alg |-> old.header.alg, protected |-> old.header,
                        signer |-> SignsAs(CurrentKey(c))]
  OBVIOUS
<1>5. new.protected = old.header /\ new.signer = SignerOf(signer.keys[n + 1], opaqueKey)
  BY <1>2, <1>4, BySignsAs
<1>6. new \in SignaturesBy(signer)
  <2>1. old.header \in SignerHeaders(signer)
    BY <1>1, <1>2, <1>3 DEF SignerHeaders, SigningInv
  <2>2. SignerOf(signer.keys[n + 1], opaqueKey) \in Material
    BY <1>2, SignerOfType
  <2> QED
    BY <1>4, <1>5, <2>1, <2>2 DEF SignaturesBy
<1>7. PICK signatures : signatures = Append(old.signatures, new)
  OBVIOUS
<1>8. /\ signatures \in Seq(SignaturesBy(signer)) /\ Len(signatures) = n + 1
      /\ \A i \in 1 .. n : signatures[i] = old.signatures[i]
      /\ signatures[n + 1] = new
  <2> DEFINE S == SignaturesBy(signer)
  <2>1. old.signatures \in Seq(S) /\ new \in S
    BY <1>2, <1>6
  <2> HIDE DEF S
  <2>2. /\ signatures \in Seq(S) /\ Len(signatures) = n + 1
        /\ \A i \in 1 .. n : signatures[i] = old.signatures[i]
        /\ signatures[n + 1] = new
    BY <1>7, <2>1
  <2> QED
    BY <2>2 DEF S
<1>9. PICK call : call = [old EXCEPT !.signatures = signatures, !.header = NoHeader]
  OBVIOUS
<1>10. /\ DOMAIN call = DOMAIN old
       /\ call.busy = old.busy /\ call.payload = old.payload
       /\ call.detached = old.detached /\ call.publics = old.publics
       /\ call.signatures = signatures /\ call.header = NoHeader
  BY <1>1, <1>9 DEF SigningInv
<1>11. ASSUME NEW i \in 1 .. n + 1
       PROVE  MadeBy(signer, signatures, i, old.publics)
  <2>1. CASE i \in 1 .. n
    <3>1. MadeBy(signer, old.signatures, i, old.publics)
      BY <1>1, <2>1 DEF SigningInv
    <3> QED
      BY <1>8, <2>1, <3>1 DEF MadeBy
  <2>2. CASE i = n + 1
    <3>1. opaqueKey \in old.publics
      BY <1>1 DEF SigningInv
    <3> QED
      BY <1>3, <1>5, <1>8, <2>2, <3>1 DEF MadeBy
  <2> QED
    BY <1>2, <2>1, <2>2
<1>12. SigningInv(signer, opaqueKey, call)
  BY <1>1, <1>2, <1>8, <1>10, <1>11 DEF SigningInv
<1>13. signing' = [signing EXCEPT ![c] = call]
  <2>1. signing[c].signatures = old.signatures /\ DOMAIN signing = Senders
    BY DEF SenderInv
  <2>2. signing' = [signing EXCEPT
          ![c].signatures = Append(@, [alg |-> signing[c].header.alg,
                                       protected |-> signing[c].header,
                                       signer |-> SignsAs(CurrentKey(c))]),
          ![c].header = NoHeader]
    BY DEF SignInput
  <2> QED
    BY <1>1, <1>4, <1>7, <1>9, <2>1, <2>2 DEF SigningInv
<1> QED
  BY <1>12, <1>13, SenderKeeps DEF SignInput, SenderInv

LEMMA SigningFailsKeeps ==
    ASSUME SenderInv, NEW c \in Senders, SigningFails(c)
    PROVE  SenderInv'
  BY SenderKeeps DEF SigningFails, SenderInv

\* What Serialize puts on the wire.
LEMMA SerializedMessage ==
    ASSUME SenderInv, NEW c \in Senders, Serialize(c),
           MessageSize(signing[c]) \in 1 .. signer.config.maxTokenSize
    PROVE  LET w == Message(signing[c]) IN
           /\ MessageShape(signer, w) /\ ~ w.altered
           /\ MessageInv(signer, w)
           /\ \A i \in DOMAIN signer.keys : w.signatures[i].signer \in Material
<1> DEFINE call == signing[c]
           S == SignaturesBy(signer)
<1>1. call.busy /\ SigningInv(signer, opaqueKey, call)
  BY IdleIsNotBusy DEF Serialize, SenderInv
<1>2. PICK w : w = Message(call)
  OBVIOUS
<1>3. /\ DOMAIN w = {"size", "wellFormed", "embedded", "signed", "signatures",
                     "publics", "altered"}
      /\ w.size = MessageSize(call) /\ w.wellFormed = TRUE /\ w.altered = FALSE
      /\ w.embedded = (IF call.detached THEN EmptyPayload ELSE call.payload)
      /\ w.signed = call.payload /\ w.signatures = call.signatures
      /\ w.publics = call.publics
  BY <1>2 DEF Message
<1>4. /\ signer.keys \in Seq(BuiltKeys) /\ call.signatures \in Seq(S)
      /\ Len(call.signatures) = Len(signer.keys)
  BY <1>1 DEF SigningInv, SenderInv, SignerType, Serialize, Pending
<1>5. DOMAIN signer.keys = 1 .. Len(call.signatures)
  BY <1>4
<1>6. MessageShape(signer, w)
  BY <1>1, <1>3, <1>4, SenderAssumption DEF MessageShape, SigningInv
<1>7. \A i \in DOMAIN signer.keys : MadeBy(signer, w.signatures, i, w.publics)
  BY <1>1, <1>3, <1>5 DEF SigningInv
<1>8. MessageInv(signer, w)
  BY <1>1, <1>3, <1>7 DEF MessageInv, SigningInv
<1>9. \A i \in DOMAIN signer.keys : w.signatures[i].signer \in Material
  <2>1. \A i \in DOMAIN signer.keys : signer.keys[i] \in BuiltKeys
    BY <1>4
  <2> QED
    BY <1>6, <1>7, <2>1, SignerOfType DEF MadeBy, MessageShape
<1> QED
  BY <1>2, <1>3, <1>6, <1>8, <1>9

LEMMA SerializeKeeps ==
    ASSUME SenderInv, NEW c \in Senders, Serialize(c)
    PROVE  SenderInv'
<1>1. /\ signer' = signer /\ opaqueKey' = opaqueKey /\ wiped' = wiped
      /\ signing' = [signing EXCEPT ![c] = Idle]
  BY DEF Serialize
<1>2. CASE wire' = wire
  BY <1>1, <1>2, SenderKeeps DEF SenderInv
<1>3. CASE /\ MessageSize(signing[c]) \in 1 .. signer.config.maxTokenSize
           /\ wire' = wire \cup {Message(signing[c])}
  <2>1. PICK new : new = Message(signing[c])
    OBVIOUS
  <2>2. MessageShape(signer, new) /\ MessageInv(signer, new)
    BY <1>3, <2>1, SerializedMessage
  <2> QED
    BY <1>1, <1>3, <2>1, <2>2 DEF SenderInv
<1> QED
  BY <1>2, <1>3 DEF Serialize

LEMMA RotateOpaqueKeyKeeps ==
    ASSUME SenderInv, RotateOpaqueKey
    PROVE  SenderInv'
<1>1. ASSUME NEW c \in Senders, signing[c].busy
      PROVE  SigningInv(signer, opaqueKey', signing'[c])
  <2>1. PICK call : call = [signing[c] EXCEPT !.publics = @ \cup {opaqueKey'}]
    OBVIOUS
  <2>2. SigningInv(signer, opaqueKey, signing[c])
    BY <1>1, IdleIsNotBusy DEF SenderInv
  <2>3. /\ DOMAIN call = DOMAIN signing[c]
        /\ call.busy = signing[c].busy /\ call.payload = signing[c].payload
        /\ call.detached = signing[c].detached
        /\ call.publics = signing[c].publics \cup {opaqueKey'}
        /\ call.signatures = signing[c].signatures /\ call.header = signing[c].header
    BY <2>1, <2>2 DEF SigningInv
  <2>4. \A i \in 1 .. Len(call.signatures) : MadeBy(signer, call.signatures, i, call.publics)
    BY <2>2, <2>3 DEF SigningInv, MadeBy
  <2>5. opaqueKey' \in OpaqueKeys
    BY DEF RotateOpaqueKey
  <2>6. SigningInv(signer, opaqueKey', call)
    BY <2>2, <2>3, <2>4, <2>5 DEF SigningInv
  <2> QED
    BY <1>1, <2>1, <2>6 DEF RotateOpaqueKey
<1>2. ASSUME NEW c \in Senders
      PROVE  signing'[c] = Idle \/ SigningInv(signer, opaqueKey', signing'[c])
  <2>1. CASE signing[c].busy
    BY <1>1, <2>1
  <2>2. CASE ~ signing[c].busy
    BY <2>2 DEF RotateOpaqueKey
  <2> QED
    BY <2>1, <2>2
<1> QED
  BY <1>2 DEF SenderInv, RotateOpaqueKey

LEMMA OverwriteKeeps ==
    ASSUME SenderInv, NEW material \in Wipeable, Overwrite(material)
    PROVE  SenderInv'
  BY DEF SenderInv, Overwrite

LEMMA SenderNextKeeps == SenderInv /\ [SenderNext]_senderVars => SenderInv'
<1>1. SUFFICES ASSUME SenderInv, [SenderNext]_senderVars
               PROVE  SenderInv'
  OBVIOUS
<1>2. CASE UNCHANGED senderVars
  BY <1>1, <1>2 DEF SenderInv, senderVars
<1>3. ASSUME NEW c \in Senders, NEW p \in Payloads \cup {NilPayload},
             NEW d \in BOOLEAN, Sign(c, p, d)
      PROVE  SenderInv'
  BY <1>1, <1>3, SignKeeps
<1>4. ASSUME NEW c \in Senders,
             PrepareHeader(c) \/ SignInput(c) \/ SigningFails(c) \/ Serialize(c)
      PROVE  SenderInv'
  BY <1>1, <1>4, PrepareHeaderKeeps, SignInputKeeps, SigningFailsKeeps, SerializeKeeps
<1>5. CASE RotateOpaqueKey
  BY <1>1, <1>5, RotateOpaqueKeyKeeps
<1>6. ASSUME NEW material \in Wipeable, Overwrite(material)
      PROVE  SenderInv'
  BY <1>1, <1>6, OverwriteKeeps
<1> QED
  BY <1>1, <1>2, <1>3, <1>4, <1>5, <1>6 DEF SenderNext

\* What the sender's steps do to the signer and the wire.
LEMMA SenderWrites ==
    ASSUME SenderNext
    PROVE  /\ signer' = signer
           /\ \/ wire' = wire
              \/ \E c \in Senders :
                    /\ Serialize(c)
                    /\ MessageSize(signing[c]) \in 1 .. signer.config.maxTokenSize
                    /\ wire' = wire \cup {Message(signing[c])}
<1>1. ASSUME NEW c \in Senders, NEW p \in Payloads \cup {NilPayload},
             NEW d \in BOOLEAN, Sign(c, p, d)
      PROVE  signer' = signer /\ wire' = wire
  BY <1>1 DEF Sign
<1>2. ASSUME NEW c \in Senders, PrepareHeader(c) \/ SignInput(c) \/ SigningFails(c)
      PROVE  signer' = signer /\ wire' = wire
  BY <1>2 DEF PrepareHeader, SignInput, SigningFails
<1>3. ASSUME NEW c \in Senders, Serialize(c)
      PROVE  /\ signer' = signer
             /\ \/ wire' = wire
                \/ /\ MessageSize(signing[c]) \in 1 .. signer.config.maxTokenSize
                   /\ wire' = wire \cup {Message(signing[c])}
  BY <1>3 DEF Serialize
<1>4. CASE RotateOpaqueKey
  BY <1>4 DEF RotateOpaqueKey
<1>5. ASSUME NEW material \in Wipeable, Overwrite(material)
      PROVE  signer' = signer /\ wire' = wire
  BY <1>5 DEF Overwrite
<1> QED
  BY <1>1, <1>2, <1>3, <1>4, <1>5 DEF SenderNext

\* The signatures of an unaltered message are those of the signer's keys.
LEMMA SenderInvKeepsKeys == SenderInv => SignersKeepTheirKeys
<1>1. SUFFICES ASSUME SenderInv, NEW w \in wire, ~ w.altered,
                      NEW i \in DOMAIN signer.keys
               PROVE  w.signatures[i].signer \in
                         IF signer.keys[i].material = OpaqueMaterial
                         THEN {k.material : k \in OpaqueKeys}
                         ELSE {signer.keys[i].material}
  BY DEF SignersKeepTheirKeys
<1>2. MadeBy(signer, w.signatures, i, w.publics) /\ w.publics \subseteq OpaqueKeys
  BY <1>1 DEF SenderInv, MessageInv, MessageShape
<1> QED
  BY <1>2 DEF MadeBy, SignerOf

\* A signature's kid is the application's, the key's or that of its JWK.
LEMMA SenderInvSignsUnderKid == SenderInv => SignedUnderItsKid
<1> DEFINE extra == signer.config.extra
<1>1. SUFFICES ASSUME SenderInv, NEW w \in wire, ~ w.altered,
                      NEW i \in DOMAIN signer.keys
               PROVE  LET key == signer.keys[i]
                          sent == w.signatures[i]
                          kid == sent.protected.kid
                      IN /\ "kid" \in DOMAIN extra => kid = extra["kid"]
                         /\ "kid" \notin DOMAIN extra /\ key.material # OpaqueMaterial
                            => kid = key.kid
                         /\ key.material = OpaqueMaterial =>
                               \E k, l \in w.publics :
                                  /\ "kid" \notin DOMAIN extra => kid = k.keyID
                                  /\ sent.signer = l.material
  BY DEF SignedUnderItsKid
<1> DEFINE key == signer.keys[i]
           sent == w.signatures[i]
<1>2. PICK o, q \in w.publics : /\ sent.protected = HeaderOf(signer, key, o)
                                /\ sent.signer = SignerOf(key, q)
  BY <1>1 DEF SenderInv, MessageInv, MadeBy
<1>3. sent.protected.kid =
         IF "kid" \in DOMAIN extra THEN extra["kid"]
         ELSE IF key.material = OpaqueMaterial THEN o.keyID ELSE key.kid
  BY <1>2 DEF HeaderOf, ProtectedHeader, SetHeaders
<1>4. key.material = OpaqueMaterial => sent.signer = q.material
  BY <1>2 DEF SignerOf
<1> QED
  BY <1>2, <1>3, <1>4

-----------------------------------------------------------------------------
(* What a verifier that agrees with the signer makes of its headers.       *)

LEMMA SentHeader ==
    ASSUME SenderInv, NEW header \in SignerHeaders(signer)
    PROVE  \E alg \in Algorithms, kid \in KeyHints \cup {NoKid} :
              header = ProtectedHeader(signer.config, alg, kid)
<1>1. PICK i \in DOMAIN signer.keys, o \in OpaqueKeys : header = HeaderOf(signer, signer.keys[i], o)
  BY DEF SignerHeaders
<1>2. signer.keys[i] \in BuiltKeys
  BY DEF SenderInv, SignerType
<1>3. /\ signer.keys[i].alg \in Algorithms
      /\ signer.keys[i].kid \in KeyHints \cup {NoKid} /\ o.keyID \in KeyHints \cup {NoKid}
  BY <1>2, SenderAssumption DEF BuiltKeys
<1> QED
  BY <1>1, <1>3 DEF HeaderOf

LEMMA SentKidType ==
    ASSUME SenderInv, NEW header \in SignerHeaders(signer)
    PROVE  header.kid \in KeyHints \cup {NoKid}
<1>1. PICK alg \in Algorithms, kid \in KeyHints \cup {NoKid} :
         header = ProtectedHeader(signer.config, alg, kid)
  BY SentHeader
<1>2. "kid" \in DOMAIN signer.config.extra => signer.config.extra["kid"] \in KeyHints
  BY DEF SenderInv, SignerType, ConfigType
<1> QED
  BY <1>1, <1>2 DEF ProtectedHeader, SetHeaders

\* The header of a signer that agrees with the verifier passes its checks.
LEMMA AgreedHeader ==
    ASSUME SenderInv, Agreement, NEW header \in SignerHeaders(signer)
    PROVE  /\ header \in Headers /\ header.alg \in Algorithms
           /\ header.kid \notin UnfitKids =>
                 ParseProtectedHeader(header) /\ ValidateHeaderPolicy(header)
<1> DEFINE extra == signer.config.extra
<1>1. PICK alg \in Algorithms, kid \in KeyHints \cup {NoKid} :
         header = ProtectedHeader(signer.config, alg, kid)
  BY SentHeader
<1>2. DOMAIN extra \cap {"alg", "crit", "b64"} = {}
  BY DEF Agreement
<1>3. /\ header = [alg |-> header.alg, kid |-> header.kid, typ |-> header.typ,
                   cty |-> header.cty, extra |-> header.extra,
                   wellFormed |-> header.wellFormed]
      /\ header.alg = alg
      /\ header.typ = IF "typ" \in DOMAIN extra THEN extra["typ"] ELSE NoText
      /\ header.cty = IF "cty" \in DOMAIN extra THEN extra["cty"] ELSE NoText
      /\ header.extra = {}
      /\ header.wellFormed = (header.kid \notin UnfitKids)
  BY <1>1, <1>2 DEF ProtectedHeader, SetHeaders
<1>4. header.kid \in KeyHints \cup {NoKid}
  BY SentKidType
<1>5. \A n \in DOMAIN extra \ {"kid"} : extra[n] \in Texts \cup {NoText, NotAString}
  BY DEF SenderInv, SignerType, ConfigType
<1>6. /\ header.typ \in Texts \cup {NoText, NotAString}
      /\ header.cty \in Texts \cup {NoText, NotAString}
  BY <1>3, <1>5
<1>7. header \in Headers
  BY <1>3, <1>4, <1>6 DEF Headers
<1>8. header.typ # NotAString /\ header.cty # NotAString
  BY <1>3, HeadersAssumption DEF Agreement
<1>9. header.alg # NoAlgorithm
  BY <1>3, HeadersAssumption
<1>10. /\ ExpectedTyp \in {NoText, header.typ}
       /\ ExpectedCty \in {NoText, header.cty}
  BY <1>3 DEF Agreement, LastSays
<1> QED
  BY <1>3, <1>7, <1>8, <1>9, <1>10 DEF ParseProtectedHeader, ValidateHeaderPolicy
=============================================================================
