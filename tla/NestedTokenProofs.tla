------------------------- MODULE NestedTokenProofs -------------------------
(***************************************************************************)
(* For any keys, options, configurations, key sources and traffic, and any *)
(* number of callers: a nested verifier accepts only what both layers      *)
(* vouch for, touches the caller's claims only for tokens whose outer      *)
(* layer holds, and refuses nothing that a nested issuer which agrees with *)
(* it has made.                                                            *)
(***************************************************************************)
EXTENDS NestedToken, FiniteSetTheorems, WellFoundedInduction, TLAPS

-----------------------------------------------------------------------------
(* Signers.                                                                *)

\* Induction up to a bound.
LEMMA UpTo ==
    ASSUME NEW n \in Nat, NEW T, 0 \in T,
           \A m \in Nat : m < n /\ m \in T => m + 1 \in T
    PROVE  \A m \in 0 .. n : m \in T
<1> DEFINE Missed == {m \in 0 .. n : m \notin T}
           R == OpToRel(<, Nat)
<1>1. SUFFICES ASSUME Missed # {}
               PROVE  FALSE
  OBVIOUS
<1>2. IsWellFoundedOn(R, Nat)
  BY NatLessThanWellFounded
<1>3. \A x, y \in Nat : y < x => <<y, x>> \in R
  BY DEF OpToRel
<1>4. Missed \subseteq Nat
  OBVIOUS
<1> HIDE DEF R
<1>5. PICK m \in Missed : \A k \in Missed : ~ (<<k, m>> \in R)
  <2> HIDE DEF Missed
  <2> QED
    BY <1>1, <1>2, <1>4, WFMin
<1>6. m \in Nat /\ m # 0 /\ m - 1 \in Nat
  BY <1>5
<1>7. m - 1 \notin Missed
  <2>1. m - 1 < m
    BY <1>6
  <2>2. <<m - 1, m>> \in R
    BY <1>3, <1>6, <2>1
  <2> HIDE DEF Missed
  <2> QED
    BY <1>5, <2>2
<1>8. m - 1 \in T
  BY <1>5, <1>6, <1>7
<1>9. m - 1 + 1 \in T
  BY <1>5, <1>6, <1>8
<1> QED
  BY <1>5, <1>6, <1>9

LEMMA MaxOfInterval ==
    ASSUME NEW k \in Nat
    PROVE  /\ Max(1 .. k + 1) = k + 1
           /\ (1 .. k + 1) \ {k + 1} = 1 .. k
           /\ \A s \in SUBSET (1 .. k + 1) :
                 k + 1 \in s => Max(s) = k + 1 /\ s \ {k + 1} \in SUBSET (1 .. k)
<1>1. ASSUME NEW s \in SUBSET (1 .. k + 1), k + 1 \in s
      PROVE  Max(s) = k + 1
  <2>1. \A y \in s : k + 1 >= y
    BY <1>1
  <2>2. \A x \in s : (\A y \in s : x >= y) => x = k + 1
    BY <1>1
  <2> QED
    BY <1>1, <2>1, <2>2 DEF Max
<1>2. Max(1 .. k + 1) = k + 1
  BY <1>1
<1>3. (1 .. k + 1) \ {k + 1} = 1 .. k
  OBVIOUS
<1>4. \A s \in SUBSET (1 .. k + 1) : k + 1 \in s => s \ {k + 1} \in SUBSET (1 .. k)
  OBVIOUS
<1> QED
  BY <1>1, <1>2, <1>3, <1>4

\* A signer without options.
Unconfigured(k) ==
    [key |-> k, typ |-> DefaultType, maxSize |-> DefaultTokenSize]

\* NewSigner applies the options one after the other.
LEMMA NewSignerSteps ==
    ASSUME NEW k, NEW list, NEW n \in Nat, DOMAIN list = 1 .. n
    PROVE  \E built :
              /\ built[0] = Unconfigured(k)
              /\ \A i \in 0 .. n - 1 : built[i + 1] = ApplySigner(built[i], list[i + 1])
              /\ built[n] = NewSigner(k, list)
<1> DEFINE After(f, s) == IF s = {} THEN Unconfigured(k)
                          ELSE ApplySigner(f[s \ {Max(s)}], list[Max(s)])
           iter == CHOOSE f : f = [s \in SUBSET DOMAIN list |-> After(f, s)]
           Defined == {m \in 0 .. n : \E f : f = [s \in SUBSET (1 .. m) |-> After(f, s)]}
<1>1. NewSigner(k, list) = iter[DOMAIN list]
  BY Zenon DEF NewSigner, Unconfigured, FoldLeft, MapThenFoldSet
<1>2. 0 \in Defined
  <2> DEFINE f == [s \in SUBSET (1 .. 0) |-> Unconfigured(k)]
  <2>1. \A s \in SUBSET (1 .. 0) : s = {}
    OBVIOUS
  <2>2. f = [s \in SUBSET (1 .. 0) |-> After(f, s)]
    BY <2>1
  <2>3. 0 \in 0 .. n
    OBVIOUS
  <2> QED
    BY <2>2, <2>3
<1>3. ASSUME NEW m \in Nat, m < n, m \in Defined
      PROVE  m + 1 \in Defined
  <2>1. PICK f : f = [s \in SUBSET (1 .. m) |-> After(f, s)]
    BY <1>3
  <2> DEFINE g == [s \in SUBSET (1 .. m + 1) |->
                      IF m + 1 \in s THEN ApplySigner(f[s \ {m + 1}], list[m + 1])
                      ELSE f[s]]
  <2>2. ASSUME NEW s \in SUBSET (1 .. m + 1)
        PROVE  g[s] = After(g, s)
    <3>1. CASE m + 1 \in s
      <4>1. Max(s) = m + 1 /\ s \ {m + 1} \in SUBSET (1 .. m)
        BY <3>1, MaxOfInterval
      <4>2. s \ {m + 1} \in SUBSET (1 .. m + 1) /\ m + 1 \notin s \ {m + 1}
        OBVIOUS
      <4>3. g[s \ {m + 1}] = f[s \ {m + 1}]
        BY <4>2
      <4>4. g[s] = ApplySigner(f[s \ {m + 1}], list[m + 1])
        BY <3>1
      <4>5. After(g, s) = ApplySigner(g[s \ {Max(s)}], list[Max(s)])
        BY <3>1
      <4> QED
        BY <4>1, <4>3, <4>4, <4>5
    <3>2. CASE m + 1 \notin s
      <4>1. s \in SUBSET (1 .. m) /\ \A x : s \ {x} \in SUBSET (1 .. m)
        <5>1. \A i \in 1 .. m + 1 : i # m + 1 => i \in 1 .. m
          BY <1>3
        <5> HIDE DEF g
        <5> QED
          BY <2>2, <3>2, <5>1
      <4>2. g[s] = f[s]
        BY <3>2
      <4>3. s \ {Max(s)} \in SUBSET (1 .. m + 1) /\ m + 1 \notin s \ {Max(s)}
        BY <4>1, <3>2
      <4>4. g[s \ {Max(s)}] = f[s \ {Max(s)}]
        BY <4>3
      <4>5. f[s] = After(f, s)
        BY <2>1, <4>1
      <4>6. After(f, s) = After(g, s)
        BY <4>4
      <4> QED
        BY <4>2, <4>5, <4>6
    <3> QED
      BY <3>1, <3>2
  <2>3. g = [s \in SUBSET (1 .. m + 1) |-> g[s]]
    BY Zenon
  <2> HIDE DEF g
  <2>4. g = [s \in SUBSET (1 .. m + 1) |-> After(g, s)]
    <3> HIDE DEF After
    <3> QED
      BY <2>2, <2>3
  <2>5. m + 1 \in 0 .. n
    BY <1>3
  <2> QED
    BY <2>4, <2>5
<1>4. n \in Defined
  <2> HIDE DEF Defined
  <2>1. \A m \in 0 .. n : m \in Defined
    BY <1>2, <1>3, UpTo
  <2> QED
    BY <2>1
<1>5. iter = [s \in SUBSET (1 .. n) |-> After(iter, s)]
  <2>1. \E f : f = [s \in SUBSET DOMAIN list |-> After(f, s)]
    BY <1>4
  <2>2. iter = [s \in SUBSET DOMAIN list |-> After(iter, s)]
    BY <2>1, Zenon
  <2> QED
    BY <2>2
<1> HIDE DEF iter
<1> DEFINE built == [i \in 0 .. n |-> iter[1 .. i]]
<1>6. built[0] = Unconfigured(k)
  <2>1. 1 .. 0 = {} /\ {} \in SUBSET (1 .. n) /\ 0 \in 0 .. n
    OBVIOUS
  <2>2. iter[{}] = After(iter, {})
    BY <1>5, <2>1
  <2> QED
    BY <2>1, <2>2
<1>7. ASSUME NEW i \in 0 .. n - 1
      PROVE  built[i + 1] = ApplySigner(built[i], list[i + 1])
  <2>1. /\ i \in Nat /\ 1 .. i + 1 # {} /\ i + 1 \in 0 .. n /\ i \in 0 .. n
        /\ 1 .. i + 1 \in SUBSET (1 .. n)
    OBVIOUS
  <2>2. iter[1 .. i + 1] = After(iter, 1 .. i + 1)
    BY <1>5, <2>1
  <2>3. After(iter, 1 .. i + 1) = ApplySigner(iter[1 .. i], list[i + 1])
    BY <2>1, MaxOfInterval
  <2> HIDE DEF After
  <2> QED
    BY <2>1, <2>2, <2>3
<1>8. built[n] = NewSigner(k, list)
  BY <1>1
<1> HIDE DEF built
<1> QED
  BY <1>6, <1>7, <1>8

Signers == [key : SigningKeys, typ : Texts, maxSize : Int]

LEMMA ApplySignerType ==
    ASSUME NEW s \in Signers, NEW option \in Options, ValidSignerOption(option)
    PROVE  ApplySigner(s, option) \in Signers /\ ApplySigner(s, option).key = s.key
<1>1. CASE option.set = "type"
  <2>1. option.value \in Texts
    BY <1>1 DEF ValidSignerOption
  <2> QED
    BY <1>1, <2>1 DEF ApplySigner, Signers
<1>2. CASE option.set = "maxTokenSize"
  <2>1. option.value \in Int
    BY <1>2 DEF Options
  <2> QED
    BY <1>2, <2>1 DEF ApplySigner, Signers
<1> QED
  BY <1>1, <1>2 DEF ValidSignerOption

LEMMA NewSignerType ==
    ASSUME NEW k \in SigningKeys, NEW list \in SignerOptions, ValidSigner(k, list)
    PROVE  NewSigner(k, list) \in Signers /\ NewSigner(k, list).key = k
<1> DEFINE n == Len(list)
           Good(s) == s \in Signers /\ s.key = k
<1>0. list \in Seq(Options)
  BY IssuerAssumption
<1>1. n \in Nat /\ DOMAIN list = 1 .. n
  BY <1>0
<1>2. PICK built :
         /\ built[0] = Unconfigured(k)
         /\ \A i \in 0 .. n - 1 : built[i + 1] = ApplySigner(built[i], list[i + 1])
         /\ built[n] = NewSigner(k, list)
  BY <1>1, NewSignerSteps
<1> DEFINE T == {i \in 0 .. n : Good(built[i])}
<1>3. 0 \in T
  <2>1. Good(Unconfigured(k))
    BY SignersAssumption DEF Unconfigured, Signers
  <2> QED
    BY <1>1, <1>2, <2>1
<1>4. ASSUME NEW i \in Nat, i < n, i \in T
      PROVE  i + 1 \in T
  <2>1. i \in 0 .. n - 1 /\ i + 1 \in 1 .. n /\ i + 1 \in 0 .. n
    BY <1>1, <1>4
  <2>2. list[i + 1] \in Options /\ ValidSignerOption(list[i + 1])
    BY <1>0, <1>1, <2>1 DEF ValidSigner
  <2>3. Good(built[i + 1])
    BY <1>2, <1>4, <2>1, <2>2, ApplySignerType
  <2> QED
    BY <2>1, <2>3
<1> HIDE DEF T
<1>5. \A i \in 0 .. n : i \in T
  BY <1>1, <1>3, <1>4, UpTo
<1>6. n \in T
  BY <1>1, <1>5
<1> QED
  BY <1>2, <1>6 DEF T

-----------------------------------------------------------------------------
(* The options of the outer layer.                                         *)

LEMMA SealerMax == \A s : Sealer!Max(s) = Max(s)
  BY Zenon DEF Sealer!Max, Max

\* makeConfig applies the options one after the other.
LEMMA MakeConfigSteps ==
    ASSUME NEW list, NEW n \in Nat, DOMAIN list = 1 .. n
    PROVE  \E made :
              /\ made[0] = Sealer!DefaultConfig
              /\ \A i \in 0 .. n - 1 : made[i + 1] = Sealer!Apply(made[i], list[i + 1])
              /\ made[n] = Sealer!MakeConfig(list)
<1> DEFINE After(f, s) == IF s = {} THEN Sealer!DefaultConfig
                          ELSE Sealer!Apply(f[s \ {Sealer!Max(s)}], list[Sealer!Max(s)])
           iter == CHOOSE f : f = [s \in SUBSET DOMAIN list |-> After(f, s)]
           Defined == {m \in 0 .. n : \E f : f = [s \in SUBSET (1 .. m) |-> After(f, s)]}
<1>1. Sealer!MakeConfig(list) = iter[DOMAIN list]
  BY Zenon DEF Sealer!MakeConfig, Sealer!FoldLeft, Sealer!MapThenFoldSet
<1>2. 0 \in Defined
  <2> DEFINE f == [s \in SUBSET (1 .. 0) |-> Sealer!DefaultConfig]
  <2>1. \A s \in SUBSET (1 .. 0) : s = {}
    OBVIOUS
  <2>2. f = [s \in SUBSET (1 .. 0) |-> After(f, s)]
    BY <2>1
  <2>3. 0 \in 0 .. n
    OBVIOUS
  <2> QED
    BY <2>2, <2>3
<1>3. ASSUME NEW m \in Nat, m < n, m \in Defined
      PROVE  m + 1 \in Defined
  <2>1. PICK f : f = [s \in SUBSET (1 .. m) |-> After(f, s)]
    BY <1>3
  <2> DEFINE g == [s \in SUBSET (1 .. m + 1) |->
                      IF m + 1 \in s THEN Sealer!Apply(f[s \ {m + 1}], list[m + 1])
                      ELSE f[s]]
  <2>2. ASSUME NEW s \in SUBSET (1 .. m + 1)
        PROVE  g[s] = After(g, s)
    <3>1. CASE m + 1 \in s
      <4>1. Sealer!Max(s) = m + 1 /\ s \ {m + 1} \in SUBSET (1 .. m)
        BY <3>1, MaxOfInterval, SealerMax
      <4>2. s \ {m + 1} \in SUBSET (1 .. m + 1) /\ m + 1 \notin s \ {m + 1}
        OBVIOUS
      <4>3. g[s \ {m + 1}] = f[s \ {m + 1}]
        BY <4>2
      <4>4. g[s] = Sealer!Apply(f[s \ {m + 1}], list[m + 1])
        BY <3>1
      <4>5. After(g, s) = Sealer!Apply(g[s \ {Sealer!Max(s)}], list[Sealer!Max(s)])
        BY <3>1
      <4> QED
        BY <4>1, <4>3, <4>4, <4>5
    <3>2. CASE m + 1 \notin s
      <4>1. s \in SUBSET (1 .. m) /\ \A x : s \ {x} \in SUBSET (1 .. m)
        <5>1. \A i \in 1 .. m + 1 : i # m + 1 => i \in 1 .. m
          BY <1>3
        <5> HIDE DEF g
        <5> QED
          BY <2>2, <3>2, <5>1
      <4>2. g[s] = f[s]
        BY <3>2
      <4>3. s \ {Sealer!Max(s)} \in SUBSET (1 .. m + 1) /\ m + 1 \notin s \ {Sealer!Max(s)}
        BY <4>1, <3>2
      <4>4. g[s \ {Sealer!Max(s)}] = f[s \ {Sealer!Max(s)}]
        BY <4>3
      <4>5. f[s] = After(f, s)
        BY <2>1, <4>1
      <4>6. After(f, s) = After(g, s)
        BY <4>4
      <4> QED
        BY <4>2, <4>5, <4>6
    <3> QED
      BY <3>1, <3>2
  <2>3. g = [s \in SUBSET (1 .. m + 1) |-> g[s]]
    BY Zenon
  <2> HIDE DEF g
  <2>4. g = [s \in SUBSET (1 .. m + 1) |-> After(g, s)]
    <3> HIDE DEF After
    <3> QED
      BY <2>2, <2>3
  <2>5. m + 1 \in 0 .. n
    BY <1>3
  <2> QED
    BY <2>4, <2>5
<1>4. n \in Defined
  <2> HIDE DEF Defined
  <2>1. \A m \in 0 .. n : m \in Defined
    BY <1>2, <1>3, UpTo
  <2> QED
    BY <2>1
<1>5. iter = [s \in SUBSET (1 .. n) |-> After(iter, s)]
  <2>1. \E f : f = [s \in SUBSET DOMAIN list |-> After(f, s)]
    BY <1>4
  <2>2. iter = [s \in SUBSET DOMAIN list |-> After(iter, s)]
    BY <2>1, Zenon
  <2> QED
    BY <2>2
<1> HIDE DEF iter
<1> DEFINE made == [i \in 0 .. n |-> iter[1 .. i]]
<1>6. made[0] = Sealer!DefaultConfig
  <2>1. 1 .. 0 = {} /\ {} \in SUBSET (1 .. n) /\ 0 \in 0 .. n
    OBVIOUS
  <2>2. iter[{}] = After(iter, {})
    BY <1>5, <2>1
  <2> QED
    BY <2>1, <2>2
<1>7. ASSUME NEW i \in 0 .. n - 1
      PROVE  made[i + 1] = Sealer!Apply(made[i], list[i + 1])
  <2>1. /\ i \in Nat /\ 1 .. i + 1 # {} /\ i + 1 \in 0 .. n /\ i \in 0 .. n
        /\ 1 .. i + 1 \in SUBSET (1 .. n)
    OBVIOUS
  <2>2. iter[1 .. i + 1] = After(iter, 1 .. i + 1)
    BY <1>5, <2>1
  <2>3. After(iter, 1 .. i + 1) = Sealer!Apply(iter[1 .. i], list[i + 1])
    BY <2>1, MaxOfInterval, SealerMax
  <2> HIDE DEF After
  <2> QED
    BY <2>1, <2>2, <2>3
<1>8. made[n] = Sealer!MakeConfig(list)
  BY <1>1
<1> HIDE DEF made
<1> QED
  BY <1>6, <1>7, <1>8

\* The policy and the limits options make.
ConfigType(made) ==
    /\ DOMAIN made = {"policy", "maxTokenSize", "maxPlaintextSize", "extra"}
    /\ made.policy \in Sealer!Policies
    /\ made.maxTokenSize \in Int /\ made.maxPlaintextSize \in Int

LEMMA OptionCases ==
    ASSUME NEW option \in Sealer!Options
    PROVE  /\ option.set \in {"typ", "cty", "compression", "maxTokenSize",
                              "maxPlaintextSize", "header", "nil"}
           /\ option.set \in {"typ", "cty", "compression"} =>
                 option.value \in Texts \cup {NoText, Unfit}
           /\ option.set \in {"maxTokenSize", "maxPlaintextSize"} =>
                 option.value \in Int
  BY DEF Sealer!Options

LEMMA ApplyKeepsType ==
    ASSUME NEW made, ConfigType(made), NEW option \in Sealer!Options, Sealer!ValidOption(option)
    PROVE  ConfigType(Sealer!Apply(made, option))
<1> DEFINE value == option.value
<1>1. CASE option.set \in {"typ", "cty", "compression"}
  <2>1. Sealer!Apply(made, option) = [made EXCEPT !.policy[option.set] = value]
    BY <1>1, Zenon DEF Sealer!Apply
  <2>2. /\ option.set \in {"typ", "cty"} => value \notin {NoText, Unfit}
        /\ option.set = "compression" => value \in {NoText, Deflate}
    <3>1. option.set \in {"typ", "cty"} => value \notin {NoText, Unfit}
      BY Zenon DEF Sealer!ValidOption
    <3>2. option.set = "compression" => value \in {NoText, Deflate}
      BY Zenon DEF Sealer!ValidOption
    <3> QED
      BY <3>1, <3>2
  <2>3. value \in Texts \cup {NoText, Unfit}
    BY <1>1, OptionCases
  <2>4. PICK policy : policy = [made.policy EXCEPT ![option.set] = value]
    OBVIOUS
  <2>5. policy \in Sealer!Policies
    BY <1>1, <2>2, <2>3, <2>4 DEF ConfigType, Sealer!Policies
  <2>6. Sealer!Apply(made, option) = [made EXCEPT !.policy = policy]
    BY <2>1, <2>4 DEF ConfigType
  <2> QED
    BY <2>5, <2>6 DEF ConfigType
<1>2. CASE option.set \in {"maxTokenSize", "maxPlaintextSize"}
  <2>1. Sealer!Apply(made, option) = [made EXCEPT ![option.set] = value]
    BY <1>2, Zenon DEF Sealer!Apply
  <2>2. value \in Int
    BY <1>2, OptionCases
  <2> QED
    BY <1>2, <2>1, <2>2 DEF ConfigType
<1>3. CASE option.set = "header"
  <2>1. Sealer!Apply(made, option) =
           [made EXCEPT !.extra = Sealer!Merged(Sealer!Sole(option.name, value), @)]
    BY <1>3, Zenon DEF Sealer!Apply
  <2> QED
    BY <2>1 DEF ConfigType
<1>4. option.set # "nil"
  BY Zenon DEF Sealer!ValidOption
<1> QED
  BY <1>1, <1>2, <1>3, <1>4, OptionCases

LEMMA DefaultConfigType == ConfigType(Sealer!DefaultConfig)
  BY DEF ConfigType, Sealer!DefaultConfig, Sealer!DefaultSize, Sealer!Policies

LEMMA MakeConfigType ==
    ASSUME NEW list \in Seq(Sealer!Options), Sealer!ValidOptions(list)
    PROVE  ConfigType(Sealer!MakeConfig(list))
<1> DEFINE n == Len(list)
<1>1. n \in Nat /\ DOMAIN list = 1 .. n
  OBVIOUS
<1>2. PICK made :
         /\ made[0] = Sealer!DefaultConfig
         /\ \A i \in 0 .. n - 1 : made[i + 1] = Sealer!Apply(made[i], list[i + 1])
         /\ made[n] = Sealer!MakeConfig(list)
  BY <1>1, MakeConfigSteps
<1> DEFINE T == {i \in 0 .. n : ConfigType(made[i])}
<1>3. 0 \in T
  BY <1>1, <1>2, DefaultConfigType
<1>4. ASSUME NEW i \in Nat, i < n, i \in T
      PROVE  i + 1 \in T
  <2>1. i \in 0 .. n - 1 /\ i + 1 \in 1 .. n /\ i + 1 \in 0 .. n
    BY <1>1, <1>4
  <2>2. list[i + 1] \in Sealer!Options /\ Sealer!ValidOption(list[i + 1])
    BY <1>1, <2>1 DEF Sealer!ValidOptions
  <2>3. ConfigType(made[i + 1])
    BY <1>2, <1>4, <2>1, <2>2, ApplyKeepsType
  <2> QED
    BY <2>1, <2>3
<1> HIDE DEF T
<1>5. \A i \in 0 .. n : i \in T
  BY <1>1, <1>3, <1>4, UpTo
<1>6. n \in T
  BY <1>1, <1>5
<1> QED
  BY <1>2, <1>6 DEF T

-----------------------------------------------------------------------------
(* The inductive invariant.                                                *)

\* A compact token that holds a JWT.
Shape(t) ==
    /\ DOMAIN t = {"size", "wellFormed", "protected", "unprotected", "intact",
                   "recipients", "enc", "plaintext", "content", "authData"}
    /\ t.plaintext \in Nat
    /\ t.protected = [n \in DOMAIN t.protected |-> t.protected[n]]
    /\ t.unprotected = Outer!NoHeader
    /\ DOMAIN t.recipients = {1} /\ Len(t.recipients) = 1
    /\ t.recipients[1].header = Outer!NoHeader
    /\ t.content \in Inner!TokenType

\* What the issuer made.
Issued(t) ==
    \E cs \in ClaimsPool :
        LET signed == Signed(issuer.signer, cs, TokenSize) IN
        /\ t = Sealed(issuer.encrypter, signed)
        /\ Sealer!EncryptErrors(issuer.encrypter, Plaintext(signed), NoAuthData,
                                Memory) = {}

\* Both components are what their constructors accept; the tokens under way.
WorldInv ==
    /\ \E k \in SigningKeys, s \in SignerOptions, o \in OuterOptions :
          /\ ValidSigner(k, s)
          /\ Sealer!ValidEncrypter(FALSE, Encryption, <<Recipient>>, o, Memory)
          /\ issuer = [signer |-> NewSigner(k, s), encrypter |-> Encrypter(o)]
    /\ ValidNestedIssuer(issuer.encrypter)
    /\ decrypter \in Decrypters /\ ValidNestedVerifier(decrypter)
    /\ config \in Configurations /\ clock \in Times
    /\ \A v \in wire : /\ DOMAIN v = {"outer", "origin"}
                       /\ Shape(v.outer)
                       /\ v.origin = "issuer" => Issued(v.outer)

\* Why DecryptToken refused: for the token, or for a key in force during it.
OuterGrounds(c) ==
    \/ Outer!EarlyErrors(outer[c]) # {} \/ Outer!LateErrors(outer[c], 1) # {}
    \/ \E r \in outerSeen[c] : ~ OpenedBy(r, outer[c])

\* A call of DecryptToken that goes on has passed the checks of the header;
\* its key is the answer of a registry in force since it began.
OuterInv(c) ==
    /\ outerPc[c] \in {"idle", "resolving", "decrypting", "decrypted", "rejected"}
    /\ outerPc[c] # "idle" => Shape(outer[c])
    /\ outerPc[c] \in {"resolving", "decrypting"} =>
          registry \in outerSeen[c] /\ Outer!EarlyErrors(outer[c]) = {}
    /\ outerPc[c] = "decrypting" =>
          \E r \in outerSeen[c] :
             Outer!Answer(r, Outer!SharedHeader(outer[c]))
                = [errors |-> {}, key |-> outerKey[c]]
    /\ outerPc[c] = "decrypted" =>
          /\ index[c] = 1 /\ Outer!LateErrors(outer[c], 1) = {}
          /\ \E r \in outerSeen[c] : OpenedBy(r, outer[c])
    /\ outerPc[c] = "rejected" => outerErrors[c] # {} /\ OuterGrounds(c)

\* r answers the header of t with a key that verifies it.
VerifiedBy(r, t) ==
    LET answer == Inner!Answer(r, t.header) IN
    /\ answer.errors = {} /\ Initialized(answer.key)
    /\ answer.key.method = t.header.alg /\ answer.key.material = t.signer

\* Why VerifyToken of the JWT verifier refused.
InnerGrounds(c) ==
    \/ Inner!EarlyErrors(inner[c]) # {} \/ ~ Inner!TypeExpected(c)
    \/ \E r \in innerSeen[c] : ~ VerifiedBy(r, inner[c])
    \/ \E now \in clocks[c] :
          \/ Inner!ClaimsErrors(config, claims[c], now) # {}
          \/ Inner!ValidateLifetime(config, claims[c], now) # "none"

\* A call of it that goes on has the claims of its token, and if the value the
\* caller passed was blank, no others.
InnerInv(c) ==
    /\ innerPc[c] \in {"idle", "resolving", "verifying", "policy", "accepted",
                       "rejected"}
    /\ clocks[c] \subseteq Times
    /\ Inner!InProgress(c) => keySource \in innerSeen[c] /\ clock \in clocks[c]
    /\ innerPc[c] \in {"resolving", "verifying", "policy", "accepted"} =>
          /\ innerErrors[c] = {}
          /\ blank[c] => claims[c] = inner[c].claims
          /\ inner[c].claims.exp # Absent => claims[c].exp = inner[c].claims.exp
    /\ innerPc[c] = "verifying" =>
          \E r \in innerSeen[c] :
             LET answer == Inner!Answer(r, inner[c].header) IN
             /\ answer.errors = {} /\ answer.key = innerKey[c]
             /\ Initialized(innerKey[c]) /\ innerKey[c].method = inner[c].header.alg
    /\ innerPc[c] \in {"policy", "accepted"} =>
          /\ \E r \in innerSeen[c] : VerifiedBy(r, inner[c])
          /\ \E now \in clocks[c] : Inner!ClaimsErrors(config, claims[c], now) = {}
    /\ innerPc[c] = "rejected" => innerErrors[c] # {} /\ InnerGrounds(c)

\* The outer layer let a JWT through, and the inner one is called with it.
Opened(c) == /\ outerPc[c] = "decrypted" /\ ContentType(c) = JWT
             /\ inner[c] = outer[c].content

\* What was returned is what one of the layers answered.
VerdictInv(c) ==
    \/ outerPc[c] = "rejected" /\ verdict[c] = outerErrors[c]
    \/ outerPc[c] = "decrypted" /\ ContentType(c) # JWT /\ verdict[c] # {}
    \/ Opened(c) /\ innerPc[c] # "idle" /\ verdict[c] = innerErrors[c]

\* What is handed out are the headers of a call without error.
ReturnedInv(c) ==
    \A headers \in returned[c] :
        stage[c] = "done" /\ verdict[c] = {} /\ headers = Headers(c)

StageInv(c) ==
    /\ ReturnedInv(c)
    /\ stage[c] \in {"idle", "outer", "inner", "done"}
    /\ stage[c] = "idle" <=> outerPc[c] = "idle"
    /\ stage[c] # "outer" => outerPc[c] \in {"idle", "decrypted", "rejected"}
    /\ stage[c] # "inner" => innerPc[c] \in {"idle", "accepted", "rejected"}
    /\ stage[c] = "inner" => Opened(c) /\ innerPc[c] # "idle"
    /\ stage[c] = "done" => VerdictInv(c)

PerCaller ==
    /\ DOMAIN stage = Callers /\ DOMAIN verdict = Callers /\ DOMAIN returned = Callers
    /\ DOMAIN outerPc = Callers /\ DOMAIN outer = Callers
    /\ DOMAIN outerKey = Callers /\ DOMAIN index = Callers
    /\ DOMAIN outerErrors = Callers /\ DOMAIN outerSeen = Callers
    /\ DOMAIN innerPc = Callers /\ DOMAIN inner = Callers
    /\ DOMAIN claims = Callers /\ DOMAIN innerKey = Callers
    /\ DOMAIN innerErrors = Callers /\ DOMAIN blank = Callers
    /\ DOMAIN innerSeen = Callers /\ DOMAIN clocks = Callers

CallInv(c) == OuterInv(c) /\ InnerInv(c) /\ StageInv(c)

IInv == WorldInv /\ PerCaller /\ \A c \in Callers : CallInv(c)

-----------------------------------------------------------------------------
(* Tokens.                                                                 *)

\* A key a constructor returned: its material verifies what it signs.
LEMMA SigningKeyType ==
    ASSUME NEW k \in SigningKeys, ValidSigningKey(k)
    PROVE  /\ k.verification \in VerificationKeys /\ Initialized(k.verification)
           /\ k.verification.id \in KeyIDs \cup {NoKeyID}
           /\ k.id = k.verification.id /\ k.method = k.verification.method
           /\ k.method \in Algorithms
           /\ k.verification.material \in Material
           /\ PublicOf[SignsWith(k)] = k.verification.material
<1>1. PICK id \in AnyKeyID, method \in Algorithms \cup {NoAlgorithm}, m \in DOMAIN PublicOf :
         k \in {NewSigningKey(id, method, m).key,
                NewExternalSigningKey(id, method, PublicOf[m], m).key}
  BY IssuerAssumption
<1> DEFINE public == PublicOf[m]
<1>2. m \in Material /\ m # NilMaterial /\ public \in Material \cup {NilMaterial}
  BY KeysAssumption, SignersAssumption DEF Material
<1>3. k.method # NoAlgorithm
  BY DEF ValidSigningKey
<1> DEFINE made == NewVerificationKey(id, method, public)
<1>4. PICK local, backend :
         /\ k = Signing(made, local, backend).key
         /\ (IF backend = NilMaterial THEN local ELSE backend) = m
  <2>1. CASE k = NewSigningKey(id, method, m).key
    <3>1. NewSigningKey(id, method, m) = Signing(made, m, NilMaterial)
      BY <1>2 DEF NewSigningKey
    <3> QED
      BY <2>1, <3>1
  <2>2. CASE k = NewExternalSigningKey(id, method, PublicOf[m], m).key
    <3>1. NewExternalSigningKey(id, method, PublicOf[m], m) = Signing(made, NilMaterial, m)
      BY <1>2 DEF NewExternalSigningKey
    <3> QED
      BY <1>2, <2>2, <3>1
  <2> QED
    BY <1>1, <2>1, <2>2
<1> DEFINE v == [id |-> id, method |-> method, material |-> public]
<1>5. made.error = "none"
  BY <1>3, <1>4 DEF Signing, ZeroSigningKey
<1>6. /\ id \notin OverlongKeyIDs /\ method # NoAlgorithm /\ public # NilMaterial
      /\ made = Found(v)
  BY <1>5 DEF NewVerificationKey, Failure
<1>7. k = [id |-> id, method |-> method, local |-> local, backend |-> backend,
           verification |-> v]
  BY <1>4, <1>6 DEF Signing, Found
<1>8. v \in VerificationKeys
  BY <1>2 DEF VerificationKeys
<1> QED
  BY <1>2, <1>4, <1>6, <1>7, <1>8 DEF Initialized, SignsWith, AnyKeyID

\* What the issuer signs is a token as the JWT verifier has them.
LEMMA SignedType ==
    ASSUME NEW k \in SigningKeys, NEW s \in SignerOptions, ValidSigner(k, s),
           NEW cs \in ClaimsPool
    PROVE  Signed(NewSigner(k, s), cs, TokenSize) \in Inner!TokenType
<1> DEFINE signer == NewSigner(k, s)
<1>1. signer \in Signers /\ signer.key = k
  BY NewSignerType
<1>2. /\ k.id \in KeyIDs \cup {NoKeyID} /\ k.method \in Algorithms
      /\ PublicOf[SignsWith(k)] \in Material
  BY SigningKeyType DEF ValidSigner
<1> HIDE DEF signer
<1>3. SignerHeader(signer) \in Inner!Headers
  BY <1>1, <1>2 DEF SignerHeader, Signers, Inner!Headers, Inner!AnyKeyID
<1>4. cs \in Inner!ClaimSets /\ TokenSize \in Nat
  BY NestedAssumption
<1>5. Signed(signer, cs, TokenSize) =
         [size |-> TokenSize, wellFormed |-> TRUE, header |-> SignerHeader(signer),
          claims |-> cs, encoded |-> TRUE, signer |-> PublicOf[SignsWith(k)]]
  BY <1>1 DEF Signed
<1> QED
  BY <1>2, <1>3, <1>4, <1>5 DEF Inner!TokenType, Inner!Material, Material, signer

\* The decrypter's module reads headers as the encrypter's does.
LEMMA OuterReads ==
    /\ \A f, g : Outer!Merged(f, g) = Sealer!Merged(f, g)
    /\ \A h, n : Outer!Text(h, n) = Sealer!Text(h, n)
    /\ Outer!NoHeader = Sealer!NoHeader
<1>1. \A f, g : Outer!Merged(f, g) = Sealer!Merged(f, g)
  BY Zenon DEF Outer!Merged, Sealer!Merged
<1>2. \A h, n : Outer!Text(h, n) = Sealer!Text(h, n)
  BY Zenon DEF Outer!Text, Sealer!Text
<1>3. Outer!NoHeader = Sealer!NoHeader
  BY Zenon DEF Outer!NoHeader, Sealer!NoHeader
<1> QED
  BY <1>1, <1>2, <1>3

\* An encrypter of the issuer's kind seals a JWT in a compact token.
LEMMA SealedShape ==
    ASSUME NEW o, NEW t \in Inner!TokenType
    PROVE  Shape(Sealed(Encrypter(o), t))
<1> DEFINE e == Encrypter(o)
           made == Sealer!CloneKeyMaterial(Recipient.buffer, Memory)
           r == [alg |-> Recipient.alg, kid |-> Recipient.kid, held |-> made]
<1>1. /\ DOMAIN <<Recipient>> = {1} /\ <<Recipient>>[1] = Recipient
      /\ e.recipients = [i \in DOMAIN <<Recipient>> |->
            [alg |-> <<Recipient>>[i].alg, kid |-> <<Recipient>>[i].kid,
             held |-> Sealer!CloneKeyMaterial(<<Recipient>>[i].buffer, Memory)]]
  BY DEF Encrypter, Sealer!NewEncrypter
<1>2. e.recipients = [i \in 1 .. 1 |-> r]
  BY <1>1
<1> HIDE DEF e
<1>3. DOMAIN e.recipients = {1} /\ Len(e.recipients) = 1
  BY <1>2
<1> DEFINE rs == [i \in DOMAIN e.recipients |->
                     [key |-> Sealer!KeyNow(e.recipients[i].held, Memory),
                      alg |-> e.recipients[i].alg,
                      header |-> IF Len(e.recipients) = 1 THEN Sealer!NoHeader
                                 ELSE Sealer!OwnHeader(e.recipients[i])]]
<1>4. /\ DOMAIN rs = {1} /\ Len(rs) = 1 /\ rs[1].header = Sealer!NoHeader
  <2>1. rs = [i \in 1 .. 1 |-> rs[1]]
    BY <1>3
  <2> QED
    BY <1>3, <2>1
<1>5. PICK size, enc, plaintext, content, authData :
         /\ Sealed(e, t) = [size |-> size, wellFormed |-> TRUE,
                            protected |-> Sealer!ProtectedHeader(e),
                            unprotected |-> Sealer!NoHeader, intact |-> TRUE,
                            recipients |-> rs, enc |-> enc, plaintext |-> plaintext,
                            content |-> content, authData |-> authData]
         /\ plaintext = t.size /\ content = t
  BY Zenon DEF Sealed, Sealer!Encrypted, Plaintext
<1>6. t.size \in Nat
  BY DEF Inner!TokenType
<1>7. Sealer!ProtectedHeader(e) = [n \in DOMAIN Sealer!ProtectedHeader(e) |->
                                      Sealer!ProtectedHeader(e)[n]]
  BY DEF Sealer!ProtectedHeader, Sealer!Merged
<1> HIDE DEF rs
<1> QED
  BY <1>4, <1>5, <1>6, <1>7, OuterReads DEF Shape, e

\* Its only header is the protected one.
LEMMA ShapeHeader ==
    ASSUME NEW t, Shape(t)
    PROVE  \A h \in {Outer!SharedHeader(t), Outer!RecipientHeader(t, 1)} :
              /\ DOMAIN h = DOMAIN t.protected
              /\ \A n : Outer!Text(h, n) = Outer!Text(t.protected, n)
<1>1. \A f : /\ DOMAIN Outer!Merged(f, Outer!NoHeader) = DOMAIN f
             /\ \A n : Outer!Text(Outer!Merged(f, Outer!NoHeader), n) = Outer!Text(f, n)
  BY DEF Outer!Merged, Outer!Text, Outer!NoHeader
<1>2. Outer!SharedHeader(t) = Outer!Merged(t.protected, Outer!NoHeader)
  BY DEF Shape, Outer!SharedHeader
<1>3. Outer!RecipientHeader(t, 1) = Outer!Merged(Outer!SharedHeader(t), Outer!NoHeader)
  BY DEF Shape, Outer!RecipientHeader
<1> QED
  BY <1>1, <1>2, <1>3

-----------------------------------------------------------------------------
(* The calls of the decrypter.                                             *)

LEMMA DecrypterType ==
    ASSUME WorldInv
    PROVE  /\ decrypter.multi = FALSE /\ decrypter.keyAlgorithms = KeyAlgorithms
           /\ decrypter.contentEncryptions = ContentEncryptions
           /\ decrypter.policy \in Sealer!Policies
           /\ decrypter.maxTokenSize \in Int /\ decrypter.maxPlaintextSize \in Int
<1>1. PICK options \in OuterOptions :
         /\ Sealer!ValidOptions(options)
         /\ decrypter = [multi |-> FALSE, keyAlgorithms |-> KeyAlgorithms,
                         contentEncryptions |-> ContentEncryptions,
                         policy |-> Sealer!MakeConfig(options).policy,
                         maxTokenSize |-> Sealer!MakeConfig(options).maxTokenSize,
                         maxPlaintextSize |-> Sealer!MakeConfig(options).maxPlaintextSize]
  BY DEF WorldInv, Decrypters, OuterConfigs
<1>2. ConfigType(Sealer!MakeConfig(options))
  BY <1>1, IssuerAssumption, MakeConfigType
<1> QED
  BY <1>1, <1>2 DEF ConfigType

\* The judgements read nothing but the configurations.
LEMMA SameOuterJudgements ==
    ASSUME decrypter' = decrypter
    PROVE  /\ \A t : Outer!EarlyErrors(t)' = Outer!EarlyErrors(t)
           /\ \A t, i : Outer!LateErrors(t, i)' = Outer!LateErrors(t, i)
<1>1. \A t : Outer!Allowed(t)' <=> Outer!Allowed(t)
  BY DEF Outer!Allowed
<1>2. \A t : Outer!EarlyErrors(t)' = Outer!EarlyErrors(t)
  BY <1>1 DEF Outer!EarlyErrors
<1>3. \A t, i : Outer!LateErrors(t, i)' = Outer!LateErrors(t, i)
  BY DEF Outer!LateErrors
<1> QED
  BY <1>2, <1>3

LEMMA OuterKept ==
    ASSUME NEW c, OuterInv(c), decrypter' = decrypter,
           /\ outerPc'[c] = outerPc[c] /\ outer'[c] = outer[c]
           /\ outerKey'[c] = outerKey[c] /\ index'[c] = index[c]
           /\ outerErrors'[c] = outerErrors[c],
           outerSeen[c] \subseteq outerSeen'[c],
           outerPc[c] \in {"resolving", "decrypting"} => registry' \in outerSeen'[c]
    PROVE  OuterInv(c)'
<1>1. OuterGrounds(c) => OuterGrounds(c)'
  BY SameOuterJudgements DEF OuterGrounds
<1>2. (\E r \in outerSeen[c] : OpenedBy(r, outer[c]))
         => \E r \in outerSeen'[c] : OpenedBy(r, outer'[c])
  OBVIOUS
<1>3. (\E r \in outerSeen[c] : Outer!Answer(r, Outer!SharedHeader(outer[c]))
                                  = [errors |-> {}, key |-> outerKey[c]])
         => \E r \in outerSeen'[c] : Outer!Answer(r, Outer!SharedHeader(outer'[c]))
                                        = [errors |-> {}, key |-> outerKey'[c]]
  OBVIOUS
<1>4. Outer!EarlyErrors(outer[c])' = Outer!EarlyErrors(outer[c])
  BY SameOuterJudgements
<1>5. Outer!LateErrors(outer[c], 1)' = Outer!LateErrors(outer[c], 1)
  BY SameOuterJudgements
<1>6. Shape(outer[c]) => Shape(outer'[c])
  OBVIOUS
<1> QED
  BY <1>1, <1>2, <1>3, <1>4, <1>5, <1>6 DEF OuterInv

\* The outcome of the first part of DecryptToken.
LEMMA DecryptTokenOutcome ==
    ASSUME PerCaller, NEW c \in Callers, NEW t, Shape(t), Outer!DecryptToken(c, t)
    PROVE  /\ outerPc[c] \in {"idle", "decrypted", "rejected"}
           /\ outerPc'[c] \in {"resolving", "rejected"} /\ OuterInv(c)'
<1>1. /\ outer'[c] = t /\ outerSeen'[c] = {registry}
      /\ UNCHANGED <<decrypter, registry>>
      /\ outerPc[c] \in {"idle", "decrypted", "rejected"}
  BY DEF PerCaller, Outer!DecryptToken
<1>2. \/ /\ Outer!EarlyErrors(t) # {} /\ outerPc'[c] = "rejected"
         /\ outerErrors'[c] = Outer!EarlyErrors(t)
      \/ Outer!EarlyErrors(t) = {} /\ outerPc'[c] = "resolving"
  BY DEF PerCaller, Outer!DecryptToken, Outer!Reject
<1>3. Outer!EarlyErrors(outer[c])' = Outer!EarlyErrors(t)
  BY <1>1, SameOuterJudgements
<1> QED
  BY <1>1, <1>2, <1>3 DEF OuterInv, OuterGrounds

LEMMA OuterStepFrame ==
    ASSUME PerCaller, NEW c \in Callers, Outer!Step(c)
    PROVE  /\ outerPc[c] \in {"resolving", "decrypting"}
           /\ UNCHANGED <<decrypter, registry, outer, outerSeen>>
<1>1. CASE Outer!ResolverFailure(c) \/ Outer!KeyResolved(c)
  BY <1>1 DEF Outer!ResolverFailure, Outer!KeyResolved, Outer!Reject
<1>2. CASE Outer!DecryptFails(c) \/ Outer!RejectDecrypted(c) \/ Outer!Return(c)
  BY <1>2 DEF Outer!DecryptFails, Outer!RejectDecrypted, Outer!Return, Outer!Reject
<1> QED
  BY <1>1, <1>2 DEF Outer!Step

\* A key opens a compact token for its only recipient.
LEMMA OpensOnly ==
    ASSUME NEW t, Shape(t), NEW k
    PROVE  /\ Outer!Opens(t, k) # {} <=>
                 t.intact /\ t.recipients[1].key = k /\ Outer!Truthful(t, 1)
           /\ Outer!Opens(t, k) # {} => Outer!FirstOpened(t, k) = 1
<1>1. Outer!Opens(t, k) = {i \in {1} : t.intact /\ t.recipients[i].key = k
                                     /\ Outer!Truthful(t, i)}
  BY DEF Shape, Outer!Opens
<1>2. Outer!Opens(t, k) # {} => Outer!Opens(t, k) = {1}
  BY <1>1
<1>3. Outer!Opens(t, k) = {1} => Outer!FirstOpened(t, k) = 1
  BY DEF Outer!FirstOpened
<1> QED
  BY <1>1, <1>2, <1>3

LEMMA OuterStepOutcome ==
    ASSUME PerCaller, NEW c \in Callers, OuterInv(c), Outer!Step(c)
    PROVE  /\ outerPc'[c] \in {"decrypting", "decrypted", "rejected"}
           /\ OuterInv(c)'
<1> DEFINE t == outer[c]
           reply == Outer!Answer(registry, Outer!SharedHeader(t))
<1>1. /\ outerPc[c] \in {"resolving", "decrypting"}
      /\ UNCHANGED <<decrypter, registry, outer, outerSeen>>
  BY OuterStepFrame
<1>2. Shape(t) /\ registry \in outerSeen[c] /\ Outer!EarlyErrors(t) = {}
  BY <1>1 DEF OuterInv
<1>3. Outer!Reply(c) = reply
  BY DEF Outer!Reply
<1>4. reply.errors = {} => reply = [errors |-> {}, key |-> reply.key]
  BY DEF Outer!Answer
<1>5. /\ \A u : Outer!EarlyErrors(u)' = Outer!EarlyErrors(u)
      /\ \A u, i : Outer!LateErrors(u, i)' = Outer!LateErrors(u, i)
  BY <1>1, SameOuterJudgements
<1>6. CASE Outer!ResolverFailure(c)
  <2>1. /\ outerPc'[c] = "rejected" /\ outerErrors'[c] = reply.errors
        /\ reply.errors # {}
    BY <1>3, <1>6 DEF PerCaller, Outer!ResolverFailure, Outer!Reject
  <2>2. ~ OpenedBy(registry, t)
    BY <2>1 DEF OpenedBy
  <2>3. OuterGrounds(c)'
    BY <1>1, <1>2, <2>2 DEF OuterGrounds
  <2> QED
    BY <1>1, <1>2, <2>1, <2>3 DEF OuterInv
<1>7. CASE Outer!KeyResolved(c)
  <2>1. /\ outerPc'[c] = "decrypting" /\ outerKey'[c] = reply.key
        /\ reply.errors = {}
    BY <1>3, <1>7 DEF PerCaller, Outer!KeyResolved
  <2>2. Outer!Answer(registry, Outer!SharedHeader(outer'[c]))
           = [errors |-> {}, key |-> outerKey'[c]]
    BY <1>1, <1>4, <2>1
  <2>3. (Outer!EarlyErrors(outer[c]) = {})'
    BY <1>1, <1>2, <1>5
  <2> QED
    BY <1>1, <1>2, <2>1, <2>2, <2>3 DEF OuterInv
<1>8. ASSUME outerPc[c] = "decrypting"
      PROVE  \E r \in outerSeen[c] :
                /\ Outer!Answer(r, Outer!SharedHeader(t)) = [errors |-> {}, key |-> outerKey[c]]
                /\ OpenedBy(r, t) <=> Outer!Opens(t, outerKey[c]) # {}
  <2>1. PICK r \in outerSeen[c] :
           Outer!Answer(r, Outer!SharedHeader(t)) = [errors |-> {}, key |-> outerKey[c]]
    BY <1>8 DEF OuterInv
  <2> QED
    BY <1>2, <2>1, OpensOnly DEF OpenedBy
<1>9. CASE Outer!DecryptFails(c)
  <2>1. /\ outerPc[c] = "decrypting" /\ Outer!Opens(t, outerKey[c]) = {}
        /\ outerPc'[c] = "rejected" /\ outerErrors'[c] = {"ErrDecrypt"}
    BY <1>9 DEF PerCaller, Outer!DecryptFails, Outer!Reject
  <2>2. OuterGrounds(c)'
    BY <1>1, <1>8, <2>1 DEF OuterGrounds
  <2> QED
    BY <1>1, <1>2, <2>1, <2>2 DEF OuterInv
<1>10. CASE Outer!RejectDecrypted(c)
  <2>1. /\ outerPc[c] = "decrypting" /\ Outer!Opens(t, outerKey[c]) # {}
        /\ outerPc'[c] = "rejected"
        /\ outerErrors'[c] = Outer!LateErrors(t, Outer!FirstOpened(t, outerKey[c]))
        /\ outerErrors'[c] # {}
    BY <1>10 DEF PerCaller, Outer!RejectDecrypted, Outer!Reject
  <2>2. outerErrors'[c] = Outer!LateErrors(t, 1)
    BY <1>2, <2>1, OpensOnly
  <2>3. OuterGrounds(c)'
    BY <1>1, <1>5, <2>1, <2>2 DEF OuterGrounds
  <2> QED
    BY <1>1, <1>2, <2>1, <2>3 DEF OuterInv
<1>11. CASE Outer!Return(c)
  <2>1. /\ outerPc[c] = "decrypting" /\ Outer!Opens(t, outerKey[c]) # {}
        /\ outerPc'[c] = "decrypted"
        /\ index'[c] = Outer!FirstOpened(t, outerKey[c])
        /\ Outer!LateErrors(t, Outer!FirstOpened(t, outerKey[c])) = {}
    BY <1>11 DEF PerCaller, Outer!Return
  <2>2. index'[c] = 1 /\ Outer!LateErrors(t, 1) = {}
    BY <1>2, <2>1, OpensOnly
  <2>3. (Outer!LateErrors(outer[c], 1) = {})'
    BY <1>1, <1>5, <2>2
  <2>4. \E r \in outerSeen'[c] : OpenedBy(r, outer'[c])
    BY <1>1, <1>8, <2>1
  <2> QED
    BY <1>1, <1>2, <2>1, <2>2, <2>3, <2>4 DEF OuterInv
<1> QED
  BY <1>6, <1>7, <1>9, <1>10, <1>11 DEF Outer!Step, OuterInv

\* What a decrypter returned as a JWT is authentic and within its policy.
LEMMA OuterAccepted ==
    ASSUME WorldInv, NEW c \in Callers, OuterInv(c),
           outerPc[c] = "decrypted", ContentType(c) = JWT
    PROVE  OuterHolds(c)
<1> DEFINE t == outer[c]
           header == Outer!RecipientHeader(t, 1)
<1>1. /\ Shape(t) /\ index[c] = 1 /\ Outer!LateErrors(t, 1) = {}
      /\ \E r \in outerSeen[c] : OpenedBy(r, t)
  BY DEF OuterInv
<1>2. /\ Outer!PolicyErrors(decrypter.policy, header, FALSE) = {}
      /\ ~ t.plaintext > decrypter.maxPlaintextSize
  BY <1>1 DEF Outer!LateErrors
<1>3. decrypter.policy.typ \in {NoText, Outer!Text(header, "typ")}
  BY <1>2 DEF Outer!PolicyErrors, Outer!Expected
<1>4. \A n : Outer!Text(header, n) = Outer!Text(t.protected, n)
  BY <1>1, ShapeHeader
<1>5. Outer!Text(t.protected, "cty") = JWT
  BY <1>1, <1>4 DEF ContentType
<1>6. t.plaintext <= decrypter.maxPlaintextSize
  <2>1. t.plaintext \in Int /\ decrypter.maxPlaintextSize \in Int
    BY <1>1, DecrypterType DEF Shape
  <2> QED
    BY <1>2, <2>1
<1> QED
  BY <1>1, <1>3, <1>4, <1>5, <1>6 DEF OuterHolds

-----------------------------------------------------------------------------
(* The calls of the JWT verifier.                                          *)

LEMMA SameInnerJudgements ==
    ASSUME config' = config
    PROVE  \A t : Inner!EarlyErrors(t)' = Inner!EarlyErrors(t)
<1>1. \A t : Inner!ParseErrors(t)' = Inner!ParseErrors(t)
  BY DEF Inner!ParseErrors
<1> QED
  BY <1>1 DEF Inner!EarlyErrors

LEMMA InnerKept ==
    ASSUME NEW c, InnerInv(c), config' = config,
           /\ innerPc'[c] = innerPc[c] /\ inner'[c] = inner[c]
           /\ claims'[c] = claims[c] /\ innerKey'[c] = innerKey[c]
           /\ innerErrors'[c] = innerErrors[c] /\ blank'[c] = blank[c],
           innerSeen[c] \subseteq innerSeen'[c],
           clocks[c] \subseteq clocks'[c], clocks'[c] \subseteq Times,
           Inner!InProgress(c) => keySource' \in innerSeen'[c] /\ clock' \in clocks'[c]
    PROVE  InnerInv(c)'
<1>1. Inner!EarlyErrors(inner[c])' = Inner!EarlyErrors(inner[c])
  BY SameInnerJudgements
<1>2. Inner!TypeExpected(c)' <=> Inner!TypeExpected(c)
  BY DEF Inner!TypeExpected
<1>3. InnerGrounds(c) => InnerGrounds(c)'
  BY <1>1, <1>2 DEF InnerGrounds
<1>4. Inner!InProgress(c)' <=> Inner!InProgress(c)
  BY DEF Inner!InProgress
<1>5. innerPc[c] = "verifying" =>
         \E r \in innerSeen'[c] :
            LET answer == Inner!Answer(r, inner'[c].header) IN
            /\ answer.errors = {} /\ answer.key = innerKey'[c]
            /\ Initialized(innerKey'[c]) /\ innerKey'[c].method = inner'[c].header.alg
  BY DEF InnerInv
<1>6. innerPc[c] \in {"policy", "accepted"} =>
         /\ \E r \in innerSeen'[c] : VerifiedBy(r, inner'[c])
         /\ \E now \in clocks'[c] : Inner!ClaimsErrors(config', claims'[c], now) = {}
  BY DEF InnerInv
<1>7. innerPc[c] \in {"resolving", "verifying", "policy", "accepted"} =>
         /\ innerErrors'[c] = {}
         /\ blank'[c] => claims'[c] = inner'[c].claims
         /\ inner'[c].claims.exp # Absent => claims'[c].exp = inner'[c].claims.exp
  BY DEF InnerInv
<1>8. /\ innerPc'[c] \in {"idle", "resolving", "verifying", "policy", "accepted",
                          "rejected"}
      /\ Inner!InProgress(c)' => keySource' \in innerSeen'[c] /\ clock' \in clocks'[c]
      /\ innerPc'[c] = "rejected" => innerErrors'[c] # {} /\ InnerGrounds(c)'
  BY <1>3, <1>4 DEF InnerInv
<1> QED
  BY <1>5, <1>6, <1>7, <1>8 DEF InnerInv

\* Decoding into a blank value yields what the token has; decoding into any
\* other, at least the exp it has.
LEMMA Decoded ==
    ASSUME NEW value, NEW cs \in Inner!ClaimSets
    PROVE  /\ Inner!DecodeOver(Inner!NewClaims, cs) = cs
           /\ cs.exp # Absent => Inner!DecodeOver(value, cs).exp = cs.exp
<1>1. Inner!DecodeOver(Inner!NewClaims, cs) =
         [exp |-> cs.exp, nbf |-> cs.nbf, iat |-> cs.iat, iss |-> cs.iss,
          sub |-> cs.sub, aud |-> cs.aud, selfValid |-> cs.selfValid]
  BY DEF Inner!DecodeOver, Inner!NewClaims
<1>2. cs = [exp |-> cs.exp, nbf |-> cs.nbf, iat |-> cs.iat, iss |-> cs.iss,
            sub |-> cs.sub, aud |-> cs.aud, selfValid |-> cs.selfValid]
  BY DEF Inner!ClaimSets
<1>3. cs.exp # Absent => Inner!DecodeOver(value, cs).exp = cs.exp
  BY DEF Inner!DecodeOver
<1> QED
  BY <1>1, <1>2, <1>3

LEMMA ClassifiedNonempty ==
    ASSUME NEW es, es # {}
    PROVE  Inner!Classified(es) # {}
  BY DEF Inner!Classified

\* The outcome of the first part of VerifyToken.
LEMMA VerifyTokenOutcome ==
    ASSUME WorldInv, PerCaller, NEW c \in Callers, NEW t \in Inner!TokenType,
           Inner!VerifyToken(c, t)
    PROVE  /\ innerPc'[c] \in {"resolving", "rejected"} /\ inner'[c] = t
           /\ InnerInv(c)'
<1>1. /\ inner'[c] = t /\ innerSeen'[c] = {keySource} /\ clocks'[c] = {clock}
      /\ UNCHANGED <<config, keySource, clock>>
  BY DEF PerCaller, Inner!VerifyToken, Inner!world
<1>2. PICK value \in {Inner!NewClaims, claims[c]} :
         /\ blank' = [blank EXCEPT ![c] = value = Inner!NewClaims]
         /\ \/ /\ Inner!RawTokenErrors(t) = {}
               /\ claims' = [claims EXCEPT ![c] = Inner!DecodeOver(value, t.claims)]
            \/ /\ Inner!RawTokenErrors(t) # {} \/ ~ t.wellFormed
               /\ claims' = [claims EXCEPT ![c] = value]
         /\ \/ /\ Inner!EarlyErrors(t) # {}
               /\ innerPc' = [innerPc EXCEPT ![c] = "rejected"]
               /\ innerErrors' = [innerErrors EXCEPT ![c] = Inner!EarlyErrors(t)]
            \/ /\ Inner!EarlyErrors(t) = {}
               /\ innerPc' = [innerPc EXCEPT ![c] = "resolving"]
               /\ innerErrors' = [innerErrors EXCEPT ![c] = {}]
  BY Zenon DEF Inner!VerifyToken, Inner!Reject
<1>3. \/ /\ Inner!EarlyErrors(t) # {} /\ innerPc'[c] = "rejected"
         /\ innerErrors'[c] = Inner!EarlyErrors(t)
      \/ /\ Inner!EarlyErrors(t) = {} /\ innerPc'[c] = "resolving"
         /\ innerErrors'[c] = {}
  BY <1>2 DEF PerCaller
<1>4. Inner!EarlyErrors(t) = {} => Inner!RawTokenErrors(t) = {} /\ t.wellFormed
  BY DEF Inner!EarlyErrors, Inner!ParseErrors, Inner!Classified
<1>5. Inner!EarlyErrors(t) = {} => claims'[c] = Inner!DecodeOver(value, t.claims)
  BY <1>2, <1>4 DEF PerCaller
<1>6. blank'[c] => value = Inner!NewClaims
  BY <1>2, Zenon DEF PerCaller
<1>7. t.claims \in Inner!ClaimSets
  BY DEF Inner!TokenType
<1>8. Inner!EarlyErrors(t) = {} =>
         /\ blank'[c] => claims'[c] = t.claims
         /\ t.claims.exp # Absent => claims'[c].exp = t.claims.exp
  BY <1>5, <1>6, <1>7, Decoded
<1>9. innerPc'[c] = "rejected" => InnerGrounds(c)'
  <2>1. Inner!EarlyErrors(inner[c])' = Inner!EarlyErrors(t)
    BY <1>1, SameInnerJudgements
  <2> QED
    BY <1>3, <2>1 DEF InnerGrounds
<1>10. clock \in Times
  BY DEF WorldInv
<1> QED
  BY <1>1, <1>3, <1>8, <1>9, <1>10 DEF InnerInv, Inner!InProgress

LEMMA InnerStepFrame ==
    ASSUME PerCaller, NEW c \in Callers, Inner!Step(c)
    PROVE  /\ innerPc[c] \in {"resolving", "verifying", "policy"}
           /\ UNCHANGED <<config, keySource, clock, inner, claims, blank,
                          innerSeen, clocks>>
<1>1. CASE Inner!ResolveKeyStep(c)
  BY <1>1 DEF Inner!ResolveKeyStep, Inner!ResolverFailure, Inner!UninitializedKey,
     Inner!UnexpectedAlgorithm, Inner!KeyResolved, Inner!Reject, Inner!world,
     Inner!history
<1>2. CASE Inner!SignatureInvalid(c) \/ Inner!ClaimsRejected(c) \/ Inner!ClaimsValid(c)
  BY <1>2 DEF Inner!SignatureInvalid, Inner!ClaimsRejected, Inner!ClaimsValid,
     Inner!Reject, Inner!world, Inner!history
<1>3. CASE Inner!UnexpectedType(c) \/ Inner!LifetimeRejected(c) \/ Inner!Accept(c)
  BY <1>3 DEF Inner!UnexpectedType, Inner!LifetimeRejected, Inner!Accept,
     Inner!Reject, Inner!world, Inner!history
<1> QED
  BY <1>1, <1>2, <1>3 DEF Inner!Step

LEMMA InnerInitialized == \A k : Inner!Initialized(k) <=> Initialized(k)
  BY DEF Inner!Initialized, Initialized

\* What a step of a call does: refuse the token, for a reason, or go on.
InnerRefused(c) ==
    /\ innerPc'[c] = "rejected" /\ innerErrors'[c] # {}
    /\ \/ ~ VerifiedBy(keySource, inner[c])
       \/ innerPc[c] = "verifying" /\ innerKey[c].material # inner[c].signer
       \/ Inner!ClaimsErrors(config, claims[c], clock) # {}
       \/ Inner!ValidateLifetime(config, claims[c], clock) # "none"
       \/ ~ Inner!TypeExpected(c)

InnerKeyTaken(c) ==
    LET answer == Inner!Answer(keySource, inner[c].header) IN
    /\ innerPc[c] = "resolving" /\ innerPc'[c] = "verifying"
    /\ answer.errors = {} /\ answer.key = innerKey'[c] /\ Initialized(innerKey'[c])
    /\ innerKey'[c].method = inner[c].header.alg
    /\ innerErrors' = innerErrors

InnerVerified(c) ==
    /\ innerPc[c] = "verifying" /\ innerPc'[c] = "policy"
    /\ innerKey[c].material = inner[c].signer
    /\ Inner!ClaimsErrors(config, claims[c], clock) = {}
    /\ innerErrors' = innerErrors

InnerAccepted(c) ==
    /\ innerPc[c] = "policy" /\ innerPc'[c] = "accepted"
    /\ innerErrors' = innerErrors

LEMMA InnerStepCases ==
    ASSUME PerCaller, NEW c \in Callers, Inner!Step(c)
    PROVE  InnerRefused(c) \/ InnerKeyTaken(c) \/ InnerVerified(c) \/ InnerAccepted(c)
<1> DEFINE reply == Inner!Answer(keySource, inner[c].header)
<1>1. Inner!Reply(c) = reply
  BY DEF Inner!Reply
<1>2. c \in DOMAIN innerPc /\ c \in DOMAIN innerErrors /\ c \in DOMAIN innerKey
  BY DEF PerCaller
<1>3. CASE Inner!ResolverFailure(c)
  <2>1. /\ innerPc'[c] = "rejected" /\ reply.errors # {}
        /\ innerErrors'[c] = Inner!Classified(reply.errors \cup {"jwt.Unverifiable"})
    BY <1>1, <1>2, <1>3 DEF Inner!ResolverFailure, Inner!Reject
  <2> QED
    BY <2>1, ClassifiedNonempty DEF InnerRefused, VerifiedBy
<1>4. CASE Inner!UninitializedKey(c)
  <2>1. /\ innerPc'[c] = "rejected" /\ ~ Inner!Initialized(reply.key)
        /\ innerErrors'[c] = Inner!Classified({"jwt.Unverifiable", "ErrInvalidKey"})
    BY <1>1, <1>2, <1>4 DEF Inner!UninitializedKey, Inner!Reject
  <2> QED
    BY <2>1, ClassifiedNonempty, InnerInitialized DEF InnerRefused, VerifiedBy
<1>5. CASE Inner!UnexpectedAlgorithm(c)
  <2>1. /\ innerPc'[c] = "rejected" /\ reply.key.method # inner[c].header.alg
        /\ innerErrors'[c] =
              Inner!Classified({"jwt.Unverifiable", "ErrUnexpectedAlgorithm"})
    BY <1>1, <1>2, <1>5 DEF Inner!UnexpectedAlgorithm, Inner!Reject
  <2> QED
    BY <2>1, ClassifiedNonempty DEF InnerRefused, VerifiedBy
<1>6. CASE Inner!KeyResolved(c)
  BY <1>1, <1>2, <1>6, InnerInitialized DEF Inner!KeyResolved, InnerKeyTaken
<1>7. CASE Inner!SignatureInvalid(c)
  <2>1. /\ innerPc[c] = "verifying" /\ innerKey[c].material # inner[c].signer
        /\ innerPc'[c] = "rejected"
        /\ innerErrors'[c] = Inner!Classified({"jwt.SignatureInvalid"})
    BY <1>2, <1>7 DEF Inner!SignatureInvalid, Inner!SignatureValid, Inner!Reject
  <2> QED
    BY <2>1, ClassifiedNonempty DEF InnerRefused
<1>8. CASE Inner!ClaimsRejected(c)
  <2>1. /\ Inner!ClaimsErrors(config, claims[c], clock) # {}
        /\ innerPc'[c] = "rejected"
        /\ innerErrors'[c] = Inner!Classified(Inner!ClaimsErrors(config, claims[c], clock))
    BY <1>2, <1>8 DEF Inner!ClaimsRejected, Inner!Reject
  <2> QED
    BY <2>1, ClassifiedNonempty DEF InnerRefused
<1>9. CASE Inner!ClaimsValid(c)
  BY <1>2, <1>9 DEF Inner!ClaimsValid, Inner!SignatureValid, InnerVerified
<1>10. CASE Inner!UnexpectedType(c) \/ Inner!LifetimeRejected(c)
  BY <1>2, <1>10 DEF Inner!UnexpectedType, Inner!LifetimeRejected, Inner!Reject,
     InnerRefused
<1>11. CASE Inner!Accept(c)
  BY <1>2, <1>11 DEF Inner!Accept, InnerAccepted
<1> QED
  BY <1>3, <1>4, <1>5, <1>6, <1>7, <1>8, <1>9, <1>10, <1>11
     DEF Inner!Step, Inner!ResolveKeyStep

LEMMA InnerStepOutcome ==
    ASSUME PerCaller, NEW c \in Callers, InnerInv(c), Inner!Step(c)
    PROVE  /\ innerPc'[c] \in {"verifying", "policy", "accepted", "rejected"}
           /\ InnerInv(c)'
<1>1. /\ innerPc[c] \in {"resolving", "verifying", "policy"}
      /\ UNCHANGED <<config, keySource, clock, inner, claims, blank, innerSeen, clocks>>
  BY InnerStepFrame
<1>2. /\ keySource \in innerSeen[c] /\ clock \in clocks[c] /\ clocks[c] \subseteq Times
      /\ innerErrors[c] = {}
      /\ blank[c] => claims[c] = inner[c].claims
      /\ inner[c].claims.exp # Absent => claims[c].exp = inner[c].claims.exp
  BY <1>1 DEF InnerInv, Inner!InProgress
<1>3. ASSUME innerPc[c] = "verifying"
      PROVE  \E r \in innerSeen[c] :
                VerifiedBy(r, inner[c]) <=> innerKey[c].material = inner[c].signer
  <2>1. PICK r \in innerSeen[c] :
           LET answer == Inner!Answer(r, inner[c].header) IN
           /\ answer.errors = {} /\ answer.key = innerKey[c]
           /\ Initialized(innerKey[c]) /\ innerKey[c].method = inner[c].header.alg
    BY <1>3 DEF InnerInv
  <2>2. VerifiedBy(r, inner[c]) <=> innerKey[c].material = inner[c].signer
    BY <2>1 DEF VerifiedBy
  <2> QED
    BY <2>2
<1>4. Inner!TypeExpected(c)' <=> Inner!TypeExpected(c)
  BY <1>1 DEF Inner!TypeExpected
<1>5. CASE InnerRefused(c)
  <2>1. InnerGrounds(c)'
    BY <1>1, <1>2, <1>3, <1>4, <1>5 DEF InnerRefused, InnerGrounds
  <2> QED
    BY <1>1, <1>2, <1>5, <2>1 DEF InnerInv, InnerRefused, Inner!InProgress
<1>6. CASE InnerKeyTaken(c)
  <2>1. \E r \in innerSeen'[c] :
           LET answer == Inner!Answer(r, inner'[c].header) IN
           /\ answer.errors = {} /\ answer.key = innerKey'[c]
           /\ Initialized(innerKey'[c]) /\ innerKey'[c].method = inner'[c].header.alg
    BY <1>1, <1>2, <1>6 DEF InnerKeyTaken
  <2> QED
    BY <1>1, <1>2, <1>6, <2>1 DEF InnerInv, InnerKeyTaken, Inner!InProgress
<1>7. CASE InnerVerified(c)
  <2>1. \E r \in innerSeen'[c] : VerifiedBy(r, inner'[c])
    BY <1>1, <1>3, <1>7 DEF InnerVerified
  <2>2. \E now \in clocks'[c] : Inner!ClaimsErrors(config', claims'[c], now) = {}
    BY <1>1, <1>2, <1>7 DEF InnerVerified
  <2> QED
    BY <1>1, <1>2, <1>7, <2>1, <2>2 DEF InnerInv, InnerVerified, Inner!InProgress
<1>8. CASE InnerAccepted(c)
  <2>1. /\ \E r \in innerSeen'[c] : VerifiedBy(r, inner'[c])
        /\ \E now \in clocks'[c] : Inner!ClaimsErrors(config', claims'[c], now) = {}
    BY <1>1, <1>8 DEF InnerInv, InnerAccepted
  <2> QED
    BY <1>1, <1>2, <1>8, <2>1 DEF InnerInv, InnerAccepted, Inner!InProgress
<1> QED
  BY <1>5, <1>6, <1>7, <1>8, InnerStepCases
     DEF InnerRefused, InnerKeyTaken, InnerVerified, InnerAccepted

\* Claims that passed the validator had not expired when the clock was read.
LEMMA NotExpired ==
    ASSUME WorldInv, NEW cs, NEW now \in Times, cs.exp \in Inner!TimeClaims \ {Absent},
           Inner!ClaimsErrors(config, cs, now) = {}
    PROVE  now < cs.exp + config.leeway
<1>1. Inner!ValidatorErrors(config, cs, now) = {}
  BY DEF Inner!ClaimsErrors
<1>2. ~ Inner!Expired(config, cs, now) /\ ~ Inner!ClaimsInvalid(config, cs)
  BY <1>1 DEF Inner!ValidatorErrors
<1>3. cs.exp \in Int
  BY <1>2 DEF Inner!ClaimsInvalid, Inner!TimeClaims
<1>4. now \in Int /\ config.leeway \in Nat
  BY LayersAssumption DEF WorldInv, Inner!Configs
<1> QED
  BY <1>2, <1>3, <1>4 DEF Inner!Expired

-----------------------------------------------------------------------------
(* The steps of the nested calls.                                          *)

\* What a call has of its own.
SameStage(c) == /\ stage'[c] = stage[c] /\ verdict'[c] = verdict[c]
                /\ returned'[c] = returned[c]
SameOuter(c) == /\ outerPc'[c] = outerPc[c] /\ outer'[c] = outer[c]
                /\ outerKey'[c] = outerKey[c] /\ index'[c] = index[c]
                /\ outerErrors'[c] = outerErrors[c] /\ outerSeen'[c] = outerSeen[c]
SameInner(c) == /\ innerPc'[c] = innerPc[c] /\ inner'[c] = inner[c]
                /\ claims'[c] = claims[c] /\ innerKey'[c] = innerKey[c]
                /\ innerErrors'[c] = innerErrors[c] /\ blank'[c] = blank[c]
                /\ innerSeen'[c] = innerSeen[c] /\ clocks'[c] = clocks[c]

Environment == <<decrypter, registry, config, keySource, clock>>

LEMMA InnerIdle ==
    ASSUME NEW c, InnerInv(c), SameInner(c), UNCHANGED Environment
    PROVE  InnerInv(c)'
<1>1. /\ clocks[c] \subseteq Times
      /\ Inner!InProgress(c) => keySource \in innerSeen[c] /\ clock \in clocks[c]
  BY DEF InnerInv
<1> QED
  BY <1>1, InnerKept DEF SameInner, Environment

LEMMA OuterIdle ==
    ASSUME NEW c, OuterInv(c), SameOuter(c), UNCHANGED Environment
    PROVE  OuterInv(c)'
<1>1. outerPc[c] \in {"resolving", "decrypting"} => registry \in outerSeen[c]
  BY DEF OuterInv
<1> QED
  BY <1>1, OuterKept DEF SameOuter, Environment

LEMMA StageIdle ==
    ASSUME NEW c, StageInv(c), SameStage(c),
           /\ outerPc'[c] = outerPc[c] /\ outer'[c] = outer[c]
           /\ index'[c] = index[c] /\ outerErrors'[c] = outerErrors[c],
           /\ innerPc'[c] = innerPc[c] /\ inner'[c] = inner[c]
           /\ innerErrors'[c] = innerErrors[c]
    PROVE  StageInv(c)'
<1>1. ContentType(c)' = ContentType(c)
  BY DEF ContentType
<1>2. Opened(c)' <=> Opened(c)
  BY <1>1 DEF Opened
<1>3. VerdictInv(c)' <=> VerdictInv(c)
  BY <1>1, <1>2 DEF VerdictInv, SameStage
<1>4. ReturnedInv(c)' <=> ReturnedInv(c)
  BY DEF ReturnedInv, Headers, SameStage
<1> QED
  BY <1>2, <1>3, <1>4 DEF StageInv, SameStage

LEMMA CallIdle ==
    ASSUME NEW c, CallInv(c), SameStage(c), SameOuter(c), SameInner(c),
           UNCHANGED Environment
    PROVE  CallInv(c)'
<1>1. OuterInv(c)' /\ InnerInv(c)'
  BY OuterIdle, InnerIdle DEF CallInv
<1>2. StageInv(c)'
  BY StageIdle DEF CallInv, SameOuter, SameInner
<1> QED
  BY <1>1, <1>2 DEF CallInv

\* A step of one call is none of another's.
LEMMA OthersIdle ==
    ASSUME IInv, NEW c \in Callers, CallInv(c)', PerCaller', WorldInv',
           UNCHANGED Environment,
           \A d \in Callers \ {c} : SameStage(d) /\ SameOuter(d) /\ SameInner(d)
    PROVE  IInv'
<1>1. ASSUME NEW d \in Callers \ {c}
      PROVE  CallInv(d)'
  <2>1. CallInv(d) /\ SameStage(d) /\ SameOuter(d) /\ SameInner(d)
    BY DEF IInv
  <2> QED
    BY <2>1, CallIdle
<1> QED
  BY <1>1 DEF IInv

LEMMA WorldIdle ==
    ASSUME WorldInv, UNCHANGED <<issuer, wire, decrypter, config>>, clock' \in Times
    PROVE  WorldInv'
<1>1. \A t : Issued(t)' <=> Issued(t)
  BY DEF Issued
<1>2. \A v \in wire : /\ DOMAIN v = {"outer", "origin"} /\ Shape(v.outer)
                      /\ v.origin = "issuer" => Issued(v.outer)'
  BY <1>1 DEF WorldInv
<1>3. /\ \E k \in SigningKeys, s \in SignerOptions, o \in OuterOptions :
            /\ ValidSigner(k, s)
            /\ Sealer!ValidEncrypter(FALSE, Encryption, <<Recipient>>, o, Memory)
            /\ issuer = [signer |-> NewSigner(k, s), encrypter |-> Encrypter(o)]
      /\ ValidNestedIssuer(issuer.encrypter)
      /\ decrypter \in Decrypters /\ ValidNestedVerifier(decrypter)
      /\ config \in Configurations
  BY Zenon DEF WorldInv
<1> QED
  BY <1>2, <1>3 DEF WorldInv

\* Steps that leave every call alone.
LEMMA CallsIdle ==
    ASSUME IInv, WorldInv', UNCHANGED <<stage, verdict, returned, outerVars, innerVars>>
    PROVE  IInv'
<1>1. UNCHANGED Environment
  BY DEF Environment, outerVars, innerVars
<1>2. \A c : SameStage(c) /\ SameOuter(c) /\ SameInner(c)
  BY DEF SameStage, SameOuter, SameInner, outerVars, innerVars
<1>3. \A c \in Callers : CallInv(c)'
  BY <1>1, <1>2, CallIdle DEF IInv
<1>4. PerCaller'
  BY DEF IInv, PerCaller, outerVars, innerVars
<1> QED
  BY <1>3, <1>4 DEF IInv

LEMMA VerifyTokenStep ==
    ASSUME IInv, NEW c \in Callers, NEW v \in wire, VerifyToken(c, v)
    PROVE  IInv'
<1>0. WorldInv /\ PerCaller /\ CallInv(c)
  BY DEF IInv
<1>1. /\ stage[c] \in {"idle", "done"} /\ Outer!DecryptToken(c, v.outer)
      /\ stage' = [stage EXCEPT ![c] = "outer"]
      /\ verdict' = [verdict EXCEPT ![c] = {}]
      /\ returned' = [returned EXCEPT ![c] = {}]
      /\ UNCHANGED <<issuer, wire, innerVars>>
  BY DEF VerifyToken
<1>2. /\ UNCHANGED <<decrypter, registry>>
      /\ outer' = [outer EXCEPT ![c] = v.outer]
      /\ outerKey' = [outerKey EXCEPT ![c] = NilKey]
      /\ index' = [index EXCEPT ![c] = 0]
      /\ outerSeen' = [outerSeen EXCEPT ![c] = {registry}]
      /\ \E next : outerPc' = [outerPc EXCEPT ![c] = next]
      /\ \E es : outerErrors' = [outerErrors EXCEPT ![c] = es]
  BY <1>1 DEF Outer!DecryptToken, Outer!Reject
<1>3. UNCHANGED Environment /\ \A d : SameInner(d)
  BY <1>1, <1>2 DEF Environment, SameInner, innerVars
<1>4. Shape(v.outer)
  BY <1>0 DEF WorldInv
<1>5. outerPc'[c] \in {"resolving", "rejected"} /\ OuterInv(c)'
  BY <1>0, <1>1, <1>4, DecryptTokenOutcome
<1>6. InnerInv(c)'
  BY <1>0, <1>3, InnerIdle DEF CallInv
<1>7. StageInv(c)'
  BY <1>0, <1>1, <1>3, <1>5 DEF StageInv, ReturnedInv, CallInv, PerCaller, SameInner
<1>8. WorldInv'
  BY <1>0, <1>1, <1>2, <1>3, WorldIdle DEF Environment, WorldInv
<1>9. PerCaller'
  BY <1>0, <1>1, <1>2 DEF PerCaller, innerVars
<1>10. \A d \in Callers \ {c} : SameStage(d) /\ SameOuter(d)
  BY <1>0, <1>1, <1>2 DEF PerCaller, SameStage, SameOuter
<1> QED
  BY <1>3, <1>5, <1>6, <1>7, <1>8, <1>9, <1>10, OthersIdle DEF CallInv

LEMMA DecryptStep ==
    ASSUME IInv, NEW c \in Callers, Decrypt(c)
    PROVE  IInv'
<1>0. WorldInv /\ PerCaller /\ CallInv(c)
  BY DEF IInv
<1>1. stage[c] = "outer" /\ Outer!Step(c) /\ UNCHANGED <<nestedVars, innerVars>>
  BY DEF Decrypt
<1>2. UNCHANGED <<decrypter, registry, outer, outerSeen>>
  BY <1>0, <1>1, OuterStepFrame
<1>3. /\ \E next : outerPc' = [outerPc EXCEPT ![c] = next]
      /\ outerKey' = outerKey \/ \E k : outerKey' = [outerKey EXCEPT ![c] = k]
      /\ index' = index \/ \E i : index' = [index EXCEPT ![c] = i]
      /\ outerErrors' = outerErrors \/ \E es : outerErrors' = [outerErrors EXCEPT ![c] = es]
  <2>1. CASE Outer!ResolverFailure(c) \/ Outer!KeyResolved(c)
    BY <2>1 DEF Outer!ResolverFailure, Outer!KeyResolved, Outer!Reject
  <2>2. CASE Outer!DecryptFails(c) \/ Outer!RejectDecrypted(c) \/ Outer!Return(c)
    BY <2>2 DEF Outer!DecryptFails, Outer!RejectDecrypted, Outer!Return, Outer!Reject
  <2> QED
    BY <1>1, <2>1, <2>2 DEF Outer!Step
<1>4. UNCHANGED Environment /\ \A d : SameInner(d) /\ SameStage(d)
  BY <1>1, <1>2 DEF Environment, SameInner, SameStage, innerVars, nestedVars
<1>5. outerPc'[c] \in {"decrypting", "decrypted", "rejected"} /\ OuterInv(c)'
  BY <1>0, <1>1, OuterStepOutcome DEF CallInv
<1>6. InnerInv(c)'
  BY <1>0, <1>4, InnerIdle DEF CallInv
<1>7. StageInv(c)'
  BY <1>0, <1>1, <1>4, <1>5 DEF StageInv, ReturnedInv, CallInv, SameInner, SameStage
<1>8. WorldInv'
  BY <1>0, <1>1, <1>4, WorldIdle DEF Environment, WorldInv, nestedVars
<1>9. PerCaller'
  BY <1>0, <1>1, <1>2, <1>3 DEF PerCaller, innerVars, nestedVars
<1>10. \A d \in Callers \ {c} : SameOuter(d)
  BY <1>0, <1>2, <1>3 DEF PerCaller, SameOuter
<1> QED
  BY <1>4, <1>5, <1>6, <1>7, <1>8, <1>9, <1>10, OthersIdle DEF CallInv

\* The handover between the layers and the returns.
LEMMA RefuseOuterStep ==
    ASSUME IInv, NEW c \in Callers, RefuseOuter(c)
    PROVE  IInv'
<1>0. WorldInv /\ PerCaller /\ CallInv(c)
  BY DEF IInv
<1>1. /\ stage[c] = "outer" /\ stage' = [stage EXCEPT ![c] = "done"]
      /\ UNCHANGED <<issuer, wire, returned, outerVars, innerVars>>
      /\ \/ /\ outerPc[c] = "rejected"
            /\ verdict' = [verdict EXCEPT ![c] = outerErrors[c]]
         \/ /\ outerPc[c] = "decrypted" /\ ContentType(c) # JWT
            /\ verdict' = [verdict EXCEPT ![c] = {"ErrUnexpectedContentType"}]
  BY DEF RefuseOuter
<1>2. UNCHANGED Environment /\ \A d : SameOuter(d) /\ SameInner(d)
  BY <1>1 DEF Environment, SameOuter, SameInner, outerVars, innerVars
<1>3. OuterInv(c)' /\ InnerInv(c)'
  BY <1>0, <1>2, OuterIdle, InnerIdle DEF CallInv
<1>4. ContentType(c)' = ContentType(c)
  BY <1>2 DEF ContentType, SameOuter
<1>5. VerdictInv(c)'
  <2>1. /\ outerPc'[c] = outerPc[c] /\ outerErrors'[c] = outerErrors[c]
        /\ ContentType(c)' = ContentType(c)
    BY <1>2, <1>4 DEF SameOuter
  <2>2. CASE outerPc[c] = "rejected" /\ verdict' = [verdict EXCEPT ![c] = outerErrors[c]]
    BY <1>0, <2>1, <2>2 DEF VerdictInv, PerCaller
  <2>3. CASE /\ outerPc[c] = "decrypted" /\ ContentType(c) # JWT
             /\ verdict' = [verdict EXCEPT ![c] = {"ErrUnexpectedContentType"}]
    BY <1>0, <2>1, <2>3 DEF VerdictInv, PerCaller
  <2> QED
    BY <1>1, <2>2, <2>3
<1>6. StageInv(c)'
  <2>1. stage'[c] = "done" /\ outerPc'[c] = outerPc[c] /\ innerPc'[c] = innerPc[c]
    BY <1>0, <1>1, <1>2 DEF PerCaller, SameOuter, SameInner
  <2>2. returned'[c] = {}
    BY <1>0, <1>1 DEF CallInv, StageInv, ReturnedInv
  <2> QED
    BY <1>0, <1>1, <1>5, <2>1, <2>2 DEF StageInv, ReturnedInv, CallInv
<1>7. WorldInv'
  BY <1>0, <1>1, <1>2, WorldIdle DEF Environment, WorldInv
<1>8. PerCaller'
  BY <1>0, <1>1 DEF PerCaller, outerVars, innerVars
<1>9. \A d \in Callers \ {c} : SameStage(d)
  BY <1>0, <1>1 DEF PerCaller, SameStage
<1> QED
  BY <1>2, <1>3, <1>6, <1>7, <1>8, <1>9, OthersIdle DEF CallInv

LEMMA OpenInnerStep ==
    ASSUME IInv, NEW c \in Callers, OpenInner(c)
    PROVE  IInv'
<1>0. WorldInv /\ PerCaller /\ CallInv(c)
  BY DEF IInv
<1>1. /\ stage[c] = "outer" /\ stage' = [stage EXCEPT ![c] = "inner"]
      /\ outerPc[c] = "decrypted" /\ ContentType(c) = JWT
      /\ Inner!VerifyToken(c, outer[c].content)
      /\ UNCHANGED <<issuer, wire, verdict, returned, outerVars>>
  BY DEF OpenInner
<1>2. /\ UNCHANGED <<config, keySource, clock, innerKey>>
      /\ inner' = [inner EXCEPT ![c] = outer[c].content]
      /\ innerSeen' = [innerSeen EXCEPT ![c] = {keySource}]
      /\ clocks' = [clocks EXCEPT ![c] = {clock}]
  BY <1>1 DEF Inner!VerifyToken, Inner!world
<1>3. /\ \E next : innerPc' = [innerPc EXCEPT ![c] = next]
      /\ \E es : innerErrors' = [innerErrors EXCEPT ![c] = es]
      /\ \E new : blank' = [blank EXCEPT ![c] = new]
      /\ \E new : claims' = [claims EXCEPT ![c] = new]
  <2>1. \E value \in {Inner!NewClaims, claims[c]} :
           /\ blank' = [blank EXCEPT ![c] = value = Inner!NewClaims]
           /\ \/ claims' = [claims EXCEPT ![c] =
                               Inner!DecodeOver(value, outer[c].content.claims)]
              \/ claims' = [claims EXCEPT ![c] = value]
           /\ \/ /\ innerPc' = [innerPc EXCEPT ![c] = "rejected"]
                 /\ innerErrors' = [innerErrors EXCEPT ![c] =
                                       Inner!EarlyErrors(outer[c].content)]
              \/ /\ innerPc' = [innerPc EXCEPT ![c] = "resolving"]
                 /\ innerErrors' = [innerErrors EXCEPT ![c] = {}]
    BY <1>1, Zenon DEF Inner!VerifyToken, Inner!Reject
  <2> QED
    BY <2>1, Zenon
<1>4. UNCHANGED Environment /\ \A d : SameOuter(d)
  BY <1>1, <1>2 DEF Environment, SameOuter, outerVars
<1>5. outer[c].content \in Inner!TokenType
  BY <1>0, <1>1 DEF CallInv, OuterInv, Shape
<1>6. /\ innerPc'[c] \in {"resolving", "rejected"} /\ inner'[c] = outer[c].content
      /\ InnerInv(c)'
  BY <1>0, <1>1, <1>5, VerifyTokenOutcome
<1>7. OuterInv(c)'
  BY <1>0, <1>4, OuterIdle DEF CallInv
<1>8. Opened(c)'
  <2>1. ContentType(c)' = ContentType(c)
    BY <1>4 DEF ContentType, SameOuter
  <2> QED
    BY <1>1, <1>4, <1>6, <2>1 DEF Opened, SameOuter
<1>9. StageInv(c)'
  <2>1. stage'[c] = "inner" /\ outerPc'[c] = "decrypted"
    BY <1>0, <1>1, <1>4 DEF PerCaller, SameOuter
  <2>2. returned'[c] = {}
    BY <1>0, <1>1 DEF CallInv, StageInv, ReturnedInv
  <2> QED
    BY <1>6, <1>8, <2>1, <2>2 DEF StageInv, ReturnedInv
<1>10. WorldInv'
  BY <1>0, <1>1, <1>4, WorldIdle DEF Environment, WorldInv
<1>11. PerCaller'
  BY <1>0, <1>1, <1>2, <1>3 DEF PerCaller, outerVars
<1>12. \A d \in Callers \ {c} : SameStage(d)
  BY <1>0, <1>1 DEF PerCaller, SameStage
<1>13. \A d \in Callers \ {c} : SameInner(d)
  BY <1>0, <1>2, <1>3 DEF PerCaller, SameInner
<1> QED
  BY <1>4, <1>6, <1>7, <1>9, <1>10, <1>11, <1>12, <1>13, OthersIdle DEF CallInv

LEMMA VerifyInnerStep ==
    ASSUME IInv, NEW c \in Callers, VerifyInner(c)
    PROVE  IInv'
<1>0. WorldInv /\ PerCaller /\ CallInv(c)
  BY DEF IInv
<1>1. stage[c] = "inner" /\ Inner!Step(c) /\ UNCHANGED <<nestedVars, outerVars>>
  BY DEF VerifyInner
<1>2. UNCHANGED <<config, keySource, clock, inner, claims, blank, innerSeen, clocks>>
  BY <1>0, <1>1, InnerStepFrame
<1>3. /\ \E next : innerPc' = [innerPc EXCEPT ![c] = next]
      /\ innerKey' = innerKey \/ \E k : innerKey' = [innerKey EXCEPT ![c] = k]
      /\ innerErrors' = innerErrors \/ \E es : innerErrors' = [innerErrors EXCEPT ![c] = es]
  <2>1. CASE Inner!ResolveKeyStep(c)
    BY <2>1 DEF Inner!ResolveKeyStep, Inner!ResolverFailure, Inner!UninitializedKey,
       Inner!UnexpectedAlgorithm, Inner!KeyResolved, Inner!Reject
  <2>2. CASE Inner!SignatureInvalid(c) \/ Inner!ClaimsRejected(c) \/ Inner!ClaimsValid(c)
    BY <2>2 DEF Inner!SignatureInvalid, Inner!ClaimsRejected, Inner!ClaimsValid,
       Inner!Reject
  <2>3. CASE Inner!UnexpectedType(c) \/ Inner!LifetimeRejected(c) \/ Inner!Accept(c)
    BY <2>3 DEF Inner!UnexpectedType, Inner!LifetimeRejected, Inner!Accept,
       Inner!Reject
  <2> QED
    BY <1>1, <2>1, <2>2, <2>3 DEF Inner!Step
<1>4. UNCHANGED Environment /\ \A d : SameOuter(d) /\ SameStage(d)
  BY <1>1, <1>2 DEF Environment, SameOuter, SameStage, outerVars, nestedVars
<1>5. /\ innerPc'[c] \in {"verifying", "policy", "accepted", "rejected"}
      /\ InnerInv(c)'
  BY <1>0, <1>1, InnerStepOutcome DEF CallInv
<1>6. OuterInv(c)'
  BY <1>0, <1>4, OuterIdle DEF CallInv
<1>7. Opened(c) /\ Opened(c)'
  <2>1. ContentType(c)' = ContentType(c)
    BY <1>4 DEF ContentType, SameOuter
  <2>2. Opened(c)
    BY <1>0, <1>1 DEF CallInv, StageInv
  <2> QED
    BY <1>2, <1>4, <2>1, <2>2 DEF Opened, SameOuter
<1>8. StageInv(c)'
  <2>1. stage'[c] = "inner" /\ outerPc'[c] = "decrypted"
    BY <1>1, <1>4, <1>7 DEF SameStage, Opened
  <2>2. returned'[c] = {}
    BY <1>0, <1>1, <1>4 DEF CallInv, StageInv, ReturnedInv, SameStage
  <2> QED
    BY <1>5, <1>7, <2>1, <2>2 DEF StageInv, ReturnedInv
<1>9. WorldInv'
  BY <1>0, <1>1, <1>4, WorldIdle DEF Environment, WorldInv, nestedVars
<1>10. PerCaller'
  BY <1>0, <1>1, <1>2, <1>3 DEF PerCaller, outerVars, nestedVars
<1>11. \A d \in Callers \ {c} : SameInner(d)
  BY <1>0, <1>2, <1>3 DEF PerCaller, SameInner
<1> QED
  BY <1>4, <1>5, <1>6, <1>8, <1>9, <1>10, <1>11, OthersIdle DEF CallInv

LEMMA ReturnStep ==
    ASSUME IInv, NEW c \in Callers, Return(c)
    PROVE  IInv'
<1>0. WorldInv /\ PerCaller /\ CallInv(c)
  BY DEF IInv
<1>1. /\ stage[c] = "inner" /\ stage' = [stage EXCEPT ![c] = "done"]
      /\ innerPc[c] \in {"accepted", "rejected"}
      /\ verdict' = [verdict EXCEPT ![c] = innerErrors[c]]
      /\ returned' = [returned EXCEPT ![c] =
                        IF innerErrors[c] = {} THEN {Headers(c)} ELSE {}]
      /\ UNCHANGED <<issuer, wire, outerVars, innerVars>>
  BY DEF Return
<1>2. UNCHANGED Environment /\ \A d : SameOuter(d) /\ SameInner(d)
  BY <1>1 DEF Environment, SameOuter, SameInner, outerVars, innerVars
<1>3. OuterInv(c)' /\ InnerInv(c)'
  BY <1>0, <1>2, OuterIdle, InnerIdle DEF CallInv
<1>4. Opened(c)'
  <2>1. ContentType(c)' = ContentType(c)
    BY <1>2 DEF ContentType, SameOuter
  <2> QED
    BY <1>0, <1>1, <1>2, <2>1 DEF CallInv, StageInv, Opened, SameOuter, SameInner
<1>5. StageInv(c)'
  <2>1. stage'[c] = "done" /\ verdict'[c] = innerErrors'[c]
    BY <1>0, <1>1, <1>2 DEF PerCaller, SameInner
  <2>2. innerPc'[c] \in {"accepted", "rejected"} /\ outerPc'[c] = "decrypted"
    BY <1>1, <1>2, <1>4 DEF SameInner, Opened
  <2>3. VerdictInv(c)'
    BY <1>4, <2>1, <2>2 DEF VerdictInv
  <2>4. Headers(c)' = Headers(c)
    BY <1>2 DEF Headers, SameOuter, SameInner
  <2>5. /\ returned'[c] = IF innerErrors[c] = {} THEN {Headers(c)} ELSE {}
        /\ verdict'[c] = innerErrors[c]
    BY <1>0, <1>1 DEF PerCaller
  <2>6. ReturnedInv(c)'
    BY <2>1, <2>4, <2>5 DEF ReturnedInv
  <2> QED
    BY <2>1, <2>2, <2>3, <2>6 DEF StageInv
<1>6. WorldInv'
  BY <1>0, <1>1, <1>2, WorldIdle DEF Environment, WorldInv
<1>7. PerCaller'
  BY <1>0, <1>1 DEF PerCaller, outerVars, innerVars
<1>8. \A d \in Callers \ {c} : SameStage(d)
  BY <1>0, <1>1 DEF PerCaller, SameStage
<1> QED
  BY <1>2, <1>3, <1>5, <1>6, <1>7, <1>8, OthersIdle DEF CallInv

-----------------------------------------------------------------------------
(* The steps of the issuer, of strangers and of the environment.           *)

LEMMA WireStep ==
    ASSUME IInv, NEW old \in SUBSET wire, NEW v, wire' = old \cup {v},
           UNCHANGED <<issuer, stage, verdict, returned, outerVars, innerVars>>,
           DOMAIN v = {"outer", "origin"}, Shape(v.outer),
           v.origin = "issuer" => Issued(v.outer)
    PROVE  IInv'
<1>1. \A t : Issued(t)' <=> Issued(t)
  BY DEF Issued
<1>2. \A w \in wire' : /\ DOMAIN w = {"outer", "origin"} /\ Shape(w.outer)
                       /\ w.origin = "issuer" => Issued(w.outer)'
  BY <1>1 DEF IInv, WorldInv
<1>3. /\ \E k \in SigningKeys, s \in SignerOptions, o \in OuterOptions :
            /\ ValidSigner(k, s)
            /\ Sealer!ValidEncrypter(FALSE, Encryption, <<Recipient>>, o, Memory)
            /\ issuer = [signer |-> NewSigner(k, s), encrypter |-> Encrypter(o)]
      /\ ValidNestedIssuer(issuer.encrypter)
      /\ decrypter \in Decrypters /\ ValidNestedVerifier(decrypter)
      /\ config \in Configurations /\ clock \in Times
  BY Zenon DEF IInv, WorldInv
<1>4. UNCHANGED <<issuer, decrypter, config, clock>>
  BY DEF outerVars, innerVars
<1>5. WorldInv'
  BY <1>2, <1>3, <1>4 DEF WorldInv
<1> QED
  BY <1>5, CallsIdle

LEMMA IssueStep ==
    ASSUME IInv, Issue
    PROVE  IInv'
<1>1. PICK cs \in ClaimsPool :
         LET t == Signed(issuer.signer, cs, TokenSize) IN
         /\ Sealer!EncryptErrors(issuer.encrypter, Plaintext(t), NoAuthData, Memory) = {}
         /\ wire' = wire \cup {[outer |-> Sealed(issuer.encrypter, t), origin |-> "issuer"]}
  BY DEF Issue
<1>2. UNCHANGED <<issuer, stage, verdict, returned, outerVars, innerVars>>
  BY DEF Issue
<1> DEFINE t == Signed(issuer.signer, cs, TokenSize)
           v == [outer |-> Sealed(issuer.encrypter, t), origin |-> "issuer"]
<1>3. PICK k \in SigningKeys, s \in SignerOptions, o \in OuterOptions :
         /\ ValidSigner(k, s)
         /\ issuer = [signer |-> NewSigner(k, s), encrypter |-> Encrypter(o)]
  BY Zenon DEF IInv, WorldInv
<1>4. issuer.signer = NewSigner(k, s) /\ issuer.encrypter = Encrypter(o)
  BY <1>3
<1>5. t \in Inner!TokenType
  BY <1>3, <1>4, SignedType
<1>6. Shape(Sealed(issuer.encrypter, t))
  BY <1>4, <1>5, SealedShape
<1>7. Issued(Sealed(issuer.encrypter, t))
  BY <1>1 DEF Issued
<1> HIDE DEF t
<1>8. DOMAIN v = {"outer", "origin"} /\ v.outer = Sealed(issuer.encrypter, t)
  OBVIOUS
<1>9. wire' = wire \cup {v}
  BY <1>1 DEF t
<1> HIDE DEF v
<1> QED
  BY <1>2, <1>6, <1>7, <1>8, <1>9, WireStep

LEMMA ForwardStep ==
    ASSUME IInv, Forward
    PROVE  IInv'
<1>1. PICK o \in OuterOptions, t \in StrangeContents \cup {v.outer.content : v \in wire} :
         wire' = wire \cup {[outer |-> Sealed(Encrypter(o), t), origin |-> "stranger"]}
  BY DEF Forward
<1>2. UNCHANGED <<issuer, stage, verdict, returned, outerVars, innerVars>>
  BY DEF Forward
<1>3. t \in Inner!TokenType
  BY NestedAssumption DEF IInv, WorldInv, Shape
<1>4. Shape(Sealed(Encrypter(o), t))
  BY <1>3, SealedShape
<1> DEFINE v == [outer |-> Sealed(Encrypter(o), t), origin |-> "stranger"]
<1>5. /\ DOMAIN v = {"outer", "origin"} /\ v.outer = Sealed(Encrypter(o), t)
      /\ v.origin # "issuer"
  OBVIOUS
<1>6. wire' = wire \cup {v}
  BY <1>1
<1> HIDE DEF v
<1> QED
  BY <1>2, <1>4, <1>5, <1>6, WireStep

LEMMA AlterStep ==
    ASSUME IInv, NEW v \in wire, Alter(v)
    PROVE  IInv'
<1> DEFINE w == [v EXCEPT !.outer.intact = FALSE, !.origin = "altered"]
<1>1. wire' = (wire \ {v}) \cup {w}
      /\ UNCHANGED <<issuer, stage, verdict, returned, outerVars, innerVars>>
  BY DEF Alter
<1>2. DOMAIN v = {"outer", "origin"} /\ Shape(v.outer)
  BY DEF IInv, WorldInv
<1>3. /\ DOMAIN w = {"outer", "origin"} /\ w.origin = "altered"
      /\ w.outer = [v.outer EXCEPT !.intact = FALSE]
  BY <1>2
<1>4. Shape(w.outer)
  <2>1. PICK t : t = v.outer
    OBVIOUS
  <2>2. w.outer = [t EXCEPT !.intact = FALSE] /\ Shape(t)
    BY <1>2, <1>3, <2>1
  <2>3. /\ DOMAIN w.outer = DOMAIN t /\ w.outer.plaintext = t.plaintext
        /\ w.outer.unprotected = t.unprotected
        /\ w.outer.recipients = t.recipients /\ w.outer.content = t.content
    BY <2>2 DEF Shape
  <2> HIDE DEF w
  <2> QED
    BY <2>2, <2>3 DEF Shape
<1> HIDE DEF w
<1>5. wire \ {v} \in SUBSET wire /\ w.origin # "issuer"
  BY <1>3
<1> QED
  BY <1>1, <1>3, <1>4, <1>5, WireStep

\* The keys are replaced while calls are under way.
LEMMA RotateDecryptionKeysStep ==
    ASSUME IInv, RotateDecryptionKeys
    PROVE  IInv'
<1>1. /\ outerSeen' = [c \in Callers |-> IF Outer!InProgress(c)
                                         THEN outerSeen[c] \cup {registry'}
                                         ELSE outerSeen[c]]
      /\ UNCHANGED <<decrypter, outerPc, outerCalls, outer, outerKey, index, outerErrors>>
      /\ UNCHANGED <<nestedVars, innerVars>>
  BY DEF RotateDecryptionKeys, Outer!ChangeRegistry
<1>2. ASSUME NEW c \in Callers
      PROVE  CallInv(c)'
  <2>1. OuterInv(c) /\ InnerInv(c) /\ StageInv(c)
    BY DEF IInv, CallInv
  <2>2. /\ outerSeen[c] \subseteq outerSeen'[c]
        /\ outerPc[c] \in {"resolving", "decrypting"} => registry' \in outerSeen'[c]
    BY <1>1 DEF Outer!InProgress
  <2>3. OuterInv(c)'
    BY <1>1, <2>1, <2>2, OuterKept
  <2>4. InnerInv(c)'
    <3>1. UNCHANGED <<config, keySource, clock>> /\ SameInner(c)
      BY <1>1 DEF SameInner, innerVars
    <3>2. /\ clocks[c] \subseteq Times
          /\ Inner!InProgress(c) => keySource \in innerSeen[c] /\ clock \in clocks[c]
      BY <2>1 DEF InnerInv
    <3> QED
      BY <2>1, <3>1, <3>2, InnerKept DEF SameInner
  <2>5. StageInv(c)'
    BY <1>1, <2>1, StageIdle DEF SameStage, nestedVars, innerVars
  <2> QED
    BY <2>3, <2>4, <2>5 DEF CallInv
<1>3. WorldInv'
  BY <1>1, WorldIdle DEF IInv, WorldInv, nestedVars, innerVars
<1>4. PerCaller'
  BY <1>1 DEF IInv, PerCaller, nestedVars, innerVars
<1> QED
  BY <1>2, <1>3, <1>4 DEF IInv

LEMMA RotateVerificationKeysStep ==
    ASSUME IInv, RotateVerificationKeys
    PROVE  IInv'
<1>1. /\ innerSeen' = [c \in Callers |-> IF Inner!InProgress(c)
                                         THEN innerSeen[c] \cup {keySource'}
                                         ELSE innerSeen[c]]
      /\ UNCHANGED <<config, clock, innerPc, innerCalls, inner, claims, innerKey,
                     innerErrors, blank, clocks>>
      /\ UNCHANGED <<nestedVars, outerVars>>
  BY DEF RotateVerificationKeys, Inner!ChangeRegistry
<1>2. ASSUME NEW c \in Callers
      PROVE  CallInv(c)'
  <2>1. OuterInv(c) /\ InnerInv(c) /\ StageInv(c)
    BY DEF IInv, CallInv
  <2>2. /\ innerSeen[c] \subseteq innerSeen'[c] /\ clocks'[c] \subseteq Times
        /\ Inner!InProgress(c) => keySource' \in innerSeen'[c] /\ clock' \in clocks'[c]
    BY <1>1, <2>1 DEF InnerInv
  <2>3. InnerInv(c)'
    BY <1>1, <2>1, <2>2, InnerKept
  <2>4. OuterInv(c)'
    <3>1. UNCHANGED <<decrypter, registry>> /\ SameOuter(c)
      BY <1>1 DEF SameOuter, outerVars
    <3>2. outerPc[c] \in {"resolving", "decrypting"} => registry \in outerSeen[c]
      BY <2>1 DEF OuterInv
    <3> QED
      BY <2>1, <3>1, <3>2, OuterKept DEF SameOuter
  <2>5. StageInv(c)'
    BY <1>1, <2>1, StageIdle DEF SameStage, nestedVars, outerVars
  <2> QED
    BY <2>3, <2>4, <2>5 DEF CallInv
<1>3. WorldInv'
  BY <1>1, WorldIdle DEF IInv, WorldInv, nestedVars, outerVars
<1>4. PerCaller'
  BY <1>1 DEF IInv, PerCaller, nestedVars, outerVars
<1> QED
  BY <1>2, <1>3, <1>4 DEF IInv

\* The clock moves while calls are under way.
LEMMA TickStep ==
    ASSUME IInv, Tick
    PROVE  IInv'
<1>1. /\ clock' \in Times
      /\ clocks' = [c \in Callers |-> IF Inner!InProgress(c) THEN clocks[c] \cup {clock'}
                                      ELSE clocks[c]]
      /\ UNCHANGED <<config, keySource, innerPc, innerCalls, inner, claims, innerKey,
                     innerErrors, blank, innerSeen>>
      /\ UNCHANGED <<nestedVars, outerVars>>
  BY DEF Tick, Inner!MoveClock
<1>2. ASSUME NEW c \in Callers
      PROVE  CallInv(c)'
  <2>1. OuterInv(c) /\ InnerInv(c) /\ StageInv(c)
    BY DEF IInv, CallInv
  <2>2. /\ clocks[c] \subseteq clocks'[c] /\ clocks'[c] \subseteq Times
        /\ Inner!InProgress(c) => keySource' \in innerSeen'[c] /\ clock' \in clocks'[c]
    BY <1>1, <2>1 DEF InnerInv
  <2>3. InnerInv(c)'
    BY <1>1, <2>1, <2>2, InnerKept
  <2>4. OuterInv(c)'
    <3>1. UNCHANGED <<decrypter, registry>> /\ SameOuter(c)
      BY <1>1 DEF SameOuter, outerVars
    <3>2. outerPc[c] \in {"resolving", "decrypting"} => registry \in outerSeen[c]
      BY <2>1 DEF OuterInv
    <3> QED
      BY <2>1, <3>1, <3>2, OuterKept DEF SameOuter
  <2>5. StageInv(c)'
    BY <1>1, <2>1, StageIdle DEF SameStage, nestedVars, outerVars
  <2> QED
    BY <2>3, <2>4, <2>5 DEF CallInv
<1>3. WorldInv'
  BY <1>1, WorldIdle DEF IInv, nestedVars, outerVars
<1>4. PerCaller'
  BY <1>1 DEF IInv, PerCaller, nestedVars, outerVars
<1> QED
  BY <1>2, <1>3, <1>4 DEF IInv

-----------------------------------------------------------------------------
(* The invariant.                                                          *)

LEMMA InvInit == Init => IInv
<1> SUFFICES ASSUME Init
             PROVE  IInv
  OBVIOUS
<1>1. /\ wire = {} /\ stage = [c \in Callers |-> "idle"]
      /\ verdict = [c \in Callers |-> {}] /\ returned = [c \in Callers |-> {}]
      /\ Outer!Init /\ ValidNestedVerifier(decrypter) /\ Inner!Init
      /\ ValidNestedIssuer(issuer.encrypter)
  BY Zenon DEF Init
<1>2. \E k \in SigningKeys, s \in SignerOptions, o \in OuterOptions :
         /\ ValidSigner(k, s)
         /\ Sealer!ValidEncrypter(FALSE, Encryption, <<Recipient>>, o, Memory)
         /\ issuer = [signer |-> NewSigner(k, s), encrypter |-> Encrypter(o)]
  BY Zenon DEF Init
<1>3. WorldInv
  <2>1. decrypter \in Decrypters /\ config \in Configurations /\ clock \in Times
    BY <1>1 DEF Outer!Init, Inner!Init
  <2> QED
    BY <1>1, <1>2, <2>1 DEF WorldInv
<1>4. PerCaller
  BY <1>1 DEF PerCaller, Outer!Init, Inner!Init
<1>5. \A c \in Callers : outerPc[c] = "idle" /\ innerPc[c] = "idle" /\ clocks[c] = {}
                         /\ stage[c] = "idle" /\ returned[c] = {}
  BY <1>1 DEF Outer!Init, Inner!Init
<1>6. \A c \in Callers : CallInv(c)
  BY <1>5 DEF CallInv, OuterInv, InnerInv, StageInv, ReturnedInv, Inner!InProgress
<1> QED
  BY <1>3, <1>4, <1>6 DEF IInv

LEMMA InvStep ==
    ASSUME IInv, [Next]_vars
    PROVE  IInv'
<1>1. CASE Issue \/ Forward
  BY <1>1, IssueStep, ForwardStep
<1>2. ASSUME NEW v \in wire, Alter(v) \/ \E c \in Callers : VerifyToken(c, v)
      PROVE  IInv'
  BY <1>2, AlterStep, VerifyTokenStep
<1>3. ASSUME NEW c \in Callers, Call(c)
      PROVE  IInv'
  BY <1>3, DecryptStep, RefuseOuterStep, OpenInnerStep, VerifyInnerStep, ReturnStep
     DEF Call
<1>4. CASE RotateDecryptionKeys \/ RotateVerificationKeys \/ Tick
  BY <1>4, RotateDecryptionKeysStep, RotateVerificationKeysStep, TickStep
<1>5. CASE UNCHANGED vars
  <2>1. UNCHANGED <<issuer, wire, stage, verdict, returned, outerVars, innerVars>>
    BY <1>5 DEF vars, nestedVars
  <2>2. WorldInv'
    BY <2>1, WorldIdle DEF IInv, WorldInv, outerVars, innerVars
  <2> QED
    BY <2>1, <2>2, CallsIdle
<1> QED
  BY <1>1, <1>2, <1>3, <1>4, <1>5 DEF Next

\* Both components, every token under way and every nested call are in one of
\* the states described above, whoever else calls, seals, alters tokens or
\* replaces keys.
THEOREM IInvAlways == Spec => []IInv
<1>1. IInv /\ [Next]_vars => IInv'
  BY InvStep
<1> QED
  BY <1>1, InvInit, PTL DEF Spec

-----------------------------------------------------------------------------
(* What is accepted.                                                       *)

LEMMA InvAccepted == IInv => AcceptedByBothLayers
<1> SUFFICES ASSUME IInv, NEW c \in Callers, stage[c] = "done", verdict[c] = {}
             PROVE  /\ OuterHolds(c) /\ InnerSigned(c)
                    /\ outer[c].content.claims.exp # Absent => InnerTimely(c)
                    /\ inner[c] = outer[c].content
                    /\ blank[c] => claims[c] = outer[c].content.claims
  BY DEF AcceptedByBothLayers
<1>1. WorldInv /\ OuterInv(c) /\ InnerInv(c) /\ StageInv(c)
  BY DEF IInv, CallInv
<1>2. Opened(c) /\ innerPc[c] = "accepted"
  BY <1>1 DEF StageInv, VerdictInv, OuterInv, InnerInv
<1>3. OuterHolds(c)
  BY <1>1, <1>2, OuterAccepted DEF Opened
<1>4. inner[c] = outer[c].content /\ (blank[c] => claims[c] = inner[c].claims)
  BY <1>1, <1>2 DEF Opened, InnerInv
<1>5. InnerSigned(c)
  <2>1. \E r \in innerSeen[c] : VerifiedBy(r, inner[c])
    BY <1>1, <1>2 DEF InnerInv
  <2> QED
    BY <1>4, <2>1 DEF InnerSigned, VerifiedBy
<1>6. ASSUME inner[c].claims.exp # Absent
      PROVE  InnerTimely(c)
  <2>2. PICK now \in clocks[c] : Inner!ClaimsErrors(config, claims[c], now) = {}
    BY <1>1, <1>2 DEF InnerInv
  <2>3. now \in Times /\ claims[c].exp = inner[c].claims.exp
    BY <1>1, <1>2, <1>6, <2>2 DEF InnerInv
  <2>4. inner[c].claims.exp \in Inner!TimeClaims
    BY <1>1, <1>2, <1>4 DEF Opened, OuterInv, Shape, Inner!TokenType, Inner!ClaimSets
  <2>5. now < inner[c].claims.exp + config.leeway
    BY <1>1, <1>6, <2>2, <2>3, <2>4, NotExpired
  <2> QED
    BY <1>4, <2>2, <2>5 DEF InnerTimely
<1> QED
  BY <1>3, <1>4, <1>5, <1>6

LEMMA InvVouched == IInv => ReturnedHeadersAreVouched
<1> SUFFICES ASSUME IInv, NEW c \in Callers, NEW headers \in returned[c]
             PROVE  /\ stage[c] = "done" /\ verdict[c] = {}
                    /\ headers = [jwe |-> outer[c].protected,
                                  jwt |-> outer[c].content.header]
                    /\ OuterHolds(c) /\ InnerSigned(c)
  BY DEF ReturnedHeadersAreVouched
<1>1. OuterInv(c) /\ InnerInv(c) /\ StageInv(c)
  BY DEF IInv, CallInv
<1>2. stage[c] = "done" /\ verdict[c] = {} /\ headers = Headers(c)
  BY <1>1 DEF StageInv, ReturnedInv
<1>3. OuterHolds(c) /\ InnerSigned(c) /\ inner[c] = outer[c].content
  BY <1>2, InvAccepted DEF AcceptedByBothLayers
<1>4. index[c] = 1 /\ Shape(outer[c])
  BY <1>1, <1>2 DEF StageInv, VerdictInv, Opened, OuterInv
<1>5. Outer!RecipientHeader(outer[c], 1) = outer[c].protected
  <2>1. \A f : f = [n \in DOMAIN f |-> f[n]] => Outer!Merged(f, Outer!NoHeader) = f
    BY DEF Outer!Merged, Outer!NoHeader
  <2> QED
    BY <1>4, <2>1 DEF Shape, Outer!SharedHeader, Outer!RecipientHeader
<1> QED
  BY <1>2, <1>3, <1>4, <1>5 DEF Headers

\* "Claims are accepted only after both layers and every configured JWE and
\* JWT policy succeed": NestedVerifier.VerifyToken returns without an error only
\* if the token in hand opened under a decryption key in force during the call,
\* is labelled as a JWT and within the policy, and what it holds is signed by a
\* key trusted for its header during the call, and had not expired if it names
\* an expiration.
THEOREM AcceptedByBothLayersAlways == Spec => []AcceptedByBothLayers
  BY IInvAlways, InvAccepted, PTL

\* The VerifiedToken a caller gets holds the protected header of the outer
\* token and the header of the inner one, of a call in which both layers held;
\* with an error it is the zero value.
THEOREM ReturnedHeadersAreVouchedAlways == Spec => []ReturnedHeadersAreVouched
  BY IInvAlways, InvVouched, PTL

\* A step of VerifyToken that writes the claims value the caller passed follows
\* on an outer layer that held: the other failures leave it untouched.
THEOREM ClaimsNeedTheOuterLayerAlways == Spec => ClaimsNeedTheOuterLayer
<1>1. IInv /\ [Next]_vars =>
         [\A c \in Callers : claims'[c] # claims[c] => OuterHolds(c)]_vars
  <2> SUFFICES ASSUME IInv, Next, NEW c \in Callers, claims'[c] # claims[c]
               PROVE  OuterHolds(c)
    OBVIOUS
  <2>1. PICK d \in Callers : OpenInner(d)
    <3>1. CASE Issue \/ Forward \/ \E v \in wire : Alter(v)
      BY <3>1 DEF Issue, Forward, Alter, innerVars
    <3>2. CASE \E v \in wire, d \in Callers : VerifyToken(d, v)
      BY <3>2 DEF VerifyToken, innerVars
    <3>3. ASSUME NEW d \in Callers, Decrypt(d) \/ RefuseOuter(d) \/ Return(d)
          PROVE  FALSE
      BY <3>3 DEF Decrypt, RefuseOuter, Return, innerVars
    <3>4. ASSUME NEW d \in Callers, VerifyInner(d)
          PROVE  FALSE
      BY <3>4, InnerStepFrame DEF VerifyInner, IInv
    <3>5. CASE RotateDecryptionKeys \/ RotateVerificationKeys \/ Tick
      BY <3>5 DEF RotateDecryptionKeys, RotateVerificationKeys, Tick,
         Inner!ChangeRegistry, Inner!MoveClock, innerVars
    <3> QED
      BY <3>1, <3>2, <3>3, <3>4, <3>5 DEF Next, Call
  <2>2. d = c
    <3>1. \E new : claims' = [claims EXCEPT ![d] = new]
      <4>1. \E value \in {Inner!NewClaims, claims[d]} :
               \/ claims' = [claims EXCEPT ![d] =
                                Inner!DecodeOver(value, outer[d].content.claims)]
               \/ claims' = [claims EXCEPT ![d] = value]
        BY <2>1, Zenon DEF OpenInner, Inner!VerifyToken
      <4> QED
        BY <4>1, Zenon
    <3> QED
      BY <3>1 DEF IInv, PerCaller
  <2> QED
    BY <2>1, <2>2, OuterAccepted DEF OpenInner, IInv, CallInv
<1> QED
  BY <1>1, IInvAlways, PTL DEF Spec, ClaimsNeedTheOuterLayer

-----------------------------------------------------------------------------
(* What the issuer makes.                                                  *)

LEMMA MergedText ==
    ASSUME NEW f, NEW g, NEW n
    PROVE  LET m == Sealer!Merged(f, g) IN
           /\ n \in DOMAIN m <=> n \in DOMAIN f \/ n \in DOMAIN g
           /\ n \in DOMAIN f => Sealer!Text(m, n) = Sealer!Text(f, n)
           /\ n \notin DOMAIN f => Sealer!Text(m, n) = Sealer!Text(g, n)
  BY DEF Sealer!Merged, Sealer!Text

LEMMA SoleText ==
    ASSUME NEW n, NEW m, NEW value
    PROVE  /\ n \in DOMAIN Sealer!Sole(m, value) <=> n = m
           /\ Sealer!Text(Sealer!Sole(m, value), m) = value
  BY DEF Sealer!Sole, Sealer!Text

\* A parameter that was not given is absent and reads as the empty text.
LEMMA GivenText ==
    ASSUME NEW n, NEW m, NEW value
    PROVE  /\ n \in DOMAIN Sealer!Given(m, value) <=> n = m /\ value # NoText
           /\ Sealer!Text(Sealer!Given(m, value), m) = value
  BY DEF Sealer!Given, Sealer!Sole, Sealer!NoHeader, Sealer!Text

LEMMA LackingText ==
    ASSUME NEW h, NEW n, n \notin DOMAIN h
    PROVE  Sealer!Text(h, n) = NoText
  BY DEF Sealer!Text

\* The header of an encrypter whose extra headers contradict nothing.
LEMMA ProtectedText ==
    ASSUME NEW e, e.multi = FALSE, Len(e.recipients) = 1,
           {"alg", "enc", "zip", "crit"} \cap DOMAIN e.config.extra = {},
           \A n \in {"typ", "cty"} :
              n \in DOMAIN e.config.extra => e.config.extra[n] = e.config.policy[n]
    PROVE  LET h == Sealer!ProtectedHeader(e) IN
           /\ "crit" \notin DOMAIN h
           /\ Sealer!Text(h, "alg") = e.recipients[1].alg
           /\ Sealer!Text(h, "enc") = e.enc
           /\ Sealer!Text(h, "zip") = e.config.policy.compression
           /\ Sealer!Text(h, "typ") = e.config.policy.typ
           /\ Sealer!Text(h, "cty") = e.config.policy.cty
<1> DEFINE extra == e.config.extra
           policy == e.config.policy
           typed == Sealer!Typed(e)
           own == Sealer!OwnHeader(e.recipients[1])
           enc == Sealer!Merged(Sealer!Sole("enc", e.enc),
                                Sealer!Given("zip", policy.compression))
           given == Sealer!ConfiguredHeader(e)
           library == Sealer!LibraryHeader(e)
           h == Sealer!ProtectedHeader(e)
<1>1. \A n : n \in DOMAIN typed => n \in {"typ", "cty"}
  BY MergedText, GivenText DEF Sealer!Typed
<1>2. Sealer!Text(typed, "typ") = policy.typ /\ Sealer!Text(typed, "cty") = policy.cty
  BY MergedText, GivenText, LackingText DEF Sealer!Typed
<1>3. /\ \A n : n \in DOMAIN own => n \in {"alg", "kid"}
      /\ "alg" \in DOMAIN own /\ Sealer!Text(own, "alg") = e.recipients[1].alg
  BY MergedText, GivenText, SoleText DEF Sealer!OwnHeader
<1>4. /\ \A n : n \in DOMAIN enc => n \in {"enc", "zip"}
      /\ "enc" \in DOMAIN enc /\ Sealer!Text(enc, "enc") = e.enc
      /\ Sealer!Text(enc, "zip") = policy.compression
  BY MergedText, GivenText, SoleText
<1>5. library = Sealer!Merged(enc, own)
  BY Zenon DEF Sealer!LibraryHeader
<1>6. given = Sealer!Merged(extra, typed)
  BY Zenon DEF Sealer!ConfiguredHeader
<1>7. h = Sealer!Merged(given, library)
  BY Zenon DEF Sealer!ProtectedHeader
<1> HIDE DEF extra, policy, typed, own, enc, given, library, h
<1>8. \A n : n \in DOMAIN given <=> n \in DOMAIN typed \/ n \in DOMAIN extra
  BY <1>6, MergedText
<1>9. \A n \in {"alg", "enc", "zip", "crit"} : n \notin DOMAIN given
  BY <1>1, <1>8 DEF extra
<1>10. "crit" \notin DOMAIN h
  BY <1>3, <1>4, <1>5, <1>7, <1>9, MergedText
<1>11. /\ Sealer!Text(h, "alg") = e.recipients[1].alg
       /\ Sealer!Text(h, "enc") = e.enc
       /\ Sealer!Text(h, "zip") = policy.compression
  <2>1. \A n \in {"alg", "enc", "zip"} : Sealer!Text(h, n) = Sealer!Text(library, n)
    BY <1>7, <1>9, MergedText
  <2>2. "alg" \notin DOMAIN enc /\ "zip" \notin DOMAIN own
    BY <1>3, <1>4
  <2>3. /\ Sealer!Text(library, "alg") = Sealer!Text(own, "alg")
        /\ Sealer!Text(library, "enc") = Sealer!Text(enc, "enc")
        /\ Sealer!Text(library, "zip") = Sealer!Text(enc, "zip")
    BY <1>4, <1>5, <2>2, MergedText, LackingText
  <2> QED
    BY <1>3, <1>4, <2>1, <2>3
<1>12. ASSUME NEW n \in {"typ", "cty"}
       PROVE  Sealer!Text(h, n) = policy[n]
  <2>1. n \notin DOMAIN library
    BY <1>3, <1>4, <1>5, MergedText
  <2>2. Sealer!Text(h, n) = Sealer!Text(given, n)
    BY <1>7, <2>1, MergedText, LackingText
  <2>3. n \in DOMAIN extra => Sealer!Text(extra, n) = policy[n]
    BY DEF extra, policy, Sealer!Text
  <2>4. Sealer!Text(given, n) = policy[n]
    BY <1>2, <1>6, <2>3, MergedText
  <2> QED
    BY <2>2, <2>4
<1> QED
  BY <1>10, <1>11, <1>12 DEF h, policy

\* The issuer's two halves, and what one of its tokens is made of.
LEMMA IssuerType ==
    ASSUME WorldInv
    PROVE  LET signer == issuer.signer
               e == issuer.encrypter IN
           /\ signer \in Signers /\ signer.key \in SigningKeys
           /\ ValidSigningKey(signer.key)
           /\ e.multi = FALSE /\ e.enc = Encryption
           /\ Len(e.recipients) = 1 /\ e.recipients[1].alg = Recipient.alg
           /\ ConfigType(e.config) /\ e.config.policy.cty = JWT
<1>1. PICK k \in SigningKeys, s \in SignerOptions, o \in OuterOptions :
         /\ ValidSigner(k, s)
         /\ Sealer!ValidEncrypter(FALSE, Encryption, <<Recipient>>, o, Memory)
         /\ issuer = [signer |-> NewSigner(k, s), encrypter |-> Encrypter(o)]
  BY Zenon DEF WorldInv
<1>2. issuer.signer = NewSigner(k, s) /\ issuer.encrypter = Encrypter(o)
  BY <1>1
<1>3. issuer.signer \in Signers /\ issuer.signer.key = k /\ ValidSigningKey(k)
  BY <1>1, <1>2, NewSignerType DEF ValidSigner
<1>4. Encrypter(o) =
         [multi |-> FALSE, enc |-> Encryption, config |-> Sealer!MakeConfig(o),
          recipients |-> [i \in 1 .. 1 |->
              [alg |-> Recipient.alg, kid |-> Recipient.kid,
               held |-> Sealer!CloneKeyMaterial(Recipient.buffer, Memory)]]]
  <2>1. DOMAIN <<Recipient>> = 1 .. 1 /\ \A i \in 1 .. 1 : <<Recipient>>[i] = Recipient
    OBVIOUS
  <2> QED
    BY <2>1 DEF Encrypter, Sealer!NewEncrypter
<1>5. ConfigType(Sealer!MakeConfig(o))
  <2>1. Sealer!ValidOptions(o)
    BY <1>1 DEF Sealer!ValidEncrypter
  <2> QED
    BY <2>1, IssuerAssumption, MakeConfigType
<1>6. issuer.encrypter.config.policy.cty = JWT
  BY DEF WorldInv, ValidNestedIssuer
<1> QED
  BY <1>1, <1>2, <1>3, <1>4, <1>5, <1>6

\* The decrypter finds nothing against the outer layer.
LEMMA IssuedPassesOutside ==
    ASSUME WorldInv, Agreement, NEW t, Shape(t), Issued(t)
    PROVE  /\ Outer!EarlyErrors(t) = {} /\ Outer!LateErrors(t, 1) = {}
           /\ Outer!Text(Outer!RecipientHeader(t, 1), "cty") = JWT
           /\ t.intact /\ Outer!Truthful(t, 1)
<1> DEFINE e == issuer.encrypter
           policy == e.config.policy
           shared == Outer!SharedHeader(t)
           header == Outer!RecipientHeader(t, 1)
<1>1. PICK cs \in ClaimsPool :
         LET signed == Signed(issuer.signer, cs, TokenSize) IN
         /\ t = Sealed(e, signed)
         /\ Sealer!EncryptErrors(e, Plaintext(signed), NoAuthData, Memory) = {}
  BY DEF Issued
<1> DEFINE p == Plaintext(Signed(issuer.signer, cs, TokenSize))
<1>2. p.size = TokenSize /\ p.packed = 1
  BY DEF Plaintext, Signed
<1>3. /\ e.multi = FALSE /\ e.enc = Encryption
      /\ Len(e.recipients) = 1 /\ e.recipients[1].alg = Recipient.alg
      /\ policy \in Sealer!Policies /\ policy.cty = JWT
      /\ e.config.maxTokenSize \in Int /\ e.config.maxPlaintextSize \in Int
  BY IssuerType DEF ConfigType
<1>4. t = Sealer!Encrypted(e, p, NoAuthData, Memory)
  BY <1>1 DEF Sealed
<1>5. /\ t.wellFormed = TRUE /\ t.protected = Sealer!ProtectedHeader(e)
      /\ t.plaintext = TokenSize /\ t.intact = TRUE /\ t.enc = e.enc
      /\ t.size = Len(e.recipients) + NoAuthData.size
                  + (IF policy.compression = Deflate THEN p.packed ELSE p.size)
  BY <1>2, <1>4 DEF Sealer!Encrypted
<1>6. /\ t.size \in Nat \ {0} /\ t.size <= decrypter.maxTokenSize
      /\ TokenSize <= decrypter.maxPlaintextSize
  <2>1. TokenSize \in Nat \ {0} /\ NoAuthData.size = 0
    BY NestedAssumption DEF NoAuthData
  <2>2. /\ ~ TokenSize > e.config.maxPlaintextSize
        /\ ~ t.size > e.config.maxTokenSize
    BY <1>1, <1>2, <1>4 DEF Sealer!EncryptErrors
  <2>3. /\ e.config.maxTokenSize <= decrypter.maxTokenSize
        /\ e.config.maxPlaintextSize <= decrypter.maxPlaintextSize
    BY DEF Agreement
  <2>4. t.size \in Nat \ {0}
    BY <1>2, <1>3, <1>5, <2>1
  <2> QED
    BY <1>3, <2>1, <2>2, <2>3, <2>4, DecrypterType
<1>7. /\ "crit" \notin DOMAIN t.protected
      /\ Sealer!Text(t.protected, "alg") = Recipient.alg
      /\ Sealer!Text(t.protected, "enc") = Encryption
      /\ Sealer!Text(t.protected, "zip") = policy.compression
      /\ Sealer!Text(t.protected, "typ") = policy.typ
      /\ Sealer!Text(t.protected, "cty") = JWT
  <2>1. /\ {"alg", "enc", "zip", "crit"} \cap DOMAIN e.config.extra = {}
        /\ \A n \in {"typ", "cty"} :
              n \in DOMAIN e.config.extra => e.config.extra[n] = e.config.policy[n]
    BY DEF Agreement
  <2> HIDE DEF e
  <2> QED
    BY <1>3, <1>5, <2>1, ProtectedText
<1>8. ASSUME NEW h \in {shared, header}
      PROVE  /\ "crit" \notin DOMAIN h
             /\ Outer!Text(h, "alg") = Recipient.alg
             /\ Outer!Text(h, "enc") = Encryption
             /\ Outer!Text(h, "zip") = policy.compression
             /\ Outer!Text(h, "typ") = policy.typ
             /\ Outer!Text(h, "cty") = JWT
  BY <1>7, ShapeHeader, OuterReads
<1>alg. t.recipients[1].alg = Recipient.alg
  <2>1. t.recipients = [i \in DOMAIN e.recipients |->
           [key |-> Sealer!KeyNow(e.recipients[i].held, Memory),
            alg |-> e.recipients[i].alg,
            header |-> IF Len(e.recipients) = 1 THEN Sealer!NoHeader
                       ELSE Sealer!OwnHeader(e.recipients[i])]]
    BY <1>4, Zenon DEF Sealer!Encrypted
  <2>2. 1 \in DOMAIN e.recipients
    BY <2>1 DEF Shape
  <2> HIDE DEF e
  <2> QED
    BY <1>3, <2>1, <2>2
<1> HIDE DEF e, policy, shared, header, p
<1>9. /\ Recipient.alg \in KeyAlgorithms \cap Texts
      /\ Encryption \in ContentEncryptions \cap Texts
  BY LayersAssumption DEF Agreement
<1>10. /\ policy.typ \in Texts \cup {NoText} /\ policy.compression \in {NoText, Deflate}
       /\ Deflate \in Texts /\ JWT \in Texts /\ NoText \notin Texts
       /\ NotAString \notin Texts \cup {NoText} /\ Unfit \notin Texts \cup {NoText}
  <2>1. policy.typ \in Texts \cup {NoText} /\ policy.compression \in {NoText, Deflate}
    BY <1>3 DEF Sealer!Policies
  <2>2. JWT \in Texts
    BY SignersAssumption DEF JWT
  <2> QED
    BY <2>1, <2>2, LayersAssumption
<1>11. ASSUME NEW h \in {shared, header}
       PROVE  Outer!ValidHeader(h, FALSE)
  BY <1>8, <1>9, <1>10 DEF Outer!ValidHeader
<1>12. ASSUME NEW h \in {shared, header}
       PROVE  Outer!PolicyErrors(decrypter.policy, h, FALSE) = {}
  <2>1. /\ decrypter.policy.typ \in {NoText, policy.typ}
        /\ decrypter.policy.cty \in {NoText, JWT}
        /\ policy.compression \in {NoText, decrypter.policy.compression}
    BY DEF Agreement, WorldInv, ValidNestedVerifier, policy, e
  <2> QED
    BY <1>8, <2>1 DEF Outer!PolicyErrors, Outer!Expected, Outer!CompressionExpected
<1>13. decrypter.multi = FALSE /\ decrypter.keyAlgorithms = KeyAlgorithms
       /\ decrypter.contentEncryptions = ContentEncryptions
  BY DecrypterType
<1>14. Outer!Allowed(t)
  BY <1>8, <1>9, <1>13 DEF Outer!Allowed, Shape, header
<1>15. Outer!IsCompact(t)
  BY DEF Outer!IsCompact, Shape
<1>16. Outer!EarlyErrors(t) = {}
  <2>1. t.size # 0 /\ ~ t.size > decrypter.maxTokenSize
    BY <1>6, DecrypterType
  <2> QED
    BY <1>5, <1>11, <1>12, <1>13, <1>14, <1>15, <2>1 DEF Outer!EarlyErrors, shared
<1>17. Outer!LateErrors(t, 1) = {}
  <2>1. ~ t.plaintext > decrypter.maxPlaintextSize
    BY <1>5, <1>6, NestedAssumption, DecrypterType
  <2> QED
    BY <1>11, <1>12, <2>1 DEF Outer!LateErrors, header
<1>18. t.intact /\ Outer!Truthful(t, 1)
  BY <1>3, <1>5, <1>8, <1>alg DEF Outer!Truthful, header
<1> QED
  BY <1>8, <1>16, <1>17, <1>18 DEF header

\* Nor does the JWT verifier before it asks for a key, and the key the issuer
\* signed with verifies what the outer layer holds.
LEMMA IssuedPassesInside ==
    ASSUME WorldInv, Agreement, NEW t, Issued(t)
    PROVE  /\ Inner!EarlyErrors(t.content) = {}
           /\ config.typ \in {NoText, t.content.header.typ}
           /\ \A r : Inner!Answer(r, t.content.header)
                        = [errors |-> {}, key |-> issuer.signer.key.verification]
                     => VerifiedBy(r, t.content)
<1> DEFINE signer == issuer.signer
           k == signer.key
           j == t.content
<1>1. PICK cs \in ClaimsPool : j = Signed(signer, cs, TokenSize)
  <2>1. PICK cs \in ClaimsPool :
           t = Sealed(issuer.encrypter, Signed(signer, cs, TokenSize))
    BY DEF Issued
  <2>2. j = Signed(signer, cs, TokenSize)
    BY <2>1 DEF Sealed, Sealer!Encrypted, Plaintext
  <2> QED
    BY <2>2
<1>2. /\ j.size = TokenSize /\ j.wellFormed = TRUE /\ j.encoded = TRUE
      /\ j.header = SignerHeader(signer) /\ j.signer = PublicOf[SignsWith(k)]
  BY <1>1 DEF Signed
<1>3. /\ signer \in Signers /\ k \in SigningKeys /\ ValidSigningKey(k)
  BY IssuerType
<1>4. /\ Initialized(k.verification) /\ k.verification.method = k.method
      /\ k.id \in KeyIDs \cup {NoKeyID} /\ k.method \in Algorithms
      /\ j.signer = k.verification.material
  BY <1>2, <1>3, SigningKeyType
<1>5. /\ j.header.alg = k.method /\ j.header.kid = k.id
      /\ j.header.typ = signer.typ /\ j.header.extra = {}
  BY <1>2 DEF SignerHeader
<1>6. signer.typ \in Texts
  BY <1>3 DEF Signers
<1>7. k.method \in config.methods /\ TokenSize <= MaxTokenSize
      /\ config.typ \in {NoText, signer.typ}
  BY DEF Agreement
<1> HIDE DEF signer, k, j
<1>8. Inner!HeaderValid(j.header)
  <2>1. k.id \notin OverlongKeyIDs /\ k.id # NotAString /\ signer.typ # NotAString
    BY <1>4, <1>6, KeysAssumption, LayersAssumption DEF AnyKeyID
  <2> QED
    BY <1>5, <2>1 DEF Inner!HeaderValid
<1>9. Inner!ParseErrors(j) = {}
  BY <1>2, <1>4, <1>5, <1>7, <1>8 DEF Inner!ParseErrors
<1>10. Inner!RawTokenErrors(j) = {}
  <2>1. TokenSize \in Nat \ {0} /\ MaxTokenSize \in Nat
    BY NestedAssumption, LayersAssumption
  <2> QED
    BY <1>2, <1>7, <2>1 DEF Inner!RawTokenErrors
<1>11. Inner!EarlyErrors(j) = {}
  BY <1>9, <1>10 DEF Inner!EarlyErrors
<1> QED
  BY <1>4, <1>5, <1>7, <1>11 DEF VerifiedBy, j, k, signer

LEMMA InvVerify == IInv => IssuedTokensVerify
<1> SUFFICES ASSUME IInv, NEW c \in Callers, NEW v \in wire,
                    stage[c] = "done", outer[c] = v.outer, v.origin = "issuer",
                    Agreement,
                    \A r \in outerSeen[c] :
                       Outer!Answer(r, Outer!SharedHeader(v.outer))
                          = [errors |-> {}, key |-> v.outer.recipients[1].key],
                    \A r \in innerSeen[c] :
                       Inner!Answer(r, v.outer.content.header)
                          = [errors |-> {}, key |-> issuer.signer.key.verification],
                    \A now \in clocks[c] :
                       /\ Inner!ClaimsErrors(config, claims[c], now) = {}
                       /\ Inner!ValidateLifetime(config, claims[c], now) = "none"
             PROVE  verdict[c] = {}
  BY Zenon DEF IssuedTokensVerify
<1> DEFINE t == v.outer
<1>1. /\ WorldInv /\ OuterInv(c) /\ InnerInv(c) /\ VerdictInv(c)
      /\ innerPc[c] \in {"idle", "accepted", "rejected"}
  BY DEF IInv, CallInv, StageInv
<1>2. Shape(t) /\ Issued(t)
  BY <1>1 DEF WorldInv
<1>3. /\ Outer!EarlyErrors(outer[c]) = {} /\ Outer!LateErrors(outer[c], 1) = {}
      /\ Outer!Text(Outer!RecipientHeader(outer[c], 1), "cty") = JWT
  BY <1>1, <1>2, IssuedPassesOutside
<1>4. outerPc[c] # "rejected"
  BY <1>1, <1>2, <1>3, IssuedPassesOutside DEF OuterInv, OuterGrounds, OpenedBy
<1>5. outerPc[c] = "decrypted" => ContentType(c) = JWT
  BY <1>1, <1>3 DEF OuterInv, ContentType
<1>6. Opened(c) /\ innerPc[c] # "idle" /\ verdict[c] = innerErrors[c]
  BY <1>1, <1>4, <1>5 DEF VerdictInv
<1>7. inner[c] = t.content
  BY <1>6 DEF Opened
<1>8. /\ Inner!EarlyErrors(inner[c]) = {} /\ Inner!TypeExpected(c)
      /\ \A r \in innerSeen[c] : VerifiedBy(r, inner[c])
  BY <1>1, <1>2, <1>7, IssuedPassesInside DEF Inner!TypeExpected
<1>9. innerPc[c] # "rejected"
  BY <1>1, <1>8 DEF InnerInv, InnerGrounds
<1> QED
  BY <1>1, <1>6, <1>9 DEF InnerInv

\* NestedVerifier.VerifyToken returns without an error for every token that the
\* NestedIssuer made, in either layer's view, if the two agree on algorithms,
\* media types, compression and sizes, every key source the call may ask knows
\* their keys, and the claims satisfy the policy whenever the call looks.
THEOREM IssuedTokensVerifyAlways == Spec => []IssuedTokensVerify
  BY IInvAlways, InvVerify, PTL
=============================================================================
