-------------------------- MODULE JWTExchangeProofs --------------------------
(***************************************************************************)
(* For any keys, documents and limits: a key set and its export answer     *)
(* alike, and a rotation leaves the keys that stay alone.                  *)
(***************************************************************************)
EXTENDS JWTExchange, KeySetRotation, FiniteSetTheorems, WellFoundedInduction,
        TLAPS

\* The sets an application and a consumer can be holding.
KeySet(keys) == /\ keys \in Seq(VerificationKeys)
                /\ \A i \in DOMAIN keys : keys[i].id \notin OverlongKeyIDs
                /\ ValidStaticKeySet(keys)

JWKSet(keys) == keys \in Seq(JWKs) /\ ValidSet(keys)

RotationInv ==
    /\ static = <<>> \/ KeySet(static)
    /\ document \in Seq(JWKs)
    /\ fetched = <<>> \/ JWKSet(fetched)

-----------------------------------------------------------------------------
(* The two lookups.                                                        *)

\* A key of a StaticKeySet is found under its own id and no other key is.
LEMMA StaticLookup ==
    ASSUME NEW keys, KeySet(keys), NEW header, NEW i \in DOMAIN keys,
           keys[i].id = header.kid
    PROVE  StaticResolve(keys, header) = ResolveKey(keys[i], header)
<1> DEFINE named == {j \in DOMAIN keys : keys[j].id = header.kid}
<1>1. DOMAIN keys = 1 .. Len(keys) /\ Len(keys) \in Nat
  BY DEF KeySet
<1>2. 1 \in DOMAIN keys
  BY <1>1
<1>3. CASE keys[1].id = NoKeyID
  <2>1. i = 1
    BY <1>1, <1>2, <1>3 DEF KeySet, ValidStaticKeySet
  <2> QED
    BY <1>3, <2>1 DEF StaticResolve
<1>4. CASE keys[1].id # NoKeyID
  <2>1. header.kid # NoKeyID
    BY <1>1, <1>2, <1>4 DEF KeySet, ValidStaticKeySet
  <2>2. named = {i}
    BY DEF KeySet, ValidStaticKeySet
  <2>3. (CHOOSE j \in named : TRUE) = i
    BY <2>2
  <2> QED
    BY <1>4, <2>1, <2>2, <2>3 DEF StaticResolve
<1> QED
  BY <1>3, <1>4

\* Without a key of that id, the header's kid alone decides the error.
LEMMA StaticNotFound ==
    ASSUME NEW keys, KeySet(keys), NEW header,
           \A i \in DOMAIN keys : keys[i].id # header.kid
    PROVE  StaticResolve(keys, header)
              = Failure(IF header.kid = NoKeyID THEN "ErrMissingKeyID"
                                                ELSE "ErrUnknownKey")
<1>1. DOMAIN keys = 1 .. Len(keys) /\ Len(keys) \in Nat
  BY DEF KeySet
<1>2. 1 \in DOMAIN keys /\ Initialized(keys[1])
  BY <1>1 DEF KeySet, ValidStaticKeySet
<1>3. {i \in DOMAIN keys : keys[i].id = header.kid} = {}
  OBVIOUS
<1>4. CASE keys[1].id = NoKeyID
  <2>1. header.kid # NoKeyID
    BY <1>2, <1>4
  <2> QED
    BY <1>2, <1>4, <2>1 DEF StaticResolve, ResolveKey
<1>5. CASE keys[1].id # NoKeyID
  BY <1>3, <1>5 DEF StaticResolve
<1> QED
  BY <1>4, <1>5

LEMMA SetLookup ==
    ASSUME NEW keys, JWKSet(keys), NEW header, NEW i \in DOMAIN keys,
           keys[i].keyID = header.kid
    PROVE  SetResolve(keys, header) =
              IF header.alg \notin Algorithms THEN Failure("ErrUnexpectedAlgorithm")
              ELSE ToVerificationKey(keys[i], header.alg)
<1> DEFINE named == {j \in DOMAIN keys : keys[j].keyID = header.kid}
<1>1. named = {i}
  BY DEF JWKSet, ValidSet
<1>2. (CHOOSE j \in named : TRUE) = i
  BY <1>1
<1> QED
  BY <1>1, <1>2 DEF SetResolve

\* What is found is an initialized key of the header's id and algorithm.
LEMMA StaticAnswer ==
    ASSUME NEW keys, KeySet(keys), NEW header,
           StaticResolve(keys, header).error = "none"
    PROVE  \E i \in DOMAIN keys :
              /\ keys[i].id = header.kid
              /\ StaticResolve(keys, header) = Found(keys[i])
              /\ ResolveKey(keys[i], header) = Found(keys[i])
<1>1. PICK i \in DOMAIN keys : keys[i].id = header.kid
  BY StaticNotFound DEF Failure
<1>2. StaticResolve(keys, header) = ResolveKey(keys[i], header)
  BY <1>1, StaticLookup
<1> QED
  BY <1>1, <1>2 DEF ResolveKey, Failure, Found

-----------------------------------------------------------------------------
(* The export.                                                             *)

LEMMA ExportType ==
    ASSUME NEW keys, KeySet(keys), \A i \in DOMAIN keys : Exportable(keys[i])
    PROVE  /\ JWKSet(FromStaticKeySet(keys))
           /\ DOMAIN FromStaticKeySet(keys) = DOMAIN keys
           /\ \A i \in DOMAIN keys :
                 FromStaticKeySet(keys)[i] = FromVerificationKey(keys[i])
<1> DEFINE export == FromStaticKeySet(keys)
<1>1. DOMAIN keys = 1 .. Len(keys) /\ Len(keys) \in Nat /\ keys # <<>>
  BY DEF KeySet, ValidStaticKeySet
<1>2. /\ DOMAIN export = DOMAIN keys
      /\ \A i \in DOMAIN keys : export[i] = FromVerificationKey(keys[i])
  BY DEF FromStaticKeySet
<1>3. \A i \in DOMAIN keys : FromVerificationKey(keys[i]) \in JWKs
  <2> SUFFICES ASSUME NEW i \in DOMAIN keys
               PROVE  FromVerificationKey(keys[i]) \in JWKs
    OBVIOUS
  <2>1. keys[i] \in VerificationKeys
    BY <1>1 DEF KeySet
  <2>2. /\ keys[i].id \in AnyKeyID
        /\ keys[i].method \in Algorithms \cup {NoAlgorithm}
        /\ keys[i].material \in Material \cup {NilMaterial}
    BY <2>1 DEF VerificationKeys
  <2> QED
    BY <2>2 DEF FromVerificationKey, JWKs
<1>4. export \in Seq(JWKs) /\ Len(export) = Len(keys)
  BY <1>1, <1>2, <1>3 DEF FromStaticKeySet
<1>5. export # <<>>
  BY <1>1, <1>4
<1>6. \A i \in DOMAIN export : ValidJWK(export[i]) /\ export[i].keyID = keys[i].id
  BY <1>2 DEF ValidJWK, FromVerificationKey, Exportable
<1>7. ValidSet(export)
  BY <1>2, <1>4, <1>5, <1>6 DEF ValidSet, KeySet, ValidStaticKeySet
<1> QED
  BY <1>2, <1>4, <1>7 DEF JWKSet

\* One key: the JWK's answer is the key's own.
LEMMA SameAnswer ==
    ASSUME NEW key \in VerificationKeys, Exportable(key),
           key.id \notin OverlongKeyIDs,
           NEW header, header.kid = key.id
    PROVE  ResolveKey(key, header) =
              IF header.alg \notin Algorithms THEN Failure("ErrUnexpectedAlgorithm")
              ELSE ToVerificationKey(FromVerificationKey(key), header.alg)
<1>1. Initialized(key) /\ key.material \in PublicMaterial
  BY DEF Exportable
<1>2. key.method \in Algorithms /\ NoAlgorithm \notin Algorithms
  BY <1>1, KeysAssumption DEF Initialized, VerificationKeys
<1>3. key = [id |-> key.id, method |-> key.method, material |-> key.material]
  BY DEF VerificationKeys
<1>4. CASE header.alg # key.method
  BY <1>1, <1>2, <1>4 DEF ResolveKey, ToVerificationKey, FromVerificationKey,
                          ValidJWK
<1>5. CASE header.alg = key.method
  <2>1. ResolveKey(key, header) = Found(key)
    BY <1>1, <1>5 DEF ResolveKey
  <2>2. ToVerificationKey(FromVerificationKey(key), header.alg)
           = NewVerificationKey(key.id, key.method, key.material)
    BY <1>1, <1>2, <1>5 DEF ToVerificationKey, FromVerificationKey, ValidJWK
  <2>3. NewVerificationKey(key.id, key.method, key.material) = Found(key)
    BY <1>1, <1>3 DEF NewVerificationKey, Initialized
  <2> QED
    BY <1>2, <1>5, <2>1, <2>2, <2>3
<1> QED
  BY <1>4, <1>5

LEMMA ExportAnswers ==
    ASSUME NEW keys, KeySet(keys), \A i \in DOMAIN keys : Exportable(keys[i]),
           NEW header
    PROVE  SetResolve(FromStaticKeySet(keys), header) = StaticResolve(keys, header)
<1> DEFINE export == FromStaticKeySet(keys)
<1>1. /\ JWKSet(export) /\ DOMAIN export = DOMAIN keys
      /\ \A i \in DOMAIN keys : export[i] = FromVerificationKey(keys[i])
  BY ExportType
<1>2. \A i \in DOMAIN keys : export[i].keyID = keys[i].id
  BY <1>1 DEF FromVerificationKey
<1> HIDE DEF export
<1>3. CASE \E i \in DOMAIN keys : keys[i].id = header.kid
  <2>1. PICK i \in DOMAIN keys : keys[i].id = header.kid
    BY <1>3
  <2>2. SetResolve(export, header) =
           IF header.alg \notin Algorithms THEN Failure("ErrUnexpectedAlgorithm")
           ELSE ToVerificationKey(FromVerificationKey(keys[i]), header.alg)
    BY <1>1, <1>2, <2>1, SetLookup
  <2>3. keys[i] \in VerificationKeys /\ keys[i].id \notin OverlongKeyIDs
    BY DEF KeySet
  <2> QED
    BY <2>1, <2>2, <2>3, SameAnswer, StaticLookup DEF export
<1>4. CASE \A i \in DOMAIN keys : keys[i].id # header.kid
  <2>1. {i \in DOMAIN export : export[i].keyID = header.kid} = {}
    BY <1>1, <1>2, <1>4
  <2> QED
    BY <1>4, <2>1, StaticNotFound DEF SetResolve, export
<1> QED
  BY <1>3, <1>4

-----------------------------------------------------------------------------
LEMMA RotationInvInit == RotationInit => RotationInv
  BY DEF RotationInit, RotationInv

LEMMA RotationInvNext == RotationInv /\ [RotationNext]_rotationVars => RotationInv'
<1> SUFFICES ASSUME RotationInv, [RotationNext]_rotationVars
             PROVE  RotationInv'
  OBVIOUS
<1> USE DEF RotationInv
<1>1. ASSUME NEW keys \in StaticKeyLists, NewStaticKeySet(keys)
      PROVE  RotationInv'
  <2>1. keys \in Seq(VerificationKeys)
        /\ \A i \in DOMAIN keys : keys[i].id \notin OverlongKeyIDs
    BY RotationAssumption DEF StaticKeyLists
  <2> QED
    BY <1>1, <2>1 DEF NewStaticKeySet, KeySet
<1>2. CASE Publish
  <2>1. JWKSet(document') /\ UNCHANGED <<static, fetched>>
    BY <1>2, ExportType DEF Publish
  <2> QED
    BY <2>1 DEF JWKSet
<1>3. ASSUME NEW jwk \in ForeignJWKs, AddForeignJWK(jwk)
      PROVE  RotationInv'
  BY <1>3, RotationAssumption DEF AddForeignJWK
<1>4. CASE ParseSet
  BY <1>4 DEF ParseSet, JWKSet
<1>5. CASE UNCHANGED rotationVars
  BY <1>5 DEF rotationVars
<1> QED
  BY <1>1, <1>2, <1>3, <1>4, <1>5 DEF RotationNext

\* The publisher's set, its document and the consumer's set are well-formed
\* whatever the two applications do.
THEOREM RotationInvAlways == RotationSpec => []RotationInv
<1> QED
  BY RotationInvInit, RotationInvNext, PTL DEF RotationSpec

\* The export of any set of public keys answers every header like the set.
THEOREM ExportAgreesAlways == RotationSpec => []ExportAgrees
<1>1. RotationInv => ExportAgrees
  BY ExportType, ExportAnswers DEF RotationInv, ExportAgrees, JWKSet
<1> QED
  BY <1>1, RotationInvAlways, PTL

-----------------------------------------------------------------------------
(* Rotation.                                                               *)

LEMMA StaticKept ==
    ASSUME NEW old, NEW new, KeySet(old), KeySet(new), NEW header,
           StaticResolve(old, header).error = "none",
           Holds(new, StaticResolve(old, header).key)
    PROVE  StaticResolve(new, header) = StaticResolve(old, header)
<1>1. PICK i \in DOMAIN old :
         /\ old[i].id = header.kid
         /\ StaticResolve(old, header) = Found(old[i])
         /\ ResolveKey(old[i], header) = Found(old[i])
  BY StaticAnswer
<1>2. PICK j \in DOMAIN new : new[j] = old[i]
  BY <1>1 DEF Holds, Found
<1> QED
  BY <1>1, <1>2, StaticLookup

LEMMA SetKept ==
    ASSUME NEW old, NEW new, JWKSet(old), JWKSet(new), NEW header,
           NEW i \in DOMAIN old, old[i].keyID = header.kid, Holds(new, old[i])
    PROVE  SetResolve(new, header) = SetResolve(old, header)
<1>1. PICK j \in DOMAIN new : new[j] = old[i]
  BY DEF Holds
<1> QED
  BY <1>1, SetLookup

\* Whichever of its sets an application replaces, a key that stays answers
\* what it answered.
THEOREM RotationKeepsRemainingKeysAlways == RotationSpec => RotationKeepsRemainingKeys
<1> DEFINE Kept(header) ==
        /\ LET reply == StaticResolve(static, header) IN
           static # <<>> /\ reply.error = "none" /\ Holds(static', reply.key)
              => StaticResolve(static', header) = reply
        /\ \A i \in DOMAIN fetched :
              /\ fetched[i].keyID = header.kid
              /\ SetResolve(fetched, header).error = "none"
              /\ Holds(fetched', fetched[i])
              => SetResolve(fetched', header) = SetResolve(fetched, header)
<1>1. ASSUME RotationInv, RotationInv', NEW header \in HeaderPool
      PROVE  Kept(header)
  <2>1. ASSUME static # <<>>, StaticResolve(static, header).error = "none",
               Holds(static', StaticResolve(static, header).key)
        PROVE  StaticResolve(static', header) = StaticResolve(static, header)
    <3>1. static' # <<>>
      BY <2>1 DEF Holds
    <3>2. KeySet(static) /\ KeySet(static')
      BY <1>1, <2>1, <3>1 DEF RotationInv
    <3> QED
      BY <2>1, <3>2, StaticKept
  <2>2. ASSUME NEW i \in DOMAIN fetched, fetched[i].keyID = header.kid,
               Holds(fetched', fetched[i])
        PROVE  SetResolve(fetched', header) = SetResolve(fetched, header)
    <3>1. fetched # <<>> /\ fetched' # <<>>
      BY <2>2 DEF Holds
    <3>2. JWKSet(fetched) /\ JWKSet(fetched')
      BY <1>1, <3>1 DEF RotationInv
    <3> QED
      BY <2>2, <3>2, SetKept
  <2> QED
    BY <2>1, <2>2
<1>2. RotationInv /\ RotationInv' => \A header \in HeaderPool : Kept(header)
  BY <1>1
<1>3. RotationInv /\ RotationInv' => [\A header \in HeaderPool : Kept(header)]_rotationVars
  BY <1>2
<1> HIDE DEF Kept
<1>4. RotationSpec => [][\A header \in HeaderPool : Kept(header)]_rotationVars
  BY <1>3, RotationInvAlways, PTL DEF RotationSpec
<1> QED
  BY <1>4 DEF RotationKeepsRemainingKeys, Kept

-----------------------------------------------------------------------------
(* Signers.                                                                *)

\* Induction up to a bound.
LEMMA UpTo ==
    ASSUME NEW n \in Nat, NEW T, 0 \in T,
           \A m \in Nat : m < n /\ m \in T => m + 1 \in T
    PROVE  \A m \in 0 .. n : m \in T
<1> DEFINE Missed == {m \in 0 .. n : m \notin T}
           R == OpToRel(<, Nat)
<1>1. SUFFICES ASSUME Missed # {}
               PROVE  FALSE
  OBVIOUS
<1>2. IsWellFoundedOn(R, Nat)
  BY NatLessThanWellFounded
<1>3. \A x, y \in Nat : y < x => <<y, x>> \in R
  BY DEF OpToRel
<1>4. Missed \subseteq Nat
  OBVIOUS
<1> HIDE DEF R
<1>5. PICK m \in Missed : \A k \in Missed : ~ (<<k, m>> \in R)
  <2> HIDE DEF Missed
  <2> QED
    BY <1>1, <1>2, <1>4, WFMin
<1>6. m \in Nat /\ m # 0 /\ m - 1 \in Nat
  BY <1>5
<1>7. m - 1 \notin Missed
  <2>1. m - 1 < m
    BY <1>6
  <2>2. <<m - 1, m>> \in R
    BY <1>3, <1>6, <2>1
  <2> HIDE DEF Missed
  <2> QED
    BY <1>5, <2>2
<1>8. m - 1 \in T
  BY <1>5, <1>6, <1>7
<1>9. m - 1 + 1 \in T
  BY <1>5, <1>6, <1>8
<1> QED
  BY <1>5, <1>6, <1>9

LEMMA MaxOfInterval ==
    ASSUME NEW k \in Nat
    PROVE  /\ Max(1 .. k + 1) = k + 1
           /\ (1 .. k + 1) \ {k + 1} = 1 .. k
           /\ \A s \in SUBSET (1 .. k + 1) :
                 k + 1 \in s => Max(s) = k + 1 /\ s \ {k + 1} \in SUBSET (1 .. k)
<1>1. ASSUME NEW s \in SUBSET (1 .. k + 1), k + 1 \in s
      PROVE  Max(s) = k + 1
  <2>1. \A y \in s : k + 1 >= y
    BY <1>1
  <2>2. \A x \in s : (\A y \in s : x >= y) => x = k + 1
    BY <1>1
  <2> QED
    BY <1>1, <2>1, <2>2 DEF Max
<1>2. Max(1 .. k + 1) = k + 1
  BY <1>1
<1>3. (1 .. k + 1) \ {k + 1} = 1 .. k
  OBVIOUS
<1>4. \A s \in SUBSET (1 .. k + 1) : k + 1 \in s => s \ {k + 1} \in SUBSET (1 .. k)
  OBVIOUS
<1> QED
  BY <1>1, <1>2, <1>3, <1>4

\* A signer without options.
Unconfigured(k) ==
    [key |-> k, typ |-> DefaultType, maxSize |-> DefaultTokenSize]

\* NewSigner applies the options one after the other.
LEMMA NewSignerSteps ==
    ASSUME NEW k, NEW list, NEW n \in Nat, DOMAIN list = 1 .. n
    PROVE  \E built :
              /\ built[0] = Unconfigured(k)
              /\ \A i \in 0 .. n - 1 : built[i + 1] = ApplySigner(built[i], list[i + 1])
              /\ built[n] = NewSigner(k, list)
<1> DEFINE After(f, s) == IF s = {} THEN Unconfigured(k)
                          ELSE ApplySigner(f[s \ {Max(s)}], list[Max(s)])
           iter == CHOOSE f : f = [s \in SUBSET DOMAIN list |-> After(f, s)]
           Defined == {m \in 0 .. n : \E f : f = [s \in SUBSET (1 .. m) |-> After(f, s)]}
<1>1. NewSigner(k, list) = iter[DOMAIN list]
  BY Zenon DEF NewSigner, Unconfigured, FoldLeft, MapThenFoldSet
<1>2. 0 \in Defined
  <2> DEFINE f == [s \in SUBSET (1 .. 0) |-> Unconfigured(k)]
  <2>1. \A s \in SUBSET (1 .. 0) : s = {}
    OBVIOUS
  <2>2. f = [s \in SUBSET (1 .. 0) |-> After(f, s)]
    BY <2>1
  <2>3. 0 \in 0 .. n
    OBVIOUS
  <2> QED
    BY <2>2, <2>3
<1>3. ASSUME NEW m \in Nat, m < n, m \in Defined
      PROVE  m + 1 \in Defined
  <2>1. PICK f : f = [s \in SUBSET (1 .. m) |-> After(f, s)]
    BY <1>3
  <2> DEFINE g == [s \in SUBSET (1 .. m + 1) |->
                      IF m + 1 \in s THEN ApplySigner(f[s \ {m + 1}], list[m + 1])
                      ELSE f[s]]
  <2>2. ASSUME NEW s \in SUBSET (1 .. m + 1)
        PROVE  g[s] = After(g, s)
    <3>1. CASE m + 1 \in s
      <4>1. Max(s) = m + 1 /\ s \ {m + 1} \in SUBSET (1 .. m)
        BY <3>1, MaxOfInterval
      <4>2. s \ {m + 1} \in SUBSET (1 .. m + 1) /\ m + 1 \notin s \ {m + 1}
        OBVIOUS
      <4>3. g[s \ {m + 1}] = f[s \ {m + 1}]
        BY <4>2
      <4>4. g[s] = ApplySigner(f[s \ {m + 1}], list[m + 1])
        BY <3>1
      <4>5. After(g, s) = ApplySigner(g[s \ {Max(s)}], list[Max(s)])
        BY <3>1
      <4> QED
        BY <4>1, <4>3, <4>4, <4>5
    <3>2. CASE m + 1 \notin s
      <4>1. s \in SUBSET (1 .. m) /\ \A x : s \ {x} \in SUBSET (1 .. m)
        <5>1. \A i \in 1 .. m + 1 : i # m + 1 => i \in 1 .. m
          BY <1>3
        <5> HIDE DEF g
        <5> QED
          BY <2>2, <3>2, <5>1
      <4>2. g[s] = f[s]
        BY <3>2
      <4>3. s \ {Max(s)} \in SUBSET (1 .. m + 1) /\ m + 1 \notin s \ {Max(s)}
        BY <4>1, <3>2
      <4>4. g[s \ {Max(s)}] = f[s \ {Max(s)}]
        BY <4>3
      <4>5. f[s] = After(f, s)
        BY <2>1, <4>1
      <4>6. After(f, s) = After(g, s)
        BY <4>4
      <4> QED
        BY <4>2, <4>5, <4>6
    <3> QED
      BY <3>1, <3>2
  <2>3. g = [s \in SUBSET (1 .. m + 1) |-> g[s]]
    BY Zenon
  <2> HIDE DEF g
  <2>4. g = [s \in SUBSET (1 .. m + 1) |-> After(g, s)]
    <3> HIDE DEF After
    <3> QED
      BY <2>2, <2>3
  <2>5. m + 1 \in 0 .. n
    BY <1>3
  <2> QED
    BY <2>4, <2>5
<1>4. n \in Defined
  <2> HIDE DEF Defined
  <2>1. \A m \in 0 .. n : m \in Defined
    BY <1>2, <1>3, UpTo
  <2> QED
    BY <2>1
<1>5. iter = [s \in SUBSET (1 .. n) |-> After(iter, s)]
  <2>1. \E f : f = [s \in SUBSET DOMAIN list |-> After(f, s)]
    BY <1>4
  <2>2. iter = [s \in SUBSET DOMAIN list |-> After(iter, s)]
    BY <2>1, Zenon
  <2> QED
    BY <2>2
<1> HIDE DEF iter
<1> DEFINE built == [i \in 0 .. n |-> iter[1 .. i]]
<1>6. built[0] = Unconfigured(k)
  <2>1. 1 .. 0 = {} /\ {} \in SUBSET (1 .. n) /\ 0 \in 0 .. n
    OBVIOUS
  <2>2. iter[{}] = After(iter, {})
    BY <1>5, <2>1
  <2> QED
    BY <2>1, <2>2
<1>7. ASSUME NEW i \in 0 .. n - 1
      PROVE  built[i + 1] = ApplySigner(built[i], list[i + 1])
  <2>1. /\ i \in Nat /\ 1 .. i + 1 # {} /\ i + 1 \in 0 .. n /\ i \in 0 .. n
        /\ 1 .. i + 1 \in SUBSET (1 .. n)
    OBVIOUS
  <2>2. iter[1 .. i + 1] = After(iter, 1 .. i + 1)
    BY <1>5, <2>1
  <2>3. After(iter, 1 .. i + 1) = ApplySigner(iter[1 .. i], list[i + 1])
    BY <2>1, MaxOfInterval
  <2> HIDE DEF After
  <2> QED
    BY <2>1, <2>2, <2>3
<1>8. built[n] = NewSigner(k, list)
  BY <1>1
<1> HIDE DEF built
<1> QED
  BY <1>6, <1>7, <1>8

Signers == [key : SigningKeys, typ : Texts, maxSize : Int]

LEMMA ApplySignerType ==
    ASSUME NEW s \in Signers, NEW option \in Options, ValidSignerOption(option)
    PROVE  ApplySigner(s, option) \in Signers /\ ApplySigner(s, option).key = s.key
<1>1. CASE option.set = "type"
  <2>1. option.value \in Texts
    BY <1>1 DEF ValidSignerOption
  <2> QED
    BY <1>1, <2>1 DEF ApplySigner, Signers
<1>2. CASE option.set = "maxTokenSize"
  <2>1. option.value \in Int
    BY <1>2 DEF Options
  <2> QED
    BY <1>2, <2>1 DEF ApplySigner, Signers
<1> QED
  BY <1>1, <1>2 DEF ValidSignerOption

LEMMA NewSignerType ==
    ASSUME NEW k \in SigningKeys, NEW list \in SignerOptions, ValidSigner(k, list)
    PROVE  NewSigner(k, list) \in Signers /\ NewSigner(k, list).key = k
<1> DEFINE n == Len(list)
           Good(s) == s \in Signers /\ s.key = k
<1>0. list \in Seq(Options)
  BY IssuerAssumption
<1>1. n \in Nat /\ DOMAIN list = 1 .. n
  BY <1>0
<1>2. PICK built :
         /\ built[0] = Unconfigured(k)
         /\ \A i \in 0 .. n - 1 : built[i + 1] = ApplySigner(built[i], list[i + 1])
         /\ built[n] = NewSigner(k, list)
  BY <1>1, NewSignerSteps
<1> DEFINE T == {i \in 0 .. n : Good(built[i])}
<1>3. 0 \in T
  <2>1. Good(Unconfigured(k))
    BY SignersAssumption DEF Unconfigured, Signers
  <2> QED
    BY <1>1, <1>2, <2>1
<1>4. ASSUME NEW i \in Nat, i < n, i \in T
      PROVE  i + 1 \in T
  <2>1. i \in 0 .. n - 1 /\ i + 1 \in 1 .. n /\ i + 1 \in 0 .. n
    BY <1>1, <1>4
  <2>2. list[i + 1] \in Options /\ ValidSignerOption(list[i + 1])
    BY <1>0, <1>1, <2>1 DEF ValidSigner
  <2>3. Good(built[i + 1])
    BY <1>2, <1>4, <2>1, <2>2, ApplySignerType
  <2> QED
    BY <2>1, <2>3
<1> HIDE DEF T
<1>5. \A i \in 0 .. n : i \in T
  BY <1>1, <1>3, <1>4, UpTo
<1>6. n \in T
  BY <1>1, <1>5
<1> QED
  BY <1>2, <1>6 DEF T

\* A key a constructor returned: its material verifies what it signs.
LEMMA SigningKeyType ==
    ASSUME NEW k \in SigningKeys
    PROVE  /\ k.verification \in VerificationKeys /\ Initialized(k.verification)
           /\ k.verification.id \in KeyIDs \cup {NoKeyID}
           /\ k.id = k.verification.id /\ k.method = k.verification.method
           /\ k.method \in Algorithms
           /\ k.verification.material \in Material
           /\ PublicOf[SignsWith(k)] = k.verification.material
<1>1. PICK spec \in KeySpecs : Built(spec).error = "none" /\ k = Built(spec).key
  BY DEF SigningKeys
<1>2. /\ spec.id \in AnyKeyID /\ spec.method \in Algorithms \cup {NoAlgorithm}
      /\ spec.local \in DOMAIN PublicOf \cup {NilMaterial}
      /\ spec.public \in Material \cup {NilMaterial}
      /\ spec.backend \in DOMAIN PublicOf \cup {NilMaterial}
  BY IssuerAssumption
<1>3. NilMaterial \notin Material /\ DOMAIN PublicOf \subseteq Material
      /\ \A m \in DOMAIN PublicOf : PublicOf[m] \in Material \cup {NilMaterial}
  BY KeysAssumption, SignersAssumption DEF Material
<1>4. PICK material, local, backend :
         /\ Built(spec) = Signing(NewVerificationKey(spec.id, spec.method, material),
                                  local, backend)
         /\ material \in Material \cup {NilMaterial}
         /\ material # NilMaterial =>
               PublicOf[IF backend = NilMaterial THEN local ELSE backend] = material
  <2>1. CASE spec.public = NilMaterial
    <3> DEFINE m == IF spec.local = NilMaterial THEN NilMaterial
                    ELSE PublicOf[spec.local]
    <3>1. Built(spec) = Signing(NewVerificationKey(spec.id, spec.method, m),
                                spec.local, NilMaterial)
      BY <2>1 DEF Built, NewSigningKey
    <3>2. m \in Material \cup {NilMaterial}
      BY <1>2, <1>3
    <3> QED
      BY <3>1, <3>2
  <2>2. CASE spec.public # NilMaterial
    <3>1. ~ (spec.backend = NilMaterial /\ spec.id \notin OverlongKeyIDs)
      BY <1>1, <2>2 DEF Built, NewExternalSigningKey
    <3>2. Built(spec) = Signing(NewVerificationKey(spec.id, spec.method, spec.public),
                                NilMaterial, spec.backend)
      BY <2>2, <3>1 DEF Built, NewExternalSigningKey
    <3>3. spec.backend # NilMaterial
      BY <1>1, <3>1, <3>2 DEF Signing, NewVerificationKey, Failure
    <3>4. PublicOf[spec.backend] = spec.public
      BY <2>2, <3>3, IssuerAssumption
    <3> QED
      BY <1>2, <3>2, <3>3, <3>4
  <2> QED
    BY <2>1, <2>2
<1> DEFINE v == [id |-> spec.id, method |-> spec.method, material |-> material]
<1>5. /\ spec.id \notin OverlongKeyIDs /\ spec.method # NoAlgorithm
      /\ material # NilMaterial
      /\ NewVerificationKey(spec.id, spec.method, material) = Found(v)
  BY <1>1, <1>4 DEF Signing, NewVerificationKey, Failure
<1>6. k = [id |-> spec.id, method |-> spec.method, local |-> local,
           backend |-> backend, verification |-> v]
  BY <1>1, <1>4, <1>5 DEF Signing, Found
<1>7. v \in VerificationKeys
  BY <1>2, <1>4 DEF VerificationKeys
<1> QED
  BY <1>2, <1>3, <1>4, <1>5, <1>6, <1>7 DEF Initialized, SignsWith, AnyKeyID

-----------------------------------------------------------------------------
(* The key sets the issuer publishes, as the verifier has them.            *)

LEMMA PublishedType ==
    ASSUME NEW keys \in KeyLists
    PROVE  /\ KeySet(keys) /\ keys # <<>>
           /\ \A i \in DOMAIN keys :
                 /\ Initialized(keys[i]) /\ keys[i].method \in Algorithms
                 /\ keys[i].material \in Material
                 /\ keys[i].id \in KeyIDs \cup {NoKeyID}
                 /\ \E k \in SigningKeys : k.verification = keys[i]
<1>1. /\ keys \in Seq({k.verification : k \in SigningKeys})
      /\ ValidStaticKeySet(keys)
  <2>1. \/ \E k \in SigningKeys : keys = <<k.verification>>
        \/ \E k, l \in SigningKeys : keys = <<k.verification, l.verification>>
    BY DEF KeyLists
  <2> DEFINE S == {k.verification : k \in SigningKeys}
  <2>2. /\ \A k \in SigningKeys : <<k.verification>> \in Seq(S)
        /\ \A k, l \in SigningKeys : <<k.verification, l.verification>> \in Seq(S)
    <3>1. \A k \in SigningKeys : k.verification \in S
      OBVIOUS
    <3> HIDE DEF S
    <3>2. \A x \in S : <<x>> \in Seq(S)
      OBVIOUS
    <3>3. \A x, y \in S : <<x, y>> \in Seq(S)
      OBVIOUS
    <3> QED
      BY <3>1, <3>2, <3>3
  <2>3. ValidStaticKeySet(keys)
    BY DEF KeyLists
  <2> HIDE DEF S
  <2>4. keys \in Seq(S)
    BY <2>1, <2>2
  <2> QED
    BY <2>3, <2>4 DEF S
<1>2. \A i \in DOMAIN keys : \E k \in SigningKeys : keys[i] = k.verification
  BY <1>1
<1>3. \A i \in DOMAIN keys :
         /\ keys[i] \in VerificationKeys /\ Initialized(keys[i])
         /\ keys[i].method \in Algorithms /\ keys[i].material \in Material
         /\ keys[i].id \in KeyIDs \cup {NoKeyID}
  BY <1>2, SigningKeyType
<1>4. \A i \in DOMAIN keys : keys[i].id \notin OverlongKeyIDs
  BY <1>3, KeysAssumption
<1>5. keys \in Seq(VerificationKeys)
  <2>1. \A k \in SigningKeys : k.verification \in VerificationKeys
    BY SigningKeyType
  <2> QED
    BY <1>1, <2>1
<1> QED
  BY <1>1, <1>2, <1>3, <1>4, <1>5 DEF KeySet, ValidStaticKeySet

\* The verifier's module looks keys up as JWTKeys does.
LEMMA ReceiverResolves ==
    /\ \A keys, header : Receiver!StaticResolve(keys, header) = StaticResolve(keys, header)
    /\ \A keys, header : Receiver!SetResolve(keys, header) = SetResolve(keys, header)
    /\ \A k : Receiver!Initialized(k) <=> Initialized(k)
<1>1. \A e : Receiver!Failure(e) = Failure(e)
  BY Zenon DEF Receiver!Failure, Failure, Receiver!ZeroKey, ZeroKey
<1>2. \A k : Receiver!Found(k) = Found(k)
  BY Zenon DEF Receiver!Found, Found
<1>3. \A k : Receiver!Initialized(k) <=> Initialized(k)
  BY Zenon DEF Receiver!Initialized, Initialized
<1>4. \A k, header : Receiver!ResolveKey(k, header) = ResolveKey(k, header)
  BY <1>1, <1>2, <1>3 DEF Receiver!ResolveKey, ResolveKey
<1>5. \A id, method, material :
         Receiver!NewVerificationKey(id, method, material)
            = NewVerificationKey(id, method, material)
  BY <1>1, <1>2 DEF Receiver!NewVerificationKey, NewVerificationKey
<1>6. \A k : Receiver!ValidJWK(k) <=> ValidJWK(k)
  BY Zenon DEF Receiver!ValidJWK, ValidJWK
<1>7. \A k, method : Receiver!ToVerificationKey(k, method) = ToVerificationKey(k, method)
  BY <1>1, <1>5, <1>6 DEF Receiver!ToVerificationKey, ToVerificationKey
<1>8. \A keys, header : Receiver!StaticResolve(keys, header) = StaticResolve(keys, header)
  BY <1>1, <1>4 DEF Receiver!StaticResolve, StaticResolve
<1>9. \A keys, header : Receiver!SetResolve(keys, header) = SetResolve(keys, header)
  BY <1>1, <1>7 DEF Receiver!SetResolve, SetResolve
<1> QED
  BY <1>3, <1>8, <1>9

\* Either form of a published list answers as the list does.
LEMMA SourceAnswers ==
    ASSUME NEW keys \in KeyLists, NEW r \in Sources(keys), NEW header
    PROVE  Receiver!Answer(r, header) =
              [errors |-> {StaticResolve(keys, header).error} \ {"none"},
               key |-> StaticResolve(keys, header).key]
<1>1. CASE r = [kind |-> "static", keys |-> keys]
  <2>1. r.kind = "static" /\ r.keys = keys
    BY <1>1
  <2>2. Receiver!Answer(r, header) =
           [errors |-> {Receiver!StaticResolve(keys, header).error} \ {"none"},
            key |-> Receiver!StaticResolve(keys, header).key]
    BY <2>1, Zenon DEF Receiver!Answer
  <2> QED
    BY <2>2, ReceiverResolves
<1>2. CASE /\ r = [kind |-> "set", keys |-> FromStaticKeySet(keys)]
           /\ \A i \in DOMAIN keys : Exportable(keys[i])
  <2>1. r.kind = "set" /\ r.keys = FromStaticKeySet(keys) /\ "set" # "static"
    BY <1>2
  <2>2. Receiver!Answer(r, header) =
           [errors |-> {Receiver!SetResolve(FromStaticKeySet(keys), header).error}
                          \ {"none"},
            key |-> Receiver!SetResolve(FromStaticKeySet(keys), header).key]
    BY <2>1, Zenon DEF Receiver!Answer
  <2> QED
    BY <1>2, <2>2, ReceiverResolves, PublishedType, ExportAnswers
<1> QED
  BY <1>1, <1>2 DEF Sources

\* A source that has a key answers that key's header with it.
LEMMA HeldIsAnswered ==
    ASSUME NEW keys \in KeyLists, NEW r \in Sources(keys), NEW v, Holds(keys, v),
           NEW header, header.kid = v.id, header.alg = v.method
    PROVE  Receiver!Answer(r, header) = [errors |-> {}, key |-> v]
<1>1. PICK i \in DOMAIN keys : keys[i] = v
  BY DEF Holds
<1>2. KeySet(keys) /\ Initialized(v)
  BY <1>1, PublishedType
<1>3. StaticResolve(keys, header) = ResolveKey(v, header)
  BY <1>1, <1>2, StaticLookup
<1>4. ResolveKey(v, header) = Found(v)
  BY <1>2 DEF ResolveKey
<1>5. {"none"} \ {"none"} = {}
  OBVIOUS
<1> QED
  BY <1>3, <1>4, <1>5, SourceAnswers DEF Found

\* A source answers with a key only if it has it under the header's kid.
LEMMA AnsweredIsHeld ==
    ASSUME NEW keys \in KeyLists, NEW r \in Sources(keys), NEW header,
           Receiver!Answer(r, header).errors = {}
    PROVE  \E i \in DOMAIN keys : /\ Receiver!Answer(r, header).key = keys[i]
                                  /\ keys[i].id = header.kid
<1>1. StaticResolve(keys, header).error = "none"
  BY SourceAnswers
<1>2. PICK i \in DOMAIN keys : /\ keys[i].id = header.kid
                               /\ StaticResolve(keys, header) = Found(keys[i])
  BY <1>1, PublishedType, StaticAnswer
<1> QED
  BY <1>2, SourceAnswers DEF Found

\* The names it knows its keys by.
LEMMA SourceNames ==
    ASSUME NEW keys \in KeyLists, NEW r \in Sources(keys)
    PROVE  Names(r) = {[name |-> keys[i].id, key |-> keys[i].material] :
                          i \in DOMAIN keys}
<1>1. CASE r = [kind |-> "static", keys |-> keys]
  <2>1. r.kind = "static" /\ r.kind # "set" /\ r.keys = keys
    BY <1>1
  <2> QED
    BY <2>1 DEF Names
<1>2. CASE /\ r = [kind |-> "set", keys |-> FromStaticKeySet(keys)]
           /\ \A i \in DOMAIN keys : Exportable(keys[i])
  <2>1. r.kind = "set" /\ r.keys = FromStaticKeySet(keys)
    BY <1>2
  <2>2. /\ DOMAIN FromStaticKeySet(keys) = DOMAIN keys
        /\ \A i \in DOMAIN keys :
              /\ FromStaticKeySet(keys)[i].keyID = keys[i].id
              /\ FromStaticKeySet(keys)[i].material = keys[i].material
    BY DEF FromStaticKeySet, FromVerificationKey
  <2> HIDE DEF FromStaticKeySet
  <2> QED
    BY <2>1, <2>2 DEF Names
<1> QED
  BY <1>1, <1>2 DEF Sources

-----------------------------------------------------------------------------
(* The inductive invariant.                                                *)

\* What Window says of one instant.
Within(cs, cfg, now) ==
    /\ now < cs.exp + cfg.leeway
    /\ cs.nbf = Absent \/ now >= cs.nbf - cfg.leeway
    /\ cfg.maxAge = 0 \/ now <= cs.iat + cfg.maxAge + cfg.leeway

\* The claims are, or will be, acceptable at some time.
Live(cs, cfg, now) == \E t \in Times : t >= now /\ Within(cs, cfg, t)

Has(r, v) == \E keys \in KeyLists : r \in Sources(keys) /\ Holds(keys, v)

\* Whoever needs the key v finds it, with the issuer and with the verifier.
Served(v, keys, r) == Holds(keys, v) /\ Has(r, v)

\* What was signed with the key v, if it matters still.
Provided(v, cs, keys, r, cfg, now) ==
    /\ cs \in AllClaims /\ cs.iat <= now
    /\ Live(cs, cfg, now) => Served(v, keys, r)

IssuerInv(s, keys, r, cfg, now) ==
    /\ s \in Signers /\ keys \in KeyLists /\ r \in AllSources
    /\ cfg \in Configurations /\ now \in Times
    /\ Served(s.key.verification, keys, r)

CallOfSign(call, keys, r, cfg, now) ==
    \/ call = Idle
    \/ /\ call.signer \in Signers
       /\ Provided(call.signer.key.verification, call.claims, keys, r, cfg, now)

SigningInv(workers, keys, r, cfg, now) ==
    /\ DOMAIN workers = Workers
    /\ \A w \in Workers : CallOfSign(workers[w], keys, r, cfg, now)

\* A token made with the key k.
Minted(k, t) ==
    /\ t.size \in Sizes /\ t.wellFormed /\ t.encoded
    /\ t.header.alg = k.method /\ t.header.kid = k.id
    /\ t.header.typ \in Texts /\ t.header.extra = {}
    /\ t.signer = k.verification.material

Genuine(t, keys, r, cfg, now) ==
    \E k \in SigningKeys : /\ Minted(k, t)
                           /\ Provided(k.verification, t.claims, keys, r, cfg, now)

TokenShape(v) ==
    /\ DOMAIN v = {"token", "altered"}
    /\ DOMAIN v.token = {"size", "wellFormed", "header", "claims", "encoded", "signer"}

WireInv(tokens, keys, r, cfg, now) ==
    \A v \in tokens :
        /\ TokenShape(v)
        /\ \/ v.altered = TRUE /\ v.token.signer = NilMaterial
           \/ v.altered = FALSE /\ Genuine(v.token, keys, r, cfg, now)

\* The call saw an instant at which the claims are not acceptable.
Missed(c) == \E now \in clocks[c] : ~ Within(token[c].claims, config, now)

\* An unaltered token the verifier agrees with.
Agreed(c) == token[c].signer # NilMaterial /\ Agreement(token[c])

InCall(c) == pc[c] \in {"resolving", "verifying", "policy"}

CallInv(c) ==
    /\ pc[c] \in {"idle", "resolving", "verifying", "policy", "accepted", "rejected"}
    /\ pc[c] = "idle" => calls[c] = 0 /\ claims[c] = Receiver!NewClaims
    /\ pc[c] # "idle" => calls[c] = 1 /\ \E v \in wire : v.token = token[c]
    /\ InCall(c) => clock \in clocks[c] /\ registry \in seen[c]
    /\ clocks[c] \subseteq Times /\ seen[c] \subseteq AllSources
    /\ pc[c] \in {"resolving", "verifying", "policy", "accepted"} =>
          claims[c] = Receiver!DecodeOver(Receiver!NewClaims, token[c].claims)
    /\ pc[c] \in {"verifying", "policy", "accepted"} =>
          \E r \in seen[c] :
              /\ Receiver!Answer(r, token[c].header).errors = {}
              /\ Receiver!Answer(r, token[c].header).key = found[c]
    /\ pc[c] = "verifying" /\ Agreed(c) =>
          found[c].material = token[c].signer \/ Missed(c)
    /\ pc[c] \in {"policy", "accepted"} => found[c].material = token[c].signer
    /\ pc[c] = "rejected" /\ Agreed(c) => Missed(c)

PerCaller ==
    /\ DOMAIN pc = Callers /\ DOMAIN calls = Callers /\ DOMAIN token = Callers
    /\ DOMAIN claims = Callers /\ DOMAIN found = Callers /\ DOMAIN errors = Callers
    /\ DOMAIN blank = Callers /\ DOMAIN seen = Callers /\ DOMAIN clocks = Callers

CallsInv == PerCaller /\ \A c \in Callers : CallInv(c)

WorldInv == /\ IssuerInv(signer, published, registry, config, clock)
            /\ SigningInv(signing, published, registry, config, clock)
            /\ WireInv(wire, published, registry, config, clock)

IInv == WorldInv /\ CallsInv

-----------------------------------------------------------------------------
(* Claims and their times.                                                 *)

LEMMA ClaimsType ==
    ASSUME NEW cs \in AllClaims
    PROVE  /\ cs.iat \in Times /\ cs.iat \in Int /\ cs.exp \in Int /\ cs.exp > cs.iat
           /\ cs.nbf = Absent \/ cs.nbf \in Int
           /\ Receiver!DecodeOver(Receiver!NewClaims, cs) = cs
<1>1. PICK shape \in Shapes, now \in Times : cs = Dated(shape, now)
  BY DEF AllClaims
<1>2. shape.start \in Nat /\ shape.life \in Nat \ {0} /\ now \in Int
  BY IssuerAssumption, ReceiverAssumption
<1>3. cs = [exp |-> now + shape.start + shape.life,
            nbf |-> IF shape.start = 0 THEN Absent ELSE now + shape.start,
            iat |-> now, iss |-> NoText, sub |-> NoText, aud |-> {},
            selfValid |-> TRUE]
  BY <1>1 DEF Dated, Receiver!NewClaims
<1>4. Receiver!DecodeOver(Receiver!NewClaims, cs) =
         [exp |-> cs.exp, nbf |-> cs.nbf, iat |-> cs.iat, iss |-> cs.iss,
          sub |-> cs.sub, aud |-> cs.aud, selfValid |-> cs.selfValid]
  BY <1>3, ReceiverAssumption DEF Receiver!DecodeOver, Receiver!NewClaims
<1>5. Receiver!DecodeOver(Receiver!NewClaims, cs) = cs
  BY <1>3, <1>4
<1> QED
  BY <1>2, <1>3, <1>5

LEMMA ConfigurationType ==
    ASSUME NEW cfg \in Configurations
    PROVE  /\ cfg.leeway \in Nat /\ cfg.maxAge \in Nat /\ cfg.maxLifetime \in Nat
           /\ cfg.methods \subseteq Algorithms
  BY ReceiverAssumption DEF Receiver!Configs

\* What the validator finds wrong with the issuer's claims is a matter of time.
LEMMA TimelyClaims ==
    ASSUME NEW cs \in AllClaims, NEW cfg \in Configurations, NEW now \in Times,
           cs.iat <= now, Within(cs, cfg, now), ~ Receiver!ClaimsInvalid(cfg, cs)
    PROVE  Receiver!ClaimsErrors(cfg, cs, now) = {}
<1>1. now \in Int /\ cfg.leeway \in Nat
  BY ReceiverAssumption, ConfigurationType
<1>2. ~ Receiver!Expired(cfg, cs, now)
  BY <1>1, ClaimsType DEF Receiver!Expired, Within
<1>3. ~ Receiver!NotValidYet(cfg, cs, now)
  BY <1>1, ClaimsType, ReceiverAssumption DEF Receiver!NotValidYet, Within
<1>4. ~ Receiver!UsedBeforeIssued(cfg, cs, now)
  BY <1>1, ClaimsType DEF Receiver!UsedBeforeIssued
<1> QED
  BY <1>2, <1>3, <1>4 DEF Receiver!ClaimsErrors, Receiver!ValidatorErrors

LEMMA TimelyLifetime ==
    ASSUME NEW cs \in AllClaims, NEW cfg \in Configurations, NEW now \in Times,
           cs.iat <= now, Within(cs, cfg, now),
           cfg.maxLifetime = 0 \/ cs.exp - cs.iat <= cfg.maxLifetime
    PROVE  Receiver!ValidateLifetime(cfg, cs, now) = "none"
<1>1. /\ now \in Int /\ cfg.leeway \in Nat /\ cfg.maxAge \in Nat
      /\ cfg.maxLifetime \in Nat
  BY ReceiverAssumption, ConfigurationType
<1>2. cs.iat \notin {Absent, Unreadable}
  BY ClaimsType, ReceiverAssumption
<1>3. ~ Receiver!IssuedInFuture(cfg, cs, now)
  BY <1>1, ClaimsType DEF Receiver!IssuedInFuture
<1>4. ~ Receiver!TooOld(cfg, cs, now)
  BY <1>1, ClaimsType DEF Receiver!TooOld, Within
<1>5. ~ Receiver!LivesTooLong(cfg, cs)
  BY <1>1, ClaimsType DEF Receiver!LivesTooLong
<1> QED
  BY <1>2, <1>3, <1>4, <1>5 DEF Receiver!ValidateLifetime

\* What is over stays over.
LEMMA LiveEarlier ==
    ASSUME NEW cs, NEW cfg, NEW now \in Int, NEW later \in Int, now <= later,
           Live(cs, cfg, later)
    PROVE  Live(cs, cfg, now)
  BY ReceiverAssumption DEF Live

\* The present is an instant at which claims are acceptable, or not.
LEMMA LiveNow ==
    ASSUME NEW cs, NEW cfg, NEW now \in Times, Within(cs, cfg, now)
    PROVE  Live(cs, cfg, now)
  BY ReceiverAssumption DEF Live

\* What passes the checks before a key is asked for.
LEMMA AgreedPassesEarly ==
    ASSUME config \in Configurations, NEW k \in SigningKeys, NEW t, Minted(k, t),
           Agreement(t)
    PROVE  Receiver!EarlyErrors(t) = {} /\ Receiver!RawTokenErrors(t) = {}
<1>1. t.size \in Nat \ {0} /\ t.size <= MaxTokenSize
  BY IssuerAssumption DEF Minted, Agreement
<1>2. Receiver!RawTokenErrors(t) = {}
  BY <1>1, ReceiverAssumption DEF Receiver!RawTokenErrors
<1>3. k.id \in KeyIDs \cup {NoKeyID} /\ k.method \in Algorithms
  BY SigningKeyType
<1>4. Receiver!HeaderValid(t.header)
  <2>1. t.header.kid \notin OverlongKeyIDs
    BY <1>3, KeysAssumption DEF Minted
  <2>2. t.header.kid # NotAString /\ t.header.typ # NotAString
    BY <1>3, ReceiverAssumption DEF Minted, AnyKeyID
  <2> QED
    BY <2>1, <2>2 DEF Receiver!HeaderValid, Minted
<1>5. Receiver!ParseErrors(t) = {}
  BY <1>3, <1>4 DEF Receiver!ParseErrors, Minted, Agreement
<1> QED
  BY <1>2, <1>5 DEF Receiver!EarlyErrors

-----------------------------------------------------------------------------
(* The issuer, its application and the transport.                          *)

LEMMA ProvidedKept ==
    ASSUME NEW v, NEW cs, NEW keys, NEW r, NEW cfg, NEW now \in Times,
           NEW keys2, NEW r2, NEW now2 \in Times, now <= now2,
           Provided(v, cs, keys, r, cfg, now),
           Served(v, keys, r) => Served(v, keys2, r2) \/ ~ Live(cs, cfg, now2)
    PROVE  Provided(v, cs, keys2, r2, cfg, now2)
<1>1. now \in Int /\ now2 \in Int /\ cs.iat \in Int
  BY ReceiverAssumption, ClaimsType DEF Provided
<1>2. cs \in AllClaims /\ cs.iat <= now2
  BY <1>1 DEF Provided
<1>3. Live(cs, cfg, now2) => Served(v, keys, r)
  BY <1>1, LiveEarlier DEF Provided
<1> QED
  BY <1>2, <1>3 DEF Provided

\* A change of the world in which whatever was served is served.
LEMMA WorldKept ==
    ASSUME NEW keys, NEW r, NEW cfg, NEW now \in Times,
           NEW keys2, NEW r2, NEW now2 \in Times, now <= now2,
           \A v : Served(v, keys, r) => Served(v, keys2, r2)
    PROVE  /\ \A workers : SigningInv(workers, keys, r, cfg, now)
                              => SigningInv(workers, keys2, r2, cfg, now2)
           /\ \A tokens : WireInv(tokens, keys, r, cfg, now)
                              => WireInv(tokens, keys2, r2, cfg, now2)
<1>1. \A v, cs : Provided(v, cs, keys, r, cfg, now)
                    => Provided(v, cs, keys2, r2, cfg, now2)
  BY ProvidedKept
<1>2. \A t : Genuine(t, keys, r, cfg, now) => Genuine(t, keys2, r2, cfg, now2)
  BY <1>1 DEF Genuine
<1>3. \A call : CallOfSign(call, keys, r, cfg, now)
                   => CallOfSign(call, keys2, r2, cfg, now2)
  BY <1>1 DEF CallOfSign
<1> QED
  BY <1>2, <1>3 DEF SigningInv, WireInv

LEMMA SourcesHave ==
    ASSUME NEW keys \in KeyLists, NEW r \in Sources(keys)
    PROVE  r \in AllSources /\ \A v : Holds(keys, v) => Has(r, v)
  BY DEF AllSources, Has

LEMMA InitWorld == Init => WorldInv
<1> SUFFICES ASSUME Init PROVE WorldInv
  OBVIOUS
<1>1. PICK k \in SigningKeys, list \in SignerOptions :
         /\ ValidSigner(k, list) /\ signer = NewSigner(k, list)
         /\ published = <<k.verification>> /\ ValidStaticKeySet(published)
  BY DEF Init
<1>2. signer \in Signers /\ signer.key = k
  BY <1>1, NewSignerType
<1>3. published \in KeyLists
  BY <1>1 DEF KeyLists
<1>4. Holds(published, k.verification)
  BY <1>1 DEF Holds
<1>5. registry \in AllSources /\ Has(registry, k.verification)
  BY <1>3, <1>4, SourcesHave DEF Init
<1>6. config \in Configurations /\ clock \in Times
  BY DEF Init, Receiver!Init
<1>7. SigningInv(signing, published, registry, config, clock)
  BY DEF Init, SigningInv, CallOfSign
<1>8. WireInv(wire, published, registry, config, clock)
  BY DEF Init, WireInv
<1> QED
  BY <1>2, <1>3, <1>4, <1>5, <1>6, <1>7, <1>8 DEF WorldInv, IssuerInv, Served

LEMMA WorldUnchanged ==
    ASSUME WorldInv, UNCHANGED <<signer, published, signing, wire, config, registry, clock>>
    PROVE  WorldInv'
  BY DEF WorldInv

LEMMA IntroduceWorld ==
    ASSUME WorldInv, NEW k \in SigningKeys, Introduce(k)
    PROVE  WorldInv'
<1>1. /\ published' = Append(published, k.verification) /\ published' \in KeyLists
      /\ UNCHANGED <<signer, signing, wire, config, registry, clock>>
  BY DEF Introduce, receiverVars
<1>2. published \in Seq(VerificationKeys)
  BY PublishedType DEF WorldInv, IssuerInv, KeySet
<1>3. \A i \in DOMAIN published :
         i \in DOMAIN published' /\ published'[i] = published[i]
  BY <1>1, <1>2
<1>4. \A v : Holds(published, v) => Holds(published', v)
  BY <1>3 DEF Holds
<1>5. \A v : Served(v, published, registry) => Served(v, published', registry)
  BY <1>4 DEF Served
<1>6. clock \in Times /\ clock <= clock
  BY ReceiverAssumption DEF WorldInv, IssuerInv
<1>7. /\ SigningInv(signing, published', registry, config, clock)
      /\ WireInv(wire, published', registry, config, clock)
  BY <1>5, <1>6, WorldKept DEF WorldInv
<1> QED
  BY <1>1, <1>5, <1>7 DEF WorldInv, IssuerInv

LEMMA FetchWorld ==
    ASSUME WorldInv, Fetch
    PROVE  WorldInv'
<1>1. /\ registry' \in Sources(published)
      /\ UNCHANGED <<signer, published, signing, wire, config, clock>>
  BY DEF Fetch, issuerVars, Receiver!ChangeRegistry
<1>2. published \in KeyLists
  BY DEF WorldInv, IssuerInv
<1>3. registry' \in AllSources
      /\ \A v : Served(v, published, registry) => Served(v, published, registry')
  BY <1>1, <1>2, SourcesHave DEF Served
<1>4. clock \in Times /\ clock <= clock
  BY ReceiverAssumption DEF WorldInv, IssuerInv
<1>5. /\ SigningInv(signing, published, registry', config, clock)
      /\ WireInv(wire, published, registry', config, clock)
  BY <1>3, <1>4, WorldKept DEF WorldInv
<1> QED
  BY <1>1, <1>3, <1>5 DEF WorldInv, IssuerInv

LEMMA TickWorld ==
    ASSUME WorldInv, Tick
    PROVE  WorldInv'
<1>1. /\ clock' = clock + 1 /\ clock' \in Times
      /\ UNCHANGED <<signer, published, signing, wire, config, registry>>
  BY DEF Tick, issuerVars, Receiver!MoveClock
<1>2. clock \in Times /\ clock <= clock'
  BY <1>1, ReceiverAssumption DEF WorldInv, IssuerInv
<1>3. /\ SigningInv(signing, published, registry, config, clock')
      /\ WireInv(wire, published, registry, config, clock')
  BY <1>1, <1>2, WorldKept DEF WorldInv
<1> QED
  BY <1>1, <1>3 DEF WorldInv, IssuerInv

LEMMA AdoptWorld ==
    ASSUME WorldInv, NEW k \in SigningKeys, Adopt(k)
    PROVE  WorldInv'
<1>1. PICK list \in SignerOptions :
         ValidSigner(k, list) /\ signer' = NewSigner(k, list)
  BY DEF Adopt
<1>2. signer' \in Signers /\ signer'.key = k
  BY <1>1, NewSignerType
<1>3. UNCHANGED <<published, signing, wire, config, registry, clock>>
  BY DEF Adopt, receiverVars
<1>4. Served(k.verification, published, registry)
  BY SourcesHave DEF Adopt, Distributed, Served, WorldInv, IssuerInv
<1> QED
  BY <1>2, <1>3, <1>4 DEF WorldInv, IssuerInv

LEMMA SignWorld ==
    ASSUME WorldInv, NEW w \in Workers, NEW shape \in Shapes, Sign(w, shape)
    PROVE  WorldInv'
<1> DEFINE call == [signer |-> signer, claims |-> Dated(shape, clock)]
<1>1. /\ signing' = [signing EXCEPT ![w] = call]
      /\ UNCHANGED <<signer, published, wire, config, registry, clock>>
  BY DEF Sign, receiverVars
<1>2. Dated(shape, clock) \in AllClaims /\ Dated(shape, clock).iat = clock
  <2>1. clock \in Times
    BY DEF WorldInv, IssuerInv
  <2>2. Dated(shape, clock) \in AllClaims
    BY <2>1 DEF AllClaims
  <2>3. Dated(shape, clock).iat = clock
    BY DEF Dated, Receiver!NewClaims
  <2> QED
    BY <2>2, <2>3
<1>3. clock <= clock
  BY ReceiverAssumption DEF WorldInv, IssuerInv
<1>4. CallOfSign(call, published, registry, config, clock)
  BY <1>2, <1>3 DEF CallOfSign, Provided, WorldInv, IssuerInv
<1>5. SigningInv(signing', published, registry, config, clock)
  <2> HIDE DEF call
  <2> QED
    BY <1>1, <1>4 DEF SigningInv, WorldInv
<1> QED
  BY <1>1, <1>5 DEF WorldInv

\* What Issue puts on the wire.
LEMMA IssuedToken ==
    ASSUME WorldInv, NEW w \in Workers, Issue(w), wire' # wire
    PROVE  \E u : /\ wire' = wire \cup {u} /\ TokenShape(u) /\ u.altered = FALSE
                  /\ Genuine(u.token, published, registry, config, clock)
<1> DEFINE call == signing[w]
<1>1. ASSUME NEW size \in Sizes,
             wire' = wire \cup {[token |-> Signed(call.signer, call.claims, size),
                                 altered |-> FALSE]}
      PROVE  \E u : /\ wire' = wire \cup {u} /\ TokenShape(u) /\ u.altered = FALSE
                    /\ Genuine(u.token, published, registry, config, clock)
  <2>1. /\ call.signer \in Signers
        /\ Provided(call.signer.key.verification, call.claims, published, registry,
                    config, clock)
    BY DEF Issue, WorldInv, SigningInv, CallOfSign
  <2> DEFINE t == Signed(call.signer, call.claims, size)
  <2>2. call.signer.key \in SigningKeys /\ call.signer.typ \in Texts
    BY <2>1 DEF Signers
  <2>3. /\ Minted(call.signer.key, t) /\ t.claims = call.claims
        /\ TokenShape([token |-> t, altered |-> FALSE])
    <3>1. t = [size |-> size, wellFormed |-> TRUE, header |-> SignerHeader(call.signer),
               claims |-> call.claims, encoded |-> TRUE,
               signer |-> PublicOf[SignsWith(call.signer.key)]]
      BY DEF Signed
    <3>2. SignerHeader(call.signer) =
             [alg |-> call.signer.key.method, kid |-> call.signer.key.id,
              typ |-> call.signer.typ, extra |-> {}]
      BY DEF SignerHeader
    <3> HIDE DEF t, call
    <3> QED
      BY <2>2, <3>1, <3>2, SigningKeyType DEF Minted, TokenShape
  <2>4. Genuine(t, published, registry, config, clock)
    BY <2>1, <2>2, <2>3 DEF Genuine
  <2>5. PICK u : /\ wire' = wire \cup {u} /\ TokenShape(u)
                 /\ u.altered = FALSE /\ u.token = t
    <3> DEFINE r == [token |-> t, altered |-> FALSE]
    <3>1. wire' = wire \cup {r} /\ TokenShape(r)
      BY <1>1, <2>3
    <3> HIDE DEF t
    <3>2. r.altered = FALSE /\ r.token = t
      OBVIOUS
    <3> HIDE DEF r
    <3> QED
      BY <3>1, <3>2
  <2> HIDE DEF t
  <2> QED
    BY <2>4, <2>5
<1> QED
  BY <1>1 DEF Issue

LEMMA IssueWorld ==
    ASSUME WorldInv, NEW w \in Workers, Issue(w)
    PROVE  WorldInv'
<1>1. /\ signing' = [signing EXCEPT ![w] = Idle]
      /\ UNCHANGED <<signer, published, config, registry, clock>>
  BY DEF Issue, receiverVars
<1>2. SigningInv(signing', published, registry, config, clock)
  BY <1>1 DEF SigningInv, CallOfSign, WorldInv
<1>3. WireInv(wire', published, registry, config, clock)
  BY IssuedToken DEF WireInv, WorldInv
<1> QED
  BY <1>1, <1>2, <1>3 DEF WorldInv, IssuerInv

\* What Alter puts there: no key has signed it.
LEMMA AlteredToken ==
    ASSUME WorldInv, NEW v \in wire, Alter(v)
    PROVE  \E u : /\ wire' = wire \cup {u} /\ TokenShape(u)
                  /\ u.altered = TRUE /\ u.token.signer = NilMaterial
<1>0. TokenShape(v)
  BY DEF WorldInv, WireInv
<1> DEFINE broken == [v EXCEPT !.altered = TRUE, !.token.signer = NilMaterial]
<1>1. /\ DOMAIN broken = DOMAIN v /\ DOMAIN broken.token = DOMAIN v.token
      /\ broken.altered = TRUE /\ broken.token.signer = NilMaterial
  BY <1>0 DEF TokenShape
<1>2. TokenShape(broken)
  BY <1>0, <1>1 DEF TokenShape
<1> HIDE DEF broken
<1>3. ASSUME NEW k, wire' = wire \cup {[broken EXCEPT !.token.header.kid = k]}
      PROVE  \E u : /\ wire' = wire \cup {u} /\ TokenShape(u)
                    /\ u.altered = TRUE /\ u.token.signer = NilMaterial
  <2> DEFINE u == [broken EXCEPT !.token.header.kid = k]
  <2>1. /\ DOMAIN u = DOMAIN broken /\ DOMAIN u.token = DOMAIN broken.token
        /\ u.altered = broken.altered /\ u.token.signer = broken.token.signer
    BY <1>2 DEF TokenShape
  <2>2. TokenShape(u)
    BY <1>2, <2>1 DEF TokenShape
  <2> QED
    BY <1>1, <1>3, <2>1, <2>2
<1>4. ASSUME wire' = wire \cup {[broken EXCEPT !.token.claims.exp = @ + 1]}
      PROVE  \E u : /\ wire' = wire \cup {u} /\ TokenShape(u)
                    /\ u.altered = TRUE /\ u.token.signer = NilMaterial
  <2> DEFINE u == [broken EXCEPT !.token.claims.exp = @ + 1]
  <2>1. /\ DOMAIN u = DOMAIN broken /\ DOMAIN u.token = DOMAIN broken.token
        /\ u.altered = broken.altered /\ u.token.signer = broken.token.signer
    BY <1>2 DEF TokenShape
  <2>2. TokenShape(u)
    BY <1>2, <2>1 DEF TokenShape
  <2> QED
    BY <1>1, <1>4, <2>1, <2>2
<1> QED
  BY <1>3, <1>4 DEF Alter, broken

LEMMA AlterWorld ==
    ASSUME WorldInv, NEW v \in wire, Alter(v)
    PROVE  WorldInv'
<1>1. UNCHANGED <<signer, published, signing, config, registry, clock>>
  BY DEF Alter, receiverVars
<1>2. WireInv(wire', published, registry, config, clock)
  BY AlteredToken DEF WorldInv, WireInv
<1> QED
  BY <1>1, <1>2 DEF WorldInv, IssuerInv

LEMMA WindowWithin == \A cs : Window(cs) = {t \in Times : Within(cs, config, t)}
  BY DEF Window, Within

LEMMA RetireWorld ==
    ASSUME WorldInv, NEW k \in SigningKeys, Retire(k)
    PROVE  WorldInv'
<1> DEFINE gone == k.verification
<1>1. /\ published' \in KeyLists
      /\ {published'[i] : i \in DOMAIN published'}
            = {published[i] : i \in DOMAIN published} \ {gone}
      /\ gone # signer.key.verification
      /\ UNCHANGED <<signer, signing, wire, config, registry, clock>>
  BY DEF Retire, receiverVars
<1>2. \A v : v # gone /\ Served(v, published, registry) => Served(v, published', registry)
  <2>1. \A v : Holds(published, v) <=> v \in {published[i] : i \in DOMAIN published}
    BY DEF Holds
  <2>2. \A v : Holds(published', v) <=> v \in {published'[i] : i \in DOMAIN published'}
    BY DEF Holds
  <2> QED
    BY <1>1, <2>1, <2>2 DEF Served
<1>3. \A cs \in ClaimsUnder(k) : ~ Live(cs, config, clock)
  <2>1. \A cs \in ClaimsUnder(k) : \A now \in Times : Within(cs, config, now) => now < clock
    BY WindowWithin DEF Retire
  <2> QED
    BY <2>1, ReceiverAssumption DEF Live, WorldInv, IssuerInv
<1>4. clock \in Times /\ clock <= clock
  BY ReceiverAssumption DEF WorldInv, IssuerInv
<1>5. ASSUME NEW v, NEW cs, Provided(v, cs, published, registry, config, clock),
             v = gone => cs \in ClaimsUnder(k)
      PROVE  Provided(v, cs, published', registry, config, clock)
  BY <1>2, <1>3, <1>5 DEF Provided
<1>6. SigningInv(signing, published', registry, config, clock)
  <2> SUFFICES ASSUME NEW w \in Workers, signing[w] # Idle
               PROVE  CallOfSign(signing[w], published', registry, config, clock)
    BY DEF SigningInv, WorldInv, CallOfSign
  <2>1. /\ signing[w].signer \in Signers
        /\ Provided(signing[w].signer.key.verification, signing[w].claims,
                    published, registry, config, clock)
    BY DEF SigningInv, WorldInv, CallOfSign
  <2>2. signing[w].signer.key.verification = gone => signing[w].claims \in ClaimsUnder(k)
    BY DEF ClaimsUnder
  <2> QED
    BY <1>5, <2>1, <2>2 DEF CallOfSign
<1>7. WireInv(wire, published', registry, config, clock)
  <2> SUFFICES ASSUME NEW u \in wire, Genuine(u.token, published, registry, config, clock)
               PROVE  Genuine(u.token, published', registry, config, clock)
    BY DEF WireInv, WorldInv
  <2>1. PICK l \in SigningKeys :
           /\ Minted(l, u.token)
           /\ Provided(l.verification, u.token.claims, published, registry, config, clock)
    BY DEF Genuine
  <2>2. l.verification = gone => u.token.claims \in ClaimsUnder(k)
    BY <2>1 DEF ClaimsUnder, Minted
  <2>3. Provided(l.verification, u.token.claims, published', registry, config, clock)
    BY <1>5, <2>1, <2>2
  <2> QED
    BY <2>1, <2>3 DEF Genuine
<1>8. Served(signer.key.verification, published', registry)
  BY <1>1, <1>2 DEF WorldInv, IssuerInv
<1> QED
  BY <1>1, <1>4, <1>6, <1>7, <1>8 DEF WorldInv, IssuerInv


-----------------------------------------------------------------------------
(* The calls of the verifier.                                              *)

ReceiverCalls == <<pc, calls, token, claims, found, errors, blank, seen, clocks>>

LEMMA InitCalls == Init => CallsInv
<1> SUFFICES ASSUME Init PROVE CallsInv
  OBVIOUS
<1>1. /\ pc = [c \in Callers |-> "idle"] /\ calls = [c \in Callers |-> 0]
      /\ token = [c \in Callers |-> Receiver!NoToken]
      /\ claims = [c \in Callers |-> Receiver!NewClaims]
      /\ found = [c \in Callers |-> Receiver!ZeroKey]
      /\ errors = [c \in Callers |-> {}] /\ blank = [c \in Callers |-> TRUE]
      /\ seen = [c \in Callers |-> {}] /\ clocks = [c \in Callers |-> {}]
  BY DEF Init, Receiver!Init
<1>2. \A c \in Callers : CallInv(c)
  BY <1>1 DEF CallInv, InCall
<1> QED
  BY <1>1, <1>2 DEF CallsInv, PerCaller

\* Whatever happens around a call leaves what is known of it true.
LEMMA KeptCall ==
    ASSUME NEW c, CallInv(c),
           /\ pc'[c] = pc[c] /\ calls'[c] = calls[c] /\ token'[c] = token[c]
           /\ claims'[c] = claims[c] /\ found'[c] = found[c],
           config' = config, wire \subseteq wire',
           seen[c] \subseteq seen'[c] /\ seen'[c] \subseteq AllSources,
           clocks[c] \subseteq clocks'[c] /\ clocks'[c] \subseteq Times,
           InCall(c) => clock' \in clocks'[c] /\ registry' \in seen'[c]
    PROVE  CallInv(c)'
<1>1. InCall(c)' <=> InCall(c)
  BY DEF InCall
<1>2. Agreed(c)' <=> Agreed(c)
  <2>1. (token[c].signer # NilMaterial)' <=> token[c].signer # NilMaterial
    OBVIOUS
  <2>2. Agreement(token[c])' <=> Agreement(token[c])
    BY DEF Agreement
  <2> QED
    BY <2>1, <2>2 DEF Agreed
<1>3. Missed(c) => Missed(c)'
  BY DEF Missed, Within
<1>4. /\ pc[c] \in {"idle", "resolving", "verifying", "policy", "accepted", "rejected"}
      /\ pc[c] = "idle" => calls[c] = 0 /\ claims[c] = Receiver!NewClaims
      /\ pc[c] # "idle" => calls[c] = 1 /\ \E v \in wire' : v.token = token[c]
  BY DEF CallInv
<1>5. /\ pc[c] \in {"resolving", "verifying", "policy", "accepted"} =>
            claims[c] = Receiver!DecodeOver(Receiver!NewClaims, token[c].claims)
      /\ pc[c] \in {"verifying", "policy", "accepted"} =>
            \E r \in seen'[c] :
               /\ Receiver!Answer(r, token[c].header).errors = {}
               /\ Receiver!Answer(r, token[c].header).key = found[c]
  BY DEF CallInv
<1>6. /\ pc[c] = "verifying" /\ Agreed(c)' =>
            found[c].material = token[c].signer \/ Missed(c)'
      /\ pc[c] \in {"policy", "accepted"} => found[c].material = token[c].signer
      /\ pc[c] = "rejected" /\ Agreed(c)' => Missed(c)'
  BY <1>2, <1>3 DEF CallInv
<1> HIDE DEF Agreed, Missed, InCall
<1> QED
  BY <1>1, <1>4, <1>5, <1>6 DEF CallInv

\* The steps of the issuer, its application and the transport.
LEMMA CallsKept ==
    ASSUME CallsInv, wire \subseteq wire', UNCHANGED receiverVars
    PROVE  CallsInv'
<1>1. UNCHANGED <<config, registry, clock>> /\ UNCHANGED ReceiverCalls
  BY DEF receiverVars, ReceiverCalls
<1>2. ASSUME NEW c \in Callers
      PROVE  CallInv(c)'
  <2>1. /\ pc'[c] = pc[c] /\ calls'[c] = calls[c] /\ token'[c] = token[c]
        /\ claims'[c] = claims[c] /\ found'[c] = found[c]
        /\ seen[c] \subseteq seen'[c] /\ clocks[c] \subseteq clocks'[c]
    BY <1>1 DEF ReceiverCalls
  <2>2. CallInv(c)
    BY DEF CallsInv
  <2>3. seen'[c] \subseteq AllSources /\ clocks'[c] \subseteq Times
    BY <1>1, <2>2 DEF CallInv, ReceiverCalls
  <2>4. InCall(c) => clock' \in clocks'[c] /\ registry' \in seen'[c]
    BY <1>1, <2>2 DEF CallInv, ReceiverCalls
  <2> QED
    BY <1>1, <2>1, <2>2, <2>3, <2>4, KeptCall
<1> QED
  BY <1>1, <1>2 DEF CallsInv, PerCaller, ReceiverCalls

LEMMA FetchCalls ==
    ASSUME WorldInv, CallsInv, Fetch
    PROVE  CallsInv'
<1>1. /\ seen' = [c \in Callers |-> IF Receiver!InProgress(c) THEN seen[c] \cup {registry'}
                                    ELSE seen[c]]
      /\ UNCHANGED <<config, clock, pc, calls, token, claims, found, errors, blank, clocks>>
      /\ UNCHANGED wire /\ registry' \in Sources(published)
  BY DEF Fetch, issuerVars, Receiver!ChangeRegistry
<1>2. registry' \in AllSources
  BY <1>1, SourcesHave DEF WorldInv, IssuerInv
<1>3. ASSUME NEW c \in Callers
      PROVE  CallInv(c)'
  <2>1. CallInv(c)
    BY DEF CallsInv
  <2>2. Receiver!InProgress(c) <=> InCall(c)
    BY DEF Receiver!InProgress, InCall
  <2>3. /\ seen[c] \subseteq seen'[c] /\ seen'[c] \subseteq AllSources
        /\ InCall(c) => registry' \in seen'[c]
    BY <1>1, <1>2, <2>1, <2>2 DEF CallInv
  <2>4. clocks'[c] \subseteq Times /\ (InCall(c) => clock' \in clocks'[c])
    BY <1>1, <2>1 DEF CallInv
  <2> QED
    BY <1>1, <2>1, <2>3, <2>4, KeptCall
<1> QED
  BY <1>1, <1>3 DEF CallsInv, PerCaller

LEMMA TickCalls ==
    ASSUME WorldInv, CallsInv, Tick
    PROVE  CallsInv'
<1>1. /\ clocks' = [c \in Callers |-> IF Receiver!InProgress(c) THEN clocks[c] \cup {clock'}
                                      ELSE clocks[c]]
      /\ UNCHANGED <<config, registry, pc, calls, token, claims, found, errors, blank, seen>>
      /\ UNCHANGED wire /\ clock' \in Times
  BY DEF Tick, issuerVars, Receiver!MoveClock
<1>2. ASSUME NEW c \in Callers
      PROVE  CallInv(c)'
  <2>1. CallInv(c)
    BY DEF CallsInv
  <2>2. Receiver!InProgress(c) <=> InCall(c)
    BY DEF Receiver!InProgress, InCall
  <2>3. /\ clocks[c] \subseteq clocks'[c] /\ clocks'[c] \subseteq Times
        /\ InCall(c) => clock' \in clocks'[c]
    BY <1>1, <2>1, <2>2 DEF CallInv
  <2>4. seen'[c] \subseteq AllSources /\ (InCall(c) => registry' \in seen'[c])
    BY <1>1, <2>1 DEF CallInv
  <2> QED
    BY <1>1, <2>1, <2>3, <2>4, KeptCall
<1> QED
  BY <1>1, <1>2 DEF CallsInv, PerCaller


\* A step of one call is none of another's.
LEMMA OwnStep ==
    ASSUME WorldInv, CallsInv, NEW c \in Callers,
           UNCHANGED <<config, registry, clock, wire>>,
           PerCaller', CallInv(c)',
           \A d \in Callers \ {c} :
              /\ pc'[d] = pc[d] /\ calls'[d] = calls[d] /\ token'[d] = token[d]
              /\ claims'[d] = claims[d] /\ found'[d] = found[d]
              /\ seen'[d] = seen[d] /\ clocks'[d] = clocks[d]
    PROVE  CallsInv'
<1>1. ASSUME NEW d \in Callers \ {c}
      PROVE  CallInv(d)'
  <2>1. CallInv(d)
    BY DEF CallsInv
  <2>2. /\ seen'[d] \subseteq AllSources /\ clocks'[d] \subseteq Times
        /\ InCall(d) => clock' \in clocks'[d] /\ registry' \in seen'[d]
    BY <2>1 DEF CallInv
  <2> QED
    BY <2>1, <2>2, KeptCall
<1> QED
  BY <1>1 DEF CallsInv

\* A token that is to be accepted was signed with a key of the issuer's.
LEMMA AgreedIsGenuine ==
    ASSUME WorldInv, NEW v \in wire, v.token.signer # NilMaterial
    PROVE  Genuine(v.token, published, registry, config, clock)
  BY DEF WorldInv, WireInv

\* The outcome of the first part of VerifyToken.
LEMMA PresentCall ==
    ASSUME WorldInv, CallsInv, NEW c \in Callers, NEW v \in wire, Present(c, v)
    PROVE  /\ pc[c] = "idle" /\ pc'[c] \in {"resolving", "rejected"}
           /\ CallsInv'
<1> DEFINE t == v.token
<1>1. /\ calls[c] < 1 /\ calls' = [calls EXCEPT ![c] = calls[c] + 1]
      /\ token' = [token EXCEPT ![c] = t]
      /\ seen' = [seen EXCEPT ![c] = {registry}]
      /\ clocks' = [clocks EXCEPT ![c] = {clock}]
      /\ UNCHANGED <<config, registry, clock, wire, found>>
  BY DEF Present, Receiver!VerifyToken, Receiver!world, issuerVars
<1>2. pc[c] = "idle" /\ calls[c] = 0 /\ claims[c] = Receiver!NewClaims
  BY <1>1 DEF CallsInv, CallInv
<1>3. PICK value \in {Receiver!NewClaims, claims[c]} :
         /\ blank' = [blank EXCEPT ![c] = value = Receiver!NewClaims]
         /\ \/ /\ Receiver!RawTokenErrors(t) = {}
               /\ claims' = [claims EXCEPT ![c] = Receiver!DecodeOver(value, t.claims)]
            \/ /\ Receiver!RawTokenErrors(t) # {} \/ ~ t.wellFormed
               /\ claims' = [claims EXCEPT ![c] = value]
         /\ \/ /\ Receiver!EarlyErrors(t) # {}
               /\ pc' = [pc EXCEPT ![c] = "rejected"]
               /\ errors' = [errors EXCEPT ![c] = Receiver!EarlyErrors(t)]
            \/ /\ Receiver!EarlyErrors(t) = {}
               /\ pc' = [pc EXCEPT ![c] = "resolving"]
               /\ errors' = [errors EXCEPT ![c] = {}]
  BY Zenon DEF Present, Receiver!VerifyToken, Receiver!Reject
<1>4. pc'[c] \in {"resolving", "rejected"}
  BY <1>3 DEF CallsInv, PerCaller
<1>5. Receiver!EarlyErrors(t) = {} => Receiver!RawTokenErrors(t) = {} /\ t.wellFormed
  BY DEF Receiver!EarlyErrors, Receiver!ParseErrors, Receiver!Classified
<1>6. /\ calls'[c] = 1 /\ token'[c] = t /\ seen'[c] = {registry} /\ clocks'[c] = {clock}
      /\ pc'[c] = "resolving" =>
            claims'[c] = Receiver!DecodeOver(Receiver!NewClaims, t.claims)
  BY <1>1, <1>2, <1>3, <1>5 DEF CallsInv, PerCaller
<1>7. ASSUME Agreed(c)'
      PROVE  pc'[c] = "resolving"
  <2>1. t.signer # NilMaterial /\ Agreement(t)
    BY <1>1, <1>6, <1>7 DEF Agreed, Agreement
  <2>2. PICK k \in SigningKeys : Minted(k, t)
    BY <2>1, AgreedIsGenuine DEF Genuine
  <2>3. Receiver!EarlyErrors(t) = {}
    BY <2>1, <2>2, AgreedPassesEarly DEF WorldInv, IssuerInv
  <2> QED
    BY <1>3, <2>3 DEF CallsInv, PerCaller
<1>8. CallInv(c)'
  <2>1. clock \in Times /\ registry \in AllSources
    BY DEF WorldInv, IssuerInv
  <2> HIDE DEF t
  <2> QED
    BY <1>1, <1>4, <1>6, <1>7, <2>1 DEF CallInv, InCall, t
<1>9. PerCaller'
  BY <1>1, <1>3 DEF CallsInv, PerCaller
<1>10. \A d \in Callers \ {c} :
          /\ pc'[d] = pc[d] /\ calls'[d] = calls[d] /\ token'[d] = token[d]
          /\ claims'[d] = claims[d] /\ found'[d] = found[d]
          /\ seen'[d] = seen[d] /\ clocks'[d] = clocks[d]
  BY <1>1, <1>3 DEF CallsInv, PerCaller
<1> QED
  BY <1>1, <1>2, <1>4, <1>8, <1>9, <1>10, OwnStep


\* What is right about an agreed token in a call, or the moment is not.
Sound(c) ==
    /\ \E v : /\ v.material = token[c].signer /\ v.method = token[c].header.alg
              /\ Initialized(v)
              /\ Receiver!Answer(registry, token[c].header) = [errors |-> {}, key |-> v]
    /\ Receiver!ClaimsErrors(config, claims[c], clock) = {}
    /\ Receiver!ValidateLifetime(config, claims[c], clock) = "none"
    /\ Receiver!TypeExpected(c)

LEMMA SoundOrMissed ==
    ASSUME WorldInv, CallsInv, NEW c \in Callers, InCall(c), Agreed(c)
    PROVE  Sound(c) \/ Missed(c)
<1> DEFINE t == token[c]
<1>1. /\ clock \in clocks[c] /\ \E v \in wire : v.token = t
      /\ t.signer # NilMaterial /\ Agreement(t)
  BY DEF CallsInv, CallInv, InCall, Agreed
<1>2. PICK k \in SigningKeys :
         /\ Minted(k, t)
         /\ Provided(k.verification, t.claims, published, registry, config, clock)
  BY <1>1, AgreedIsGenuine DEF Genuine
<1>3. SUFFICES ASSUME Within(t.claims, config, clock) PROVE Sound(c)
  BY <1>1 DEF Missed
<1>4. clock \in Times /\ config \in Configurations
  BY DEF WorldInv, IssuerInv
<1>5. Has(registry, k.verification)
  BY <1>2, <1>3, <1>4, LiveNow DEF Provided, Served
<1>6. Receiver!Answer(registry, t.header) = [errors |-> {}, key |-> k.verification]
  <2>1. PICK keys \in KeyLists : registry \in Sources(keys) /\ Holds(keys, k.verification)
    BY <1>5 DEF Has
  <2>2. t.header.kid = k.verification.id /\ t.header.alg = k.verification.method
    BY <1>2, SigningKeyType DEF Minted
  <2> QED
    BY <2>1, <2>2, HeldIsAnswered
<1>7. /\ k.verification.material = t.signer /\ k.verification.method = t.header.alg
      /\ Initialized(k.verification)
  BY <1>2, SigningKeyType DEF Minted
<1>8. t.claims \in AllClaims /\ t.claims.iat <= clock
  BY <1>2 DEF Provided
<1>9. Receiver!ClaimsErrors(config, t.claims, clock) = {}
  BY <1>1, <1>3, <1>4, <1>8, TimelyClaims DEF Agreement
<1>10. Receiver!ValidateLifetime(config, t.claims, clock) = "none"
  BY <1>1, <1>3, <1>4, <1>8, TimelyLifetime DEF Agreement
<1>11. claims[c] = t.claims
  <2>1. claims[c] = Receiver!DecodeOver(Receiver!NewClaims, t.claims)
    BY DEF CallsInv, CallInv, InCall
  <2> QED
    BY <1>8, <2>1, ClaimsType
<1>12. Receiver!TypeExpected(c)
  BY <1>1 DEF Agreement, Receiver!TypeExpected
<1> QED
  BY <1>6, <1>7, <1>9, <1>10, <1>11, <1>12 DEF Sound

\* What the steps of a call have in common.
LEMMA StepFrame ==
    ASSUME NEW c \in Callers, Verify(c)
    PROVE  /\ InCall(c)
           /\ UNCHANGED <<config, registry, clock, wire, issuerVars>>
           /\ UNCHANGED <<calls, token, claims, blank, seen, clocks>>
           /\ \E next : pc' = [pc EXCEPT ![c] = next]
           /\ found' = found \/ \E v : found' = [found EXCEPT ![c] = v]
           /\ errors' = errors \/ \E es : errors' = [errors EXCEPT ![c] = es]
<1>1. Receiver!Step(c) /\ UNCHANGED issuerVars
  BY DEF Verify
<1>2. CASE Receiver!ResolveKeyStep(c)
  BY <1>1, <1>2 DEF Receiver!ResolveKeyStep, Receiver!ResolverFailure,
     Receiver!UninitializedKey, Receiver!UnexpectedAlgorithm, Receiver!KeyResolved,
     Receiver!Reject, Receiver!world, Receiver!history, issuerVars, InCall
<1>3. CASE Receiver!SignatureInvalid(c) \/ Receiver!ClaimsRejected(c) \/ Receiver!ClaimsValid(c)
  BY <1>1, <1>3 DEF Receiver!SignatureInvalid, Receiver!ClaimsRejected,
     Receiver!ClaimsValid, Receiver!Reject, Receiver!world, Receiver!history,
     issuerVars, InCall
<1>4. CASE Receiver!UnexpectedType(c) \/ Receiver!LifetimeRejected(c) \/ Receiver!Accept(c)
  BY <1>1, <1>4 DEF Receiver!UnexpectedType, Receiver!LifetimeRejected,
     Receiver!Accept, Receiver!Reject, Receiver!world, Receiver!history,
     issuerVars, InCall
<1> QED
  BY <1>1, <1>2, <1>3, <1>4 DEF Receiver!Step


\* What the steps of a call do: refuse what is not sound, or go on.
Refused(c) ==
    /\ pc'[c] = "rejected"
    /\ \/ ~ Sound(c)
       \/ pc[c] = "verifying" /\ found[c].material # token[c].signer

KeyTaken(c) ==
    /\ pc[c] = "resolving" /\ pc'[c] = "verifying"
    /\ Receiver!Answer(registry, token[c].header).errors = {}
    /\ found'[c] = Receiver!Answer(registry, token[c].header).key

Verified(c) ==
    /\ pc[c] = "verifying" /\ pc'[c] = "policy" /\ found' = found
    /\ found[c].material = token[c].signer

Accepted(c) == pc[c] = "policy" /\ pc'[c] = "accepted" /\ found' = found

LEMMA StepOutcome ==
    ASSUME CallsInv, NEW c \in Callers, Verify(c)
    PROVE  Refused(c) \/ KeyTaken(c) \/ Verified(c) \/ Accepted(c)
<1>1. Receiver!Step(c) /\ c \in DOMAIN pc /\ c \in DOMAIN found
  BY DEF Verify, CallsInv, PerCaller
<1> DEFINE reply == Receiver!Answer(registry, token[c].header)
<1>2. Receiver!Reply(c) = reply
  BY DEF Receiver!Reply
<1>3. Sound(c) => /\ reply.errors = {} /\ Receiver!Initialized(reply.key)
                  /\ reply.key.method = token[c].header.alg
  BY ReceiverResolves DEF Sound
<1>4. CASE Receiver!ResolverFailure(c) \/ Receiver!UninitializedKey(c)
           \/ Receiver!UnexpectedAlgorithm(c)
  <2>1. pc'[c] = "rejected"
    BY <1>1, <1>4 DEF Receiver!ResolverFailure, Receiver!UninitializedKey,
       Receiver!UnexpectedAlgorithm, Receiver!Reject
  <2>2. \/ reply.errors # {} \/ ~ Receiver!Initialized(reply.key)
        \/ reply.key.method # token[c].header.alg
    BY <1>2, <1>4 DEF Receiver!ResolverFailure, Receiver!UninitializedKey,
       Receiver!UnexpectedAlgorithm
  <2> QED
    BY <1>3, <2>1, <2>2 DEF Refused
<1>5. CASE Receiver!KeyResolved(c)
  BY <1>1, <1>2, <1>5 DEF Receiver!KeyResolved, KeyTaken
<1>6. CASE Receiver!SignatureInvalid(c)
  BY <1>1, <1>6 DEF Receiver!SignatureInvalid, Receiver!Reject,
     Receiver!SignatureValid, Refused
<1>7. CASE Receiver!ClaimsRejected(c)
  BY <1>1, <1>7 DEF Receiver!ClaimsRejected, Receiver!Reject, Refused, Sound
<1>8. CASE Receiver!ClaimsValid(c)
  BY <1>1, <1>8 DEF Receiver!ClaimsValid, Receiver!SignatureValid, Verified
<1>9. CASE Receiver!UnexpectedType(c) \/ Receiver!LifetimeRejected(c)
  BY <1>1, <1>9 DEF Receiver!UnexpectedType, Receiver!LifetimeRejected,
     Receiver!Reject, Refused, Sound
<1>10. CASE Receiver!Accept(c)
  BY <1>1, <1>10 DEF Receiver!Accept, Accepted
<1> QED
  BY <1>1, <1>4, <1>5, <1>6, <1>7, <1>8, <1>9, <1>10
     DEF Receiver!Step, Receiver!ResolveKeyStep

LEMMA StepCall ==
    ASSUME WorldInv, CallsInv, NEW c \in Callers, Verify(c)
    PROVE  CallsInv'
<1>1. /\ InCall(c)
      /\ UNCHANGED <<config, registry, clock, wire>>
      /\ UNCHANGED <<calls, token, claims, blank, seen, clocks>>
      /\ \E next : pc' = [pc EXCEPT ![c] = next]
      /\ found' = found \/ \E v : found' = [found EXCEPT ![c] = v]
      /\ errors' = errors \/ \E es : errors' = [errors EXCEPT ![c] = es]
  BY StepFrame
<1>2. CallInv(c) /\ PerCaller
  BY DEF CallsInv
<1>3. (Agreed(c)' <=> Agreed(c)) /\ (Missed(c)' <=> Missed(c))
  BY <1>1 DEF Agreed, Agreement, Missed, Within
<1>4. Agreed(c) /\ ~ Missed(c) => Sound(c)
  BY <1>1, SoundOrMissed
<1>5. /\ calls[c] = 1 /\ \E v \in wire : v.token = token[c]
      /\ clock \in clocks[c] /\ registry \in seen[c]
      /\ clocks[c] \subseteq Times /\ seen[c] \subseteq AllSources
      /\ claims[c] = Receiver!DecodeOver(Receiver!NewClaims, token[c].claims)
  BY <1>1, <1>2 DEF CallInv, InCall
<1>6. CallInv(c)'
  <2>1. CASE Refused(c)
    <3>1. pc[c] = "verifying" /\ Agreed(c) =>
             found[c].material = token[c].signer \/ Missed(c)
      BY <1>2 DEF CallInv
    <3>2. Agreed(c) => Missed(c)
      BY <1>4, <2>1, <3>1 DEF Refused
    <3> HIDE DEF Agreed, Missed
    <3> QED
      BY <1>1, <1>3, <1>5, <2>1, <3>2 DEF CallInv, InCall, Refused
  <2>2. CASE KeyTaken(c)
    <3>1. Sound(c) => Receiver!Answer(registry, token[c].header).key.material
                         = token[c].signer
      BY DEF Sound
    <3>2. Agreed(c) => found'[c].material = token[c].signer \/ Missed(c)
      BY <1>4, <2>2, <3>1 DEF KeyTaken
    <3> QED
      BY <1>1, <1>3, <1>5, <2>2, <3>2 DEF CallInv, InCall, KeyTaken
  <2>3. CASE Verified(c) \/ Accepted(c)
    <3>1. /\ pc[c] \in {"verifying", "policy"} /\ pc'[c] \in {"policy", "accepted"}
          /\ found' = found /\ found[c].material = token[c].signer
      BY <1>2, <2>3 DEF Verified, Accepted, CallInv
    <3>2. \E r \in seen[c] : /\ Receiver!Answer(r, token[c].header).errors = {}
                             /\ Receiver!Answer(r, token[c].header).key = found[c]
      BY <1>2, <3>1 DEF CallInv
    <3> QED
      BY <1>1, <1>5, <3>1, <3>2 DEF CallInv, InCall
  <2> QED
    BY <2>1, <2>2, <2>3, StepOutcome
<1>7. PerCaller'
  BY <1>1, <1>2 DEF PerCaller
<1>8. \A d \in Callers \ {c} :
         /\ pc'[d] = pc[d] /\ calls'[d] = calls[d] /\ token'[d] = token[d]
         /\ claims'[d] = claims[d] /\ found'[d] = found[d]
         /\ seen'[d] = seen[d] /\ clocks'[d] = clocks[d]
  BY <1>1, <1>2 DEF PerCaller
<1> QED
  BY <1>1, <1>6, <1>7, <1>8, OwnStep


-----------------------------------------------------------------------------
(* The invariant, and what it is for.                                      *)

\* Only Issue and Alter put a token on the wire, and none is taken off it.
LEMMA WireGrows ==
    ASSUME NEW w, Issue(w) \/ \E v \in wire : Alter(v)
    PROVE  wire \subseteq wire' /\ UNCHANGED receiverVars
  BY DEF Issue, Alter

LEMMA InvStep ==
    ASSUME IInv, [Next]_vars
    PROVE  IInv'
<1>0. WorldInv /\ CallsInv
  BY DEF IInv
<1>1. ASSUME NEW k \in SigningKeys, Introduce(k) \/ Adopt(k) \/ Retire(k)
      PROVE  IInv'
  <2>1. WorldInv'
    BY <1>0, <1>1, IntroduceWorld, AdoptWorld, RetireWorld
  <2>2. wire' = wire /\ UNCHANGED receiverVars
    BY <1>1 DEF Introduce, Adopt, Retire
  <2> QED
    BY <1>0, <2>1, <2>2, CallsKept DEF IInv
<1>2. CASE Fetch
  BY <1>0, <1>2, FetchWorld, FetchCalls DEF IInv
<1>3. CASE Tick
  BY <1>0, <1>3, TickWorld, TickCalls DEF IInv
<1>4. ASSUME NEW w \in Workers, Issue(w)
      PROVE  IInv'
  BY <1>0, <1>4, IssueWorld, WireGrows, CallsKept DEF IInv
<1>5. ASSUME NEW w \in Workers, NEW shape \in Shapes, Sign(w, shape)
      PROVE  IInv'
  <2>1. wire' = wire /\ UNCHANGED receiverVars
    BY <1>5 DEF Sign
  <2> QED
    BY <1>0, <1>5, <2>1, SignWorld, CallsKept DEF IInv
<1>6. ASSUME NEW v \in wire, Alter(v)
      PROVE  IInv'
  BY <1>0, <1>6, AlterWorld, WireGrows, CallsKept DEF IInv
<1>7. ASSUME NEW c \in Callers, NEW v \in wire, Present(c, v)
      PROVE  IInv'
  <2>1. UNCHANGED <<signer, published, signing, wire, config, registry, clock>>
    BY <1>7 DEF Present, issuerVars, Receiver!VerifyToken, Receiver!world
  <2> QED
    BY <1>0, <1>7, <2>1, WorldUnchanged, PresentCall DEF IInv
<1>8. ASSUME NEW c \in Callers, Verify(c)
      PROVE  IInv'
  <2>1. UNCHANGED <<signer, published, signing, wire, config, registry, clock>>
    BY <1>8, StepFrame DEF issuerVars
  <2> QED
    BY <1>0, <1>8, <2>1, WorldUnchanged, StepCall DEF IInv
<1>9. CASE UNCHANGED vars
  <2>1. UNCHANGED <<signer, published, signing, wire, config, registry, clock>>
        /\ UNCHANGED receiverVars
    BY <1>9 DEF vars, issuerVars, receiverVars
  <2> QED
    BY <1>0, <2>1, WorldUnchanged, CallsKept DEF IInv
<1> QED
  BY <1>1, <1>2, <1>3, <1>4, <1>5, <1>6, <1>7, <1>8, <1>9 DEF Next

\* Whatever the keys, the configurations and the tokens under way: a key that
\* claims are signed with is published and with the verifier for as long as
\* these can be acceptable.
THEOREM IInvAlways == Spec => []IInv
<1>1. Init => IInv
  BY InitWorld, InitCalls DEF IInv
<1>2. IInv /\ [Next]_vars => IInv'
  BY InvStep
<1> QED
  BY <1>1, <1>2, PTL DEF Spec

LEMMA RefusedIsLate == IInv => RotationIsSeamless
<1> SUFFICES ASSUME IInv, NEW c \in Callers, NEW v \in wire,
                    pc[c] = "rejected" /\ token[c] = v.token,
                    ~ v.altered /\ Agreement(v.token)
             PROVE  \E now \in clocks[c] : now \notin Window(v.token.claims)
  BY DEF RotationIsSeamless
<1>1. v.token.signer # NilMaterial
  <2>1. PICK k \in SigningKeys : Minted(k, v.token)
    BY DEF IInv, WorldInv, WireInv, Genuine
  <2> QED
    BY <2>1, SigningKeyType, KeysAssumption DEF Minted, Material
<1>2. Missed(c)
  BY <1>1 DEF IInv, CallsInv, CallInv, Agreed
<1> QED
  BY <1>2, WindowWithin DEF Missed

\* Rotation is seamless: with keys published before they are used and withdrawn
\* only when what they signed is outside its window, a token the configuration
\* agrees with is refused only by a call that saw an instant outside the window.
THEOREM RotationIsSeamlessAlways == Spec => []RotationIsSeamless
  BY IInvAlways, RefusedIsLate, PTL


-----------------------------------------------------------------------------
(* The signed channel.                                                     *)

\* The abstract state: what was signed, what is known, what is verified.
Sent == {[message |-> v.token.claims, key |-> v.token.signer] :
            v \in {u \in wire : ~ u.altered}}
KnownNow == UNION {Names(r) : r \in {registry} \cup UNION {seen[c] : c \in Callers}}
VerifiedNow == [c \in Callers |->
                   IF pc[c] # "accepted" THEN NoKeyID
                   ELSE [message |-> claims[c], name |-> token[c].header.kid]]

LEMMA KnownType == IInv => KnownNow \in SUBSET [name : AnyKeyID, key : Material]
<1>1. SUFFICES ASSUME IInv
               PROVE  KnownNow \in SUBSET [name : AnyKeyID, key : Material]
  OBVIOUS
<1>2. {registry} \cup UNION {seen[c] : c \in Callers} \subseteq AllSources
  BY <1>1 DEF IInv, WorldInv, IssuerInv, CallsInv, CallInv
<1>3. ASSUME NEW r \in AllSources
      PROVE  Names(r) \subseteq [name : AnyKeyID, key : Material]
  <2>1. PICK keys \in KeyLists : r \in Sources(keys)
    BY DEF AllSources
  <2>2. \A i \in DOMAIN keys : keys[i].id \in AnyKeyID /\ keys[i].material \in Material
    BY PublishedType DEF AnyKeyID
  <2> QED
    BY <2>1, <2>2, SourceNames
<1> QED
  BY <1>2, <1>3 DEF KnownNow

LEMMA ChannelInit == Init => Channel!Init
<1>1. SUFFICES ASSUME Init
               PROVE  Channel!Init
  OBVIOUS
<1>2. Sent = {}
  BY <1>1 DEF Init, Sent
<1>3. KnownNow \in SUBSET [name : AnyKeyID, key : Material]
  BY <1>1, InitWorld, InitCalls, KnownType DEF IInv
<1>4. VerifiedNow = [c \in Callers |-> NoKeyID]
  BY <1>1 DEF Init, Receiver!Init, VerifiedNow
<1> QED
  BY <1>2, <1>3, <1>4 DEF Channel!Init, Sent, KnownNow, VerifiedNow

\* The actions of the channel in the terms of the exchange.
LEMMA ChannelActions ==
    /\ (\E m \in AllClaims, k \in Material :
           Sent' = Sent \cup {[message |-> m, key |-> k]})
       /\ KnownNow' = KnownNow /\ VerifiedNow' = VerifiedNow => Channel!Next
    /\ KnownNow' \in SUBSET [name : AnyKeyID, key : Material]
       /\ Sent' = Sent /\ VerifiedNow' = VerifiedNow => Channel!Next
    /\ \A c \in Callers :
          VerifiedNow[c] = NoKeyID
          /\ (\E s \in Sent, k \in KnownNow :
                 /\ k.key = s.key
                 /\ VerifiedNow' = [VerifiedNow EXCEPT
                                       ![c] = [message |-> s.message, name |-> k.name]])
          /\ Sent' = Sent /\ KnownNow' = KnownNow => Channel!Next
<1>1. (\E m \in AllClaims, k \in Material :
           Sent' = Sent \cup {[message |-> m, key |-> k]})
      /\ KnownNow' = KnownNow /\ VerifiedNow' = VerifiedNow => Channel!Sign
  BY Zenon DEF Channel!Sign, Sent, KnownNow, VerifiedNow
<1>2. KnownNow' \in SUBSET [name : AnyKeyID, key : Material]
      /\ Sent' = Sent /\ VerifiedNow' = VerifiedNow => Channel!Trust
  BY Zenon DEF Channel!Trust, Sent, KnownNow, VerifiedNow
<1>3. \A c \in Callers :
          VerifiedNow[c] = NoKeyID
          /\ (\E s \in Sent, k \in KnownNow :
                 /\ k.key = s.key
                 /\ VerifiedNow' = [VerifiedNow EXCEPT
                                       ![c] = [message |-> s.message, name |-> k.name]])
          /\ Sent' = Sent /\ KnownNow' = KnownNow => Channel!Verify(c)
  BY Zenon DEF Channel!Verify, Sent, KnownNow, VerifiedNow
<1> QED
  BY <1>1, <1>2, <1>3, Zenon DEF Channel!Next

\* Trust stands for whatever signs and accepts nothing.
LEMMA SilentStep ==
    ASSUME IInv', Sent' = Sent, VerifiedNow' = VerifiedNow
    PROVE  Channel!Next
<1>1. (KnownNow \in SUBSET [name : AnyKeyID, key : Material])'
  BY KnownType, PTL
<1>2. KnownNow' \in SUBSET [name : AnyKeyID, key : Material]
  BY <1>1
<1> QED
  BY <1>2, ChannelActions

LEMMA IssueStep ==
    ASSUME IInv, IInv', NEW w \in Workers, Issue(w)
    PROVE  Channel!Next
<1>1. KnownNow' = KnownNow /\ VerifiedNow' = VerifiedNow
  BY DEF Issue, receiverVars, KnownNow, VerifiedNow
<1>2. CASE wire' = wire
  <2>1. Sent' = Sent
    BY <1>2 DEF Sent
  <2> QED
    BY <1>1, <2>1, SilentStep
<1>3. CASE wire' # wire
  <2>1. PICK u : /\ wire' = wire \cup {u} /\ TokenShape(u) /\ u.altered = FALSE
                 /\ Genuine(u.token, published, registry, config, clock)
    BY <1>3, IssuedToken DEF IInv
  <2>2. Sent' = Sent \cup {[message |-> u.token.claims, key |-> u.token.signer]}
    BY <2>1 DEF Sent
  <2>3. u.token.claims \in AllClaims /\ u.token.signer \in Material
    BY <2>1, SigningKeyType DEF Genuine, Minted, Provided
  <2> QED
    BY <1>1, <2>2, <2>3, ChannelActions
<1> QED
  BY <1>2, <1>3

LEMMA AlterStep ==
    ASSUME IInv, IInv', NEW v \in wire, Alter(v)
    PROVE  Channel!Next
<1>1. Sent' = Sent
  BY AlteredToken DEF Sent, IInv
<1>2. VerifiedNow' = VerifiedNow
  BY DEF Alter, receiverVars, VerifiedNow
<1> QED
  BY <1>1, <1>2, SilentStep

LEMMA AcceptStep ==
    ASSUME IInv, IInv', NEW c \in Callers, Verify(c), Accepted(c)
    PROVE  Channel!Next
<1>1. /\ UNCHANGED <<registry, wire, token, claims, seen>>
      /\ pc' = [pc EXCEPT ![c] = "accepted"] /\ pc[c] = "policy"
  BY StepFrame DEF Accepted, IInv, CallsInv, PerCaller
<1>2. /\ found[c].material = token[c].signer
      /\ claims[c] = Receiver!DecodeOver(Receiver!NewClaims, token[c].claims)
      /\ seen[c] \subseteq AllSources /\ \E v \in wire : v.token = token[c]
  BY <1>1 DEF IInv, CallsInv, CallInv
<1>3. PICK r \in seen[c] :
         /\ Receiver!Answer(r, token[c].header).errors = {}
         /\ Receiver!Answer(r, token[c].header).key = found[c]
  BY <1>1 DEF IInv, CallsInv, CallInv
<1>4. PICK keys \in KeyLists : r \in Sources(keys)
  BY <1>2, <1>3 DEF AllSources
<1>5. PICK i \in DOMAIN keys : found[c] = keys[i] /\ keys[i].id = token[c].header.kid
  BY <1>3, <1>4, AnsweredIsHeld
<1>6. PICK k : k = [name |-> keys[i].id, key |-> keys[i].material]
  OBVIOUS
<1>7. k \in KnownNow /\ k.key = token[c].signer /\ k.name = token[c].header.kid
  BY <1>2, <1>3, <1>4, <1>5, <1>6, SourceNames DEF KnownNow
<1>8. PICK v \in wire : /\ ~ v.altered /\ v.token = token[c]
                        /\ Genuine(v.token, published, registry, config, clock)
  <2>1. token[c].signer # NilMaterial
    BY <1>2, <1>4, <1>5, PublishedType, KeysAssumption DEF Material
  <2> QED
    BY <1>2, <2>1 DEF IInv, WorldInv, WireInv
<1>9. claims[c] = token[c].claims
  BY <1>2, <1>8, ClaimsType DEF Genuine, Provided
<1>10. PICK s : s = [message |-> token[c].claims, key |-> token[c].signer]
  OBVIOUS
<1>11. s \in Sent /\ s.message = claims[c] /\ s.key = k.key
  BY <1>7, <1>8, <1>9, <1>10 DEF Sent
<1>12. VerifiedNow' = [VerifiedNow EXCEPT ![c] = [message |-> s.message, name |-> k.name]]
  BY <1>1, <1>7, <1>11 DEF VerifiedNow, IInv, CallsInv, PerCaller
<1>13. VerifiedNow[c] = NoKeyID
  BY <1>1 DEF VerifiedNow
<1>14. Sent' = Sent /\ KnownNow' = KnownNow
  BY <1>1 DEF Sent, KnownNow
<1> QED
  BY <1>7, <1>11, <1>12, <1>13, <1>14, ChannelActions

LEMMA ChannelNext == IInv /\ IInv' /\ [Next]_vars => [Channel!Next]_(Channel!vars)
<1>1. SUFFICES ASSUME IInv, IInv', [Next]_vars
               PROVE  Channel!Next
  OBVIOUS
<1>2. ASSUME wire' = wire, UNCHANGED <<pc, claims, token>>
      PROVE  Channel!Next
  BY <1>1, <1>2, SilentStep DEF Sent, VerifiedNow
<1>3. ASSUME NEW k \in SigningKeys, Introduce(k) \/ Adopt(k) \/ Retire(k)
      PROVE  Channel!Next
  BY <1>2, <1>3 DEF Introduce, Adopt, Retire, receiverVars
<1>4. CASE Fetch \/ Tick
  BY <1>2, <1>4 DEF Fetch, Tick, issuerVars, Receiver!ChangeRegistry, Receiver!MoveClock
<1>5. ASSUME NEW w \in Workers, NEW shape \in Shapes, Sign(w, shape)
      PROVE  Channel!Next
  BY <1>2, <1>5 DEF Sign, receiverVars
<1>6. ASSUME NEW w \in Workers, Issue(w)
      PROVE  Channel!Next
  BY <1>1, <1>6, IssueStep
<1>7. ASSUME NEW v \in wire, Alter(v)
      PROVE  Channel!Next
  BY <1>1, <1>7, AlterStep
<1>8. ASSUME NEW c \in Callers, NEW v \in wire, Present(c, v)
      PROVE  Channel!Next
  <2>1. pc[c] # "accepted" /\ pc'[c] # "accepted" /\ wire' = wire
    BY <1>1, <1>8, PresentCall DEF Present, issuerVars, IInv
  <2>2. \A d \in Callers \ {c} :
           pc'[d] = pc[d] /\ token'[d] = token[d] /\ claims'[d] = claims[d]
    BY <1>1, <1>8 DEF Present, Receiver!VerifyToken, Receiver!Reject,
       IInv, CallsInv, PerCaller
  <2> QED
    BY <1>1, <2>1, <2>2, SilentStep DEF Sent, VerifiedNow
<1>9. ASSUME NEW c \in Callers, Verify(c)
      PROVE  Channel!Next
  <2>1. CASE Accepted(c)
    BY <1>1, <1>9, <2>1, AcceptStep
  <2>2. CASE Refused(c) \/ KeyTaken(c) \/ Verified(c)
    <3>1. /\ UNCHANGED <<wire, token, claims>> /\ InCall(c)
          /\ \E next : pc' = [pc EXCEPT ![c] = next]
      BY <1>9, StepFrame
    <3>2. pc[c] # "accepted" /\ pc'[c] # "accepted"
      BY <2>2, <3>1 DEF InCall, Refused, KeyTaken, Verified
    <3>3. Sent' = Sent /\ VerifiedNow' = VerifiedNow
      BY <3>1, <3>2 DEF Sent, VerifiedNow
    <3> QED
      BY <1>1, <3>3, SilentStep
  <2> QED
    BY <1>1, <1>9, <2>1, <2>2, StepOutcome DEF IInv
<1>10. CASE UNCHANGED vars
  BY <1>2, <1>10 DEF vars, issuerVars, receiverVars
<1> QED
  BY <1>1, <1>3, <1>4, <1>5, <1>6, <1>7, <1>8, <1>9, <1>10 DEF Next

\* Issuer, transport and verifier together are a signed channel: the claims a
\* call accepts were signed with a key published under the token's kid.
THEOREM ImplementsChannelAlways == Spec => ImplementsChannel
  BY ChannelInit, ChannelNext, IInvAlways, PTL DEF Spec, ImplementsChannel, Channel!Spec
=============================================================================
