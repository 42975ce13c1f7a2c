--------------------------- MODULE KeySetRotation ---------------------------
(***************************************************************************)
(* The key sets of an application that rotates its keys: it builds a       *)
(* jwt.StaticKeySet for each change of its keys and publishes it as a JWK  *)
(* Set document. The consumer of the document keeps the jwk.Set it last    *)
(* accepted, which the publisher's changes reach only when it fetches      *)
(* again; the document may also hold keys of other publishers, with or     *)
(* without alg and use.                                                    *)
(***************************************************************************)
EXTENDS JWTKeys

CONSTANTS
    KeyPool,        \* the keys the application has; ZeroKey may be one
    ForeignJWKs,    \* JWKs other publishers add to the document
    HeaderPool,     \* the protected headers tokens carry
    MaxKeys,        \* bound: keys of a StaticKeySet
    MaxSetKeys      \* the limit of ParseSetWithLimit

ASSUME RotationAssumption ==
    /\ KeyPool \subseteq VerificationKeys
    /\ \A key \in KeyPool : key.id \notin OverlongKeyIDs
    /\ ForeignJWKs \subseteq JWKs
    /\ HeaderPool \subseteq
          [alg : Algorithms \cup UnknownAlgorithms, kid : KeyIDs \cup {NoKeyID}]
    /\ MaxKeys \in Nat
    /\ MaxSetKeys \in Nat \ {0}

VARIABLES
    static,     \* the StaticKeySet in use; <<>> before there is one
    document,   \* the published JWK Set document
    fetched     \* the consumer's jwk.Set; <<>> before there is one

rotationVars == <<static, document, fetched>>

RotationInit ==
    /\ static = <<>>
    /\ document = <<>>
    /\ fetched = <<>>

StaticKeyLists == UNION {[1 .. n -> KeyPool] : n \in 0 .. MaxKeys}

\* The application replaces its set; a list NewStaticKeySet refuses leaves
\* the set in use as it was.
NewStaticKeySet(keys) ==
    /\ ValidStaticKeySet(keys)
    /\ static' = keys
    /\ UNCHANGED <<document, fetched>>

\* FromStaticKeySet fails on the first key that is no public key.
Publish ==
    /\ static # <<>>
    /\ \A i \in DOMAIN static : Exportable(static[i])
    /\ ValidSet(FromStaticKeySet(static))
    /\ document' = FromStaticKeySet(static)
    /\ UNCHANGED <<static, fetched>>

AddForeignJWK(jwk) ==
    /\ Len(document) <= MaxSetKeys
    /\ document' = Append(document, jwk)
    /\ UNCHANGED <<static, fetched>>

\* ParseSetWithLimit; a refused document leaves the set in use as it was.
ParseSet ==
    /\ Len(document) <= MaxSetKeys
    /\ ValidSet(document)
    /\ fetched' = document
    /\ UNCHANGED <<static, document>>

RotationNext ==
    \/ \E keys \in StaticKeyLists : NewStaticKeySet(keys)
    \/ \E jwk \in ForeignJWKs : AddForeignJWK(jwk)
    \/ Publish \/ ParseSet

RotationSpec == RotationInit /\ [][RotationNext]_rotationVars

-----------------------------------------------------------------------------

\* The two resolvers are interchangeable: a set all of whose keys are public
\* is exported without loss, and a consumer that fetched the export answers
\* every header like the publisher's own set, errors included; the kid and
\* the alg are looked at in the same order on both sides.
ExportAgrees ==
    static # <<>> /\ (\A i \in DOMAIN static : Exportable(static[i])) =>
        /\ ValidSet(FromStaticKeySet(static))
        /\ \A header \in HeaderPool :
              SetResolve(FromStaticKeySet(static), header)
                 = StaticResolve(static, header)

\* Rotation does not disturb the keys that stay: replacing the set in use,
\* by adding keys, retiring others or fetching a new document, answers every
\* header that a remaining key answered with that same key.
RotationKeepsRemainingKeys ==
    [][\A header \in HeaderPool :
        /\ LET reply == StaticResolve(static, header) IN
           static # <<>> /\ reply.error = "none" /\ Holds(static', reply.key)
              => StaticResolve(static', header) = reply
        /\ \A i \in DOMAIN fetched :
              /\ fetched[i].keyID = header.kid
              /\ SetResolve(fetched, header).error = "none"
              /\ Holds(fetched', fetched[i])
              => SetResolve(fetched', header) = SetResolve(fetched, header)]_rotationVars
=============================================================================
