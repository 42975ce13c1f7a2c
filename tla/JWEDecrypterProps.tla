------------------------- MODULE JWEDecrypterProps -------------------------
(* What makes JWEDecrypter correct. *)
EXTENDS JWEDecrypter

PolicySentinels == {"ErrUnexpectedType", "ErrUnexpectedContentType",
                    "ErrUnexpectedCompression"}

Sentinels == {"ErrMissingToken", "ErrTokenTooLarge", "ErrMalformedToken",
              "ErrDecrypt", "ErrPlaintextTooLarge", "context", "other"}
             \cup PolicySentinels

\* A rejection always comes with an error, and only a result has an index.
TypeOK ==
    /\ decrypter \in Decrypters
    /\ registry \in Registries
    /\ pc \in [Callers -> {"idle", "resolving", "decrypting", "decrypted",
                           "rejected"}]
    /\ calls \in [Callers -> 0 .. MaxCalls]
    /\ token \in [Callers -> Tokens \cup {NoToken}]
    /\ key \in [Callers -> Keys \cup {NoKey}]
    /\ index \in [Callers -> Nat]
    /\ errors \in [Callers -> SUBSET Sentinels]
    /\ seen \in [Callers -> SUBSET Registries]
    /\ \A c \in Callers : /\ (pc[c] = "rejected") <=> (errors[c] # {})
                          /\ (pc[c] = "decrypted") <=> (index[c] # 0)

-----------------------------------------------------------------------------
\* The token, for its i-th recipient, is everything the decrypter demands.
Conforms(t, i) ==
    LET header == RecipientHeader(t, i)
        Given(n) == n \in DOMAIN header /\ header[n] \in Texts
    IN
    /\ t.size \in 1 .. decrypter.maxTokenSize
    /\ t.wellFormed /\ Allowed(t)
    /\ \A n \in DOMAIN header \ {"kid", "keyset"} :
          header[n] \in Texts \cup {NoText}
    /\ "crit" \notin DOMAIN header
    /\ \A n \in {"typ", "cty"} : decrypter.policy[n] # NoText =>
          Given(n) /\ header[n] = decrypter.policy[n]
    /\ Given("zip") => decrypter.policy.compression = header["zip"]
    /\ t.plaintext <= decrypter.maxPlaintextSize

\* r answers the token with a key that opens it for its i-th recipient.
OpenedBy(r, t, i) ==
    LET answer == Answer(r, SharedHeader(t)) IN
    /\ answer.errors = {}
    /\ t.intact
    /\ i \in DOMAIN t.recipients
    /\ t.recipients[i].key = answer.key /\ Truthful(t, i)

\* Plaintext is returned only when a key in force during that very call opens
\* the unaltered token for the recipient that is reported, and for none
\* before it, and when the header returned and the restored plaintext, which
\* nobody could look at before the key was used, satisfy the whole
\* configuration ("Validate after expansion", DESIGN.md:181-182).
ReturnedIsAuthentic ==
    \A c \in Callers : pc[c] = "decrypted" =>
        /\ Conforms(token[c], index[c])
        /\ \E r \in seen[c] :
              /\ OpenedBy(r, token[c], index[c])
              /\ \A i \in 1 .. index[c] - 1 : ~ OpenedBy(r, token[c], i)

\* "Reject policy violations before key resolution so invalid tokens do not
\* trigger external key lookups" (decrypter.go:164-165): what is held against
\* a token after a key was obtained for it could not be seen before. The
\* JSON serialization had left the parameter to the recipient, or the
\* recipient's own header broke the rules.
LateRejectionsAreNews ==
    \A c \in Callers : pc[c] = "rejected" /\ key[c] # NoKey =>
        LET t == token[c]
            own == UNION {DOMAIN t.recipients[i].header : i \in DOMAIN t.recipients}
        IN
        /\ errors[c] \subseteq PolicySentinels \cup
               {"ErrDecrypt", "ErrPlaintextTooLarge", "ErrMalformedToken"}
        /\ "ErrUnexpectedType" \in errors[c] =>
              decrypter.multi /\ Text(SharedHeader(t), "typ") = NoText
        /\ "ErrUnexpectedContentType" \in errors[c] =>
              decrypter.multi /\ Text(SharedHeader(t), "cty") = NoText
        /\ "ErrUnexpectedCompression" \in errors[c] =>
              decrypter.multi /\ "zip" \in own \ DOMAIN SharedHeader(t)
        /\ "ErrMalformedToken" \in errors[c] =>
              decrypter.multi /\ own \ DOMAIN SharedHeader(t) # {}

\* The token conforms for the recipient whose key the resolver answers; of
\* the header before that, only the encryption is demanded already.
Fit(c) ==
    LET t == token[c] IN
    /\ decrypter.multi \/ IsCompact(t)
    /\ "enc" \in DOMAIN SharedHeader(t)
    /\ \E r \in seen[c] : \E i \in DOMAIN t.recipients :
          /\ OpenedBy(r, t, i) /\ Conforms(t, i)
          /\ \A j \in 1 .. i - 1 : ~ OpenedBy(r, t, j)

Undisturbed(c) == pc[c] \in {"decrypted", "rejected"} /\ Cardinality(seen[c]) = 1

\* While the resolver's keys stay the same, a call returns exactly the fit
\* tokens: judging the header without knowing the recipient turns none away
\* that the judgement after decryption would pass, however the steps of other
\* callers of the same decrypter, with other tokens and keys, interleave.
UndisturbedVerdict ==
    \A c \in Callers : Undisturbed(c) => (pc[c] = "decrypted" <=> Fit(c))
=============================================================================
