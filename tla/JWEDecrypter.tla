---------------------------- MODULE JWEDecrypter ----------------------------
(***************************************************************************)
(* jwe.Decrypter and jwe.MultiDecrypter (jwe/decrypter.go,                 *)
(* jwe/multi_decrypter.go): concurrent callers of DecryptToken on one      *)
(* decrypter whose resolver's keys change while calls are in progress. A   *)
(* compact token is one whose only header is the protected one of its only *)
(* recipient; the two decrypters differ in what they demand of the header  *)
(* they see before a recipient is known, and in looking at it again.       *)
(*                                                                         *)
(* Cryptography is idealised: a token opens with the key of one of its     *)
(* recipients, only while it is unaltered, and only if its header names    *)
(* the algorithms it was made with. A key stands for both halves of a key  *)
(* pair.                                                                   *)
(***************************************************************************)
EXTENDS JWEHeaders, Sequences, FiniteSets

CONSTANTS
    Keys, NoKey,    \* decryption keys; the nil key
    Callers,
    Decrypters,     \* decrypters' configurations
    Tokens,         \* what callers present
    Registries,     \* the answers the resolver may be giving
    MaxCalls,       \* bound: calls of each caller
    MaxChanges      \* bound: different registries that replace the one a
                    \* call began under

DecrypterType == [multi : BOOLEAN, keyAlgorithms : SUBSET Texts,
                  contentEncryptions : SUBSET Texts, policy : Policies,
                  maxTokenSize : Nat \ {0}, maxPlaintextSize : Nat \ {0}]

\* size: bytes of the serialization. wellFormed: it parses. intact: the
\* ciphertext, its tag and what they protect are those the encrypter made,
\* and compressed plaintext can be restored. plaintext: its size. enc and a
\* recipient's alg: what the encrypter used, whatever the headers say.
IsToken(t) ==
    /\ t.size \in Nat /\ t.plaintext \in Nat
    /\ t.wellFormed \in BOOLEAN /\ t.intact \in BOOLEAN
    /\ t.enc \in Texts \cup {NoText}
    /\ IsHeader(t.protected) /\ IsHeader(t.unprotected)
    /\ Len(t.recipients) \in Nat
    /\ DOMAIN t.recipients = 1 .. Len(t.recipients)
    /\ \A i \in DOMAIN t.recipients : /\ IsHeader(t.recipients[i].header)
                                      /\ t.recipients[i].key \in Keys
                                      /\ t.recipients[i].alg \in Texts \cup {NoText}
    /\ t.wellFormed => t.recipients # <<>>

\* A resolver: it fails, returns one key for every header (a static one), or
\* selects by a parameter and fails for values it has no key for.
RegistryType(r) ==
    /\ r.by \in {"nothing", "kid", "keyset"}
    /\ DOMAIN r.keys \subseteq Texts \cup {NoText}
    /\ \A t \in DOMAIN r.keys : r.keys[t] \in Keys \cup {NoKey}
    /\ r.errors \in SUBSET {"context", "other"} \ {{}}

ASSUME DecrypterAssumption ==
    /\ NoKey \notin Keys
    /\ Decrypters \subseteq DecrypterType
    /\ \A d \in Decrypters : d.keyAlgorithms # {} /\ d.contentEncryptions # {}
    /\ \A t \in Tokens : IsToken(t)
    /\ \A r \in Registries : RegistryType(r)
    /\ MaxCalls \in Nat
    /\ MaxChanges \in Nat

VARIABLES
    decrypter,  \* the decrypter all callers share
    registry,   \* what decrypter.resolver answers, now
    pc,         \* where each caller is
    calls,      \* how many calls each caller has made
    token,      \* the token of each caller's call
    key,        \* the key the resolver returned
    index,      \* RecipientIndex of a result; 0 without one
    errors,     \* errors.Is of the error returned; {} without one
    seen        \* history: the registries in force since the call began

vars == <<decrypter, registry, pc, calls, token, key, index, errors, seen>>

NoToken == [size |-> 0, wellFormed |-> FALSE, protected |-> NoHeader,
            unprotected |-> NoHeader, recipients |-> <<>>, intact |-> FALSE,
            enc |-> NoText, plaintext |-> 0]

-----------------------------------------------------------------------------
(* Pure parts.                                                             *)

\* jose.Header before a recipient is known, and of one recipient: protected
\* parameters come before unprotected ones of the same name.
SharedHeader(t) == Merged(t.protected, t.unprotected)
RecipientHeader(t, i) == Merged(SharedHeader(t), t.recipients[i].header)

IsCompact(t) == /\ Len(t.recipients) = 1
                /\ t.unprotected = NoHeader /\ t.recipients[1].header = NoHeader

\* The allowlists, which the parser applies to every recipient.
Allowed(t) ==
    \A i \in DOMAIN t.recipients :
        /\ Text(RecipientHeader(t, i), "alg") \in decrypter.keyAlgorithms
        /\ Text(RecipientHeader(t, i), "enc") \in decrypter.contentEncryptions

\* Mutant: the policy is left to the time after decryption.
EarlyErrorsNoPolicy(t) ==
    IF t.size = 0 THEN {"ErrMissingToken"}
    ELSE IF t.size > decrypter.maxTokenSize THEN {"ErrTokenTooLarge"}
    ELSE IF \/ ~ t.wellFormed
            \/ ~ decrypter.multi /\ ~ IsCompact(t)
            \/ ~ Allowed(t)
            \/ ~ ValidHeader(SharedHeader(t), decrypter.multi)
         THEN {"ErrMalformedToken"}
    ELSE {}

EarlyErrors(t) ==
    IF t.size = 0 THEN {"ErrMissingToken"}
    ELSE IF t.size > decrypter.maxTokenSize THEN {"ErrTokenTooLarge"}
    ELSE IF \/ ~ t.wellFormed
            \/ ~ decrypter.multi /\ ~ IsCompact(t)
            \/ ~ Allowed(t)
            \/ ~ ValidHeader(SharedHeader(t), decrypter.multi)
         THEN {"ErrMalformedToken"}
    ELSE PolicyErrors(decrypter.policy, SharedHeader(t), decrypter.multi)

\* What a resolver answers: the errors, or a key.
Answer(r, header) ==
    LET selector == Text(header, r.by) IN
    IF selector \in DOMAIN r.keys
    THEN [errors |-> {}, key |-> r.keys[selector]]
    ELSE [errors |-> r.errors, key |-> NoKey]

\* The header names the algorithms the token was made with.
Truthful(t, i) ==
    /\ Text(RecipientHeader(t, i), "alg") = t.recipients[i].alg
    /\ Text(RecipientHeader(t, i), "enc") = t.enc

\* Mutant: no tag is compared.
OpensAltered(t, k) ==
    {i \in DOMAIN t.recipients : t.recipients[i].key = k /\ Truthful(t, i)}

\* The recipients a key opens the token for; the first one counts.
Opens(t, k) ==
    {i \in DOMAIN t.recipients :
        t.intact /\ t.recipients[i].key = k /\ Truthful(t, i)}
FirstOpened(t, k) ==
    CHOOSE i \in Opens(t, k) : \A j \in Opens(t, k) : i <= j

\* Mutant: the header that was seen before decryption is the one returned.
LateErrorsNotAgain(t, i) ==
    IF t.plaintext > decrypter.maxPlaintextSize THEN {"ErrPlaintextTooLarge"}
    ELSE {}

\* After decryption. A compact token's header passed the same tests before.
LateErrors(t, i) ==
    LET header == RecipientHeader(t, i) IN
    IF ~ ValidHeader(header, FALSE) THEN {"ErrMalformedToken"}
    ELSE IF PolicyErrors(decrypter.policy, header, FALSE) # {}
         THEN PolicyErrors(decrypter.policy, header, FALSE)
    ELSE IF t.plaintext > decrypter.maxPlaintextSize
         THEN {"ErrPlaintextTooLarge"}
    ELSE {}

-----------------------------------------------------------------------------
Init ==
    /\ decrypter \in Decrypters
    /\ registry \in Registries
    /\ pc = [c \in Callers |-> "idle"]
    /\ calls = [c \in Callers |-> 0]
    /\ token = [c \in Callers |-> NoToken]
    /\ key = [c \in Callers |-> NoKey]
    /\ index = [c \in Callers |-> 0]
    /\ errors = [c \in Callers |-> {}]
    /\ seen = [c \in Callers |-> {}]

Reject(c, es) ==
    /\ pc' = [pc EXCEPT ![c] = "rejected"]
    /\ errors' = [errors EXCEPT ![c] = es]

\* DecryptToken up to its call of the resolver.
DecryptToken(c, t) ==
    /\ pc[c] \in {"idle", "decrypted", "rejected"}
    /\ calls[c] < MaxCalls
    /\ calls' = [calls EXCEPT ![c] = @ + 1]
    /\ token' = [token EXCEPT ![c] = t]
    /\ \/ /\ EarlyErrors(t) # {}
          /\ Reject(c, EarlyErrors(t))
       \/ /\ EarlyErrors(t) = {}
          /\ pc' = [pc EXCEPT ![c] = "resolving"]
          /\ errors' = [errors EXCEPT ![c] = {}]
    /\ key' = [key EXCEPT ![c] = NoKey]
    /\ index' = [index EXCEPT ![c] = 0]
    /\ seen' = [seen EXCEPT ![c] = {registry}]
    /\ UNCHANGED <<decrypter, registry>>

Reply(c) == Answer(registry, SharedHeader(token[c]))

\* The resolver's error is returned as it is.
ResolverFailure(c) ==
    /\ pc[c] = "resolving"
    /\ Reply(c).errors # {}
    /\ Reject(c, Reply(c).errors)
    /\ UNCHANGED <<decrypter, registry, calls, token, key, index, seen>>

\* Mutant: the key is kept in the decrypter that the callers share.
KeyResolvedShared(c) ==
    /\ pc[c] = "resolving"
    /\ Reply(c).errors = {}
    /\ pc' = [pc EXCEPT ![c] = "decrypting"]
    /\ key' = [d \in Callers |-> Reply(c).key]
    /\ UNCHANGED <<decrypter, registry, calls, token, index, errors, seen>>

KeyResolved(c) ==
    /\ pc[c] = "resolving"
    /\ Reply(c).errors = {}
    /\ pc' = [pc EXCEPT ![c] = "decrypting"]
    /\ key' = [key EXCEPT ![c] = Reply(c).key]
    /\ UNCHANGED <<decrypter, registry, calls, token, index, errors, seen>>

\* A nil key opens nothing; MultiDecrypter does not even try it.
DecryptFails(c) ==
    /\ pc[c] = "decrypting"
    /\ Opens(token[c], key[c]) = {}
    /\ Reject(c, {"ErrDecrypt"})
    /\ UNCHANGED <<decrypter, registry, calls, token, key, index, seen>>

\* Mutant: what was decrypted is returned with the error.
RejectPartially(c) ==
    /\ pc[c] = "decrypting"
    /\ Opens(token[c], key[c]) # {}
    /\ LateErrors(token[c], FirstOpened(token[c], key[c])) # {}
    /\ Reject(c, LateErrors(token[c], FirstOpened(token[c], key[c])))
    /\ index' = [index EXCEPT ![c] = FirstOpened(token[c], key[c])]
    /\ UNCHANGED <<decrypter, registry, calls, token, key, seen>>

RejectDecrypted(c) ==
    /\ pc[c] = "decrypting"
    /\ Opens(token[c], key[c]) # {}
    /\ LateErrors(token[c], FirstOpened(token[c], key[c])) # {}
    /\ Reject(c, LateErrors(token[c], FirstOpened(token[c], key[c])))
    /\ UNCHANGED <<decrypter, registry, calls, token, key, index, seen>>

Return(c) ==
    /\ pc[c] = "decrypting"
    /\ Opens(token[c], key[c]) # {}
    /\ LateErrors(token[c], FirstOpened(token[c], key[c])) = {}
    /\ pc' = [pc EXCEPT ![c] = "decrypted"]
    /\ index' = [index EXCEPT ![c] = FirstOpened(token[c], key[c])]
    /\ UNCHANGED <<decrypter, registry, calls, token, key, errors, seen>>

\* The environment: the application replaces its keys.
InProgress(c) == pc[c] \in {"resolving", "decrypting"}

ChangeRegistry ==
    /\ \A c \in Callers : Cardinality(seen[c]) <= MaxChanges
    /\ registry' \in Registries \ {registry}
    /\ seen' = [c \in Callers |-> IF InProgress(c) THEN seen[c] \cup {registry'}
                                                   ELSE seen[c]]
    /\ UNCHANGED <<decrypter, pc, calls, token, key, index, errors>>

Step(c) == \/ ResolverFailure(c) \/ KeyResolved(c)
           \/ DecryptFails(c) \/ RejectDecrypted(c) \/ Return(c)

Next ==
    \/ \E c \in Callers : Step(c) \/ \E t \in Tokens : DecryptToken(c, t)
    \/ ChangeRegistry

Spec == Init /\ [][Next]_vars
=============================================================================
