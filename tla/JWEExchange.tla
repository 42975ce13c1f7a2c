---------------------------- MODULE JWEExchange ----------------------------
(***************************************************************************)
(* Two applications that exchange JWEs under options they agreed on. One   *)
(* builds encrypters, for other keys from time to time, overwrites the key *)
(* buffers it built them from, and encrypts; the other calls the decrypter *)
(* of JWEDecrypter. The transport may delay, reorder, duplicate and lose   *)
(* tokens, and alter them.                                                 *)
(***************************************************************************)
EXTENDS JWEEncrypters, JWEDecrypter

CONSTANTS
    WipedKey,           \* what overwriting a buffer leaves
    KeyAlgorithms, ContentEncryptions,          \* the decrypter's allowlists
    OptionLists,        \* option lists the applications may agree on
    RecipientLists,     \* sequences of [alg, kid, buffer]
    Encryption,         \* the enc value of the sender
    Plaintexts, AuthData,   \* see JWEEncrypters
    Unprotected,        \* unprotected headers a transport may add
    InitialMemory,      \* what the sender's buffers hold at first
    MaxTokens,          \* bound: encryptions
    MaxAlterations      \* bound: altered tokens

VARIABLES
    options,        \* the options agreed on
    memory,         \* what the sender's buffers hold
    encrypter,      \* the sender's encrypter; none before it has one
    intended,       \* history: the keys that one was built for
    wire            \* the tokens that may arrive, and what is known of them:
                    \* [token, keys, altered]

receiverVars == vars
senderVars == <<options, memory, encrypter, intended, wire>>
exchangeVars == <<senderVars, receiverVars>>

ASSUME ExchangeAssumption ==
    /\ WipedKey \in Keys /\ NilKey = NoKey
    /\ {KeyAlgorithms, ContentEncryptions} \subseteq SUBSET Texts
    /\ OptionLists \subseteq {l \in Seq(Options) : ValidOptions(l) /\ LeaveZip(l)}
    /\ RecipientLists \subseteq
          Seq([alg : Texts \cup {NoText}, kid : Texts \cup {NoText}, buffer : Buffers])
    /\ \A p \in Plaintexts : {p.size, p.packed} \subseteq Nat
    /\ \A a \in AuthData : a.size \in Nat
    /\ InitialMemory \in [Buffers -> Keys \cup {NilKey}]
    /\ \A u \in Unprotected : IsHeader(u)
    /\ {MaxTokens, MaxAlterations} \subseteq Nat

NoEncrypter == [multi |-> FALSE, recipients |-> <<>>]

\* The decrypter is configured with the very options of the encrypters.
ExchangeInit ==
    /\ options \in OptionLists
    /\ memory = InitialMemory
    /\ encrypter = NoEncrypter
    /\ intended = {}
    /\ wire = {}
    /\ registry \in Registries
    /\ \E multi \in BOOLEAN :
          decrypter = [multi |-> multi, keyAlgorithms |-> KeyAlgorithms,
                       contentEncryptions |-> ContentEncryptions,
                       policy |-> MakeConfig(options).policy,
                       maxTokenSize |-> MakeConfig(options).maxTokenSize,
                       maxPlaintextSize |-> MakeConfig(options).maxPlaintextSize]
    /\ pc = [c \in Callers |-> "idle"]
    /\ calls = [c \in Callers |-> 0]
    /\ token = [c \in Callers |-> NoToken]
    /\ key = [c \in Callers |-> NilKey]
    /\ index = [c \in Callers |-> 0]
    /\ errors = [c \in Callers |-> {}]
    /\ seen = [c \in Callers |-> {}]

\* The sender replaces its encrypter, with the kind of the decrypter.
Configure(rs) ==
    /\ ValidEncrypter(decrypter.multi, Encryption, rs, options, memory)
    /\ encrypter' = NewEncrypter(decrypter.multi, Encryption, rs, options, memory)
    /\ intended' = {memory[rs[i].buffer] : i \in DOMAIN rs}
    /\ UNCHANGED <<options, memory, wire, receiverVars>>

\* Key objects that are not copied "must be treated as immutable".
Overwrite(b) ==
    /\ KeyKinds[b] # "object"
    /\ memory' = [memory EXCEPT ![b] = WipedKey]
    /\ UNCHANGED <<options, encrypter, intended, wire, receiverVars>>

\* An encryption that fails leaves nothing.
Encrypt(p, a) ==
    /\ encrypter # NoEncrypter
    /\ Cardinality({w \in wire : ~ w.altered}) < MaxTokens
    /\ encrypter.multi \/ a.size = 0
    /\ EncryptErrors(encrypter, p, a, memory) = {}
    /\ wire' = wire \cup {[token |-> Encrypted(encrypter, p, a, memory),
                           keys |-> intended, altered |-> FALSE]}
    /\ UNCHANGED <<options, memory, encrypter, intended, receiverVars>>

\* Other ciphertext, which is that of no plaintext, or other parameters that
\* are not protected.
Alter(w) ==
    /\ Cardinality({v \in wire : v.altered}) < MaxAlterations
    /\ \/ wire' = wire \cup {[w EXCEPT !.token.intact = FALSE,
                                       !.token.content = NilKey,
                                       !.altered = TRUE]}
       \/ /\ decrypter.multi
          /\ \E u \in Unprotected :
                wire' = wire \cup {[w EXCEPT !.token.unprotected = u,
                                             !.altered = TRUE]}
    /\ UNCHANGED <<options, memory, encrypter, intended, receiverVars>>

\* A token arrives, for the first time or again.
Receive(c, w) == DecryptToken(c, w.token) /\ UNCHANGED senderVars

Decrypt(c) == Step(c) /\ UNCHANGED senderVars

RotateKeys == ChangeRegistry /\ UNCHANGED senderVars

ExchangeNext ==
    \/ \E rs \in RecipientLists : Configure(rs)
    \/ \E b \in Buffers : Overwrite(b)
    \/ \E p \in Plaintexts, a \in AuthData : Encrypt(p, a)
    \/ \E w \in wire : Alter(w) \/ \E c \in Callers : Receive(c, w)
    \/ \E c \in Callers : Decrypt(c)
    \/ RotateKeys

ExchangeSpec == ExchangeInit /\ [][ExchangeNext]_exchangeVars

-----------------------------------------------------------------------------
\* What a call has returned, and what was sent.
Channel == INSTANCE SealedChannel WITH
    Openers <- Callers,
    Contents <- {[plaintext |-> p.id, authData |-> a.id] :
                    p \in Plaintexts, a \in AuthData},
    SealKeys <- Keys,
    Nothing <- NilKey,
    sealed <- {[content |-> [plaintext |-> w.token.content,
                             authData |-> w.token.authData],
                keys |-> w.keys] : w \in {v \in wire : ~ v.altered}},
    opened <- [c \in Callers |->
                 IF pc[c] # "decrypted" THEN NilKey
                 ELSE [content |-> [plaintext |-> token[c].content,
                                    authData |-> token[c].authData],
                       key |-> key[c]]]

\* Plaintext and AAD that are returned are those of one token some encrypter
\* made, and the key that opened it is one the application passed to
\* that encrypter's constructor, whatever happened to its buffers, to the
\* encrypter and to the resolver's keys since: the two encrypters, the
\* transport and the decrypter together are a SealedChannel.
ImplementsChannel == Channel!Spec

\* An encrypter seals for the keys it was built for and no other, although
\* the application has overwritten some of the buffers it passed since, before
\* or between encryptions.
EncryptersKeepTheirKeys ==
    \A w \in wire :
        w.keys = {w.token.recipients[i].key : i \in DOMAIN w.token.recipients}

\* WithHeader may contradict WithType or WithContentType. The compact
\* encrypter then sends the header and not the type.
Contradicted ==
    \E n \in {"typ", "cty"} :
        /\ MakeConfig(options).policy[n] # NoText
        /\ n \in DOMAIN MakeConfig(options).extra
        /\ MakeConfig(options).extra[n] # MakeConfig(options).policy[n]

\* Extra headers are none of those that say how the token was made; the caller
\* is responsible for that, see LeaveZip.
Compatible ==
    LET extra == MakeConfig(options).extra IN
    /\ {"alg", "enc", "crit", "zip"} \cap DOMAIN extra = {}
    /\ \A n \in {"typ", "cty"} : Text(extra, n) \in Texts \cup {NoText}

\* A decrypter never refuses what an encrypter with the same options made,
\* provided its allowlists have the algorithms and its resolver answers with
\* a key of a recipient while the call looks: sizes, compression and header
\* policy mean the same on both sides, and WithHeader takes nothing away of
\* what WithType promised the recipients of a MultiEncrypter.
OwnTokensOpen ==
    \A c \in Callers, w \in wire :
        /\ pc[c] \in {"decrypted", "rejected"} /\ Cardinality(seen[c]) = 1
        /\ token[c] = w.token /\ ~ w.altered
        /\ Allowed(w.token)
        /\ \A r \in seen[c] :
              Answer(r, SharedHeader(w.token)).key \in w.keys
        /\ Compatible
        /\ decrypter.multi \/ ~ Contradicted
        => pc[c] = "decrypted"
=============================================================================
