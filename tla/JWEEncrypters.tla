--------------------------- MODULE JWEEncrypters ---------------------------
(***************************************************************************)
(* jwe.Encrypter and jwe.MultiEncrypter: the options both encrypters and   *)
(* decrypters are configured with (jwe/options.go), the key material they  *)
(* hold (jwe/key.go) and the token an encrypter makes of a plaintext       *)
(* (jwe/encrypter.go, jwe/multi_encrypter.go). Encryption itself is        *)
(* idealised as in JWEDecrypter. A plaintext is a record [id, size,        *)
(* packed], packed being its compressed size; AAD is a record [id, size].  *)
(***************************************************************************)
EXTENDS JWEHeaders, SequencesExt

CONSTANTS
    DirectAlgorithms,   \* alg values that cannot serve several recipients
    KeyKinds,           \* what kind of key each buffer of the application holds
    NilKey              \* what a buffer without a key holds

Buffers == DOMAIN KeyKinds

ASSUME EncryptersAssumption ==
    /\ DirectAlgorithms \subseteq Texts
    /\ \A b \in Buffers : KeyKinds[b] \in {"bytes", "jwk", "object"}

-----------------------------------------------------------------------------
(* Options: records [set, value], with the name of the parameter as name   *)
(* for WithHeader's; a nil option sets nothing.                            *)

Options ==
    [set : {"typ", "cty", "compression"}, value : Texts \cup {NoText, Unfit}] \cup
    [set : {"maxTokenSize", "maxPlaintextSize"}, value : Int] \cup
    [set : {"header"}, name : STRING,
     value : Texts \cup {NoText, NotAString, Unfit}] \cup [set : {"nil"}]

ValidOption(option) ==
    CASE option.set \in {"typ", "cty"} -> option.value \notin {NoText, Unfit}
      [] option.set = "compression" -> option.value \in {NoText, Deflate}
      [] option.set \in {"maxTokenSize", "maxPlaintextSize"} -> option.value > 0
      [] option.set = "header" -> TRUE
      [] option.set = "nil" -> FALSE

Apply(config, option) ==
    CASE option.set \in {"typ", "cty", "compression"} ->
            [config EXCEPT !.policy[option.set] = option.value]
      [] option.set \in {"maxTokenSize", "maxPlaintextSize"} ->
            [config EXCEPT ![option.set] = option.value]
      [] option.set = "header" ->
            [config EXCEPT !.extra = Merged(Sole(option.name, option.value), @)]

\* The default sizes: whatever is no limit in an instance.
DefaultSize == 1000

DefaultConfig ==
    [policy |-> [typ |-> NoText, cty |-> NoText, compression |-> NoText],
     maxTokenSize |-> DefaultSize, maxPlaintextSize |-> DefaultSize,
     extra |-> NoHeader]

\* An extra header may not change what zip says of the plaintext: "The caller
\* is responsible for avoiding incompatible or conflicting JOSE header
\* parameters" (jwe/options.go:161-162). Then the library compresses as
\* WithCompression says and the recipient restores as zip says.
LeaveZip(options) ==
    \A i \in DOMAIN options : options[i].set = "header" => options[i].name # "zip"

\* makeConfig: the first option refused ends it.
ValidOptions(options) == \A i \in DOMAIN options : ValidOption(options[i])
MakeConfig(options) == FoldLeft(Apply, DefaultConfig, options)

-----------------------------------------------------------------------------
(* Key material: a reference to the application's buffer and, if the kind  *)
(* of key is cloned, a copy of what the buffer held.                       *)

\* Mutant: a JWK is copied without the key in it.
ShallowClone(b, memory) ==
    [buffer |-> b, copy |-> IF KeyKinds[b] = "bytes" THEN memory[b] ELSE NilKey]

CloneKeyMaterial(b, memory) ==
    [buffer |-> b,
     copy |-> IF KeyKinds[b] \in {"bytes", "jwk"} THEN memory[b] ELSE NilKey]

KeyNow(held, memory) == IF held.copy # NilKey THEN held.copy
                                              ELSE memory[held.buffer]

-----------------------------------------------------------------------------
(* Encrypters: [multi, enc, recipients, config], a recipient being         *)
(* [alg, kid, held].                                                       *)

\* NewEncrypter and NewMultiEncrypter, the trial construction included.
ValidEncrypter(multi, enc, recipients, options, memory) ==
    /\ recipients # <<>>
    /\ ~ multi => Len(recipients) = 1
    /\ \A i \in DOMAIN recipients :
          /\ recipients[i].alg # NoText
          /\ memory[recipients[i].buffer] # NilKey
          /\ multi => recipients[i].alg \notin DirectAlgorithms
    /\ enc # NoText
    /\ ValidOptions(options)

NewEncrypter(multi, enc, recipients, options, memory) ==
    [multi |-> multi, enc |-> enc, config |-> MakeConfig(options),
     recipients |-> [i \in DOMAIN recipients |->
         [alg |-> recipients[i].alg, kid |-> recipients[i].kid,
          held |-> CloneKeyMaterial(recipients[i].buffer, memory)]]]

Given(n, value) == IF value = NoText THEN NoHeader ELSE Sole(n, value)

\* The parameters WithType and WithContentType set.
Typed(e) == Merged(Given("typ", e.config.policy.typ),
                   Given("cty", e.config.policy.cty))

\* Mutant: extra headers come last for several recipients, too.
ConfiguredHeaderExtraLast(e) == Merged(e.config.extra, Typed(e))

\* newEncrypter sets typ and cty and then the extra headers, buildEncrypter
\* the extra headers and then typ and cty.
ConfiguredHeader(e) == IF e.multi THEN Merged(Typed(e), e.config.extra)
                                  ELSE Merged(e.config.extra, Typed(e))

OwnHeader(r) == Merged(Sole("alg", r.alg), Given("kid", r.kid))

\* What the library adds; the parameters of an only recipient are protected,
\* those of several are not.
LibraryHeader(e) ==
    Merged(Merged(Sole("enc", e.enc), Given("zip", e.config.policy.compression)),
           IF Len(e.recipients) = 1 THEN OwnHeader(e.recipients[1]) ELSE NoHeader)

ProtectedHeader(e) == Merged(ConfiguredHeader(e), LibraryHeader(e))

\* What the library makes of a plaintext and AAD. It takes the algorithms from
\* the constructor's arguments, also where an extra header says otherwise.
Encrypted(e, plaintext, authData, memory) ==
    [size |-> Len(e.recipients) + authData.size
              + (IF e.config.policy.compression = Deflate
                 THEN plaintext.packed ELSE plaintext.size),
     wellFormed |-> TRUE, protected |-> ProtectedHeader(e),
     unprotected |-> NoHeader, intact |-> TRUE,
     recipients |-> [i \in DOMAIN e.recipients |->
         [key |-> KeyNow(e.recipients[i].held, memory), alg |-> e.recipients[i].alg,
          header |-> IF Len(e.recipients) = 1 THEN NoHeader
                     ELSE OwnHeader(e.recipients[i])]],
     enc |-> e.enc, plaintext |-> plaintext.size, content |-> plaintext.id,
     authData |-> authData.id]

\* Encrypt and EncryptWithAuthData; only a MultiEncrypter has the latter.
EncryptErrors(e, plaintext, authData, memory) ==
    IF plaintext.size = 0 THEN {"ErrMissingPlaintext"}
    ELSE IF plaintext.size > e.config.maxPlaintextSize
         THEN {"ErrPlaintextTooLarge"}
    ELSE IF \/ authData.size > e.config.maxTokenSize
            \/ Encrypted(e, plaintext, authData, memory).size
                  > e.config.maxTokenSize
         THEN {"ErrTokenTooLarge"}
    ELSE {}
=============================================================================
