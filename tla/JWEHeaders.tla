----------------------------- MODULE JWEHeaders -----------------------------
(***************************************************************************)
(* The headers of a JWE and what jwe demands of them (jwe/header.go and    *)
(* the validatePolicy functions). A header is a function from the names of *)
(* the parameters it has to their values; jose.NONE is the empty text, so  *)
(* an uncompressed token is one whose zip is NoText.                       *)
(***************************************************************************)
EXTENDS Integers, TLC

CONSTANTS
    Texts,          \* the strings a parameter may have; alg and enc values,
                    \* key IDs, media types and routing hints are among them
    NoText,         \* the empty string
    NotAString,     \* a value of another JSON type
    Unfit,          \* a string too long for the parameter or not UTF-8
    Deflate         \* the text DEF

ASSUME HeadersAssumption ==
    /\ NoText \notin Texts
    /\ NotAString \notin Texts \cup {NoText}
    /\ Unfit \notin Texts \cup {NoText, NotAString}
    /\ Deflate \in Texts

\* keyset stands for any parameter of the application's own.
Names == {"alg", "enc", "kid", "typ", "cty", "zip", "crit", "keyset"}

IsHeader(header) ==
    /\ DOMAIN header \subseteq Names
    /\ \A n \in DOMAIN header : header[n] \in Texts \cup {NoText, NotAString, Unfit}

\* f @@ g: parameters of f come before those of g of the same name.
Merged(f, g) == [n \in DOMAIN f \cup DOMAIN g |-> IF n \in DOMAIN f THEN f[n] ELSE g[n]]

NoHeader == [n \in {} |-> NoText]
Sole(name, value) == [n \in {name} |-> value]

Text(header, n) == IF n \in DOMAIN header THEN header[n] ELSE NoText

\* The structural checks; only a header shared by recipients may lack alg.
ValidHeader(header, shared) ==
    /\ "crit" \notin DOMAIN header
    /\ \A n \in {"enc", "typ", "cty", "zip"} : Text(header, n) # NotAString
    /\ Text(header, "alg") = NoText => shared
    /\ Text(header, "enc") # NoText
    /\ \A n \in {"alg", "enc", "typ", "cty", "zip"} : Text(header, n) # Unfit

\* typ, cty and compression are NoText where they are not configured.
Policies == [typ : Texts \cup {NoText}, cty : Texts \cup {NoText},
             compression : {NoText, Deflate}]

Expected(policy, header, n, mayLack) ==
    LET value == Text(header, n) IN
    \/ policy[n] \in {NoText, value}
    \/ mayLack /\ value = NoText

CompressionExpected(policy, header) ==
    Text(header, "zip") \in {NoText, policy.compression}

PolicyErrors(policy, header, mayLack) ==
    IF ~ Expected(policy, header, "typ", mayLack) THEN {"ErrUnexpectedType"}
    ELSE IF ~ Expected(policy, header, "cty", mayLack)
         THEN {"ErrUnexpectedContentType"}
    ELSE IF ~ CompressionExpected(policy, header)
         THEN {"ErrUnexpectedCompression"}
    ELSE {}
=============================================================================
