------------------------ MODULE MCJWSMultiVerifier ------------------------
(* Instances of JWSMultiVerifier for TLC.                                  *)
EXTENDS JWSMultiVerifierProps

CONSTANTS
    c1, c2,                         \* calls
    alice, bob, empty, overlong,    \* identities
    kA, kB,                         \* keys
    hintA, hintB, hintX,            \* protected kid values
    noKid, es256, none, jwt

MCKeyIDs == {alice, bob, empty, overlong}
MCListable == {alice, bob}
MCHints == {hintA, hintB, hintX}

Any == [kind |-> "any"]
All == [kind |-> "all"]
IDs(l) == [kind |-> "keyIDs", keyIDs |-> l]
Quorum(n, l) == [kind |-> "threshold", minimum |-> n, keyIDs |-> l]
AllOf(l) == [kind |-> "allOf", policies |-> l]
Func(accepted) == [kind |-> "func", accepts |-> accepted]

\* Functions of an application: one that takes its acceptance back when a
\* second signature is valid, and accepts before any is; one that refuses
\* everything.
Reports ==
    UNION {[1 .. n -> [keyID : {alice, bob, empty}, valid : BOOLEAN]] :
              n \in 0 .. 3}
AtMostOne ==
    Func({s \in Reports : \A i, j \in DOMAIN s :
            s[i].valid /\ s[j].valid => i = j})
Nothing == Func({})

\* Bare any, any inside AllOf, every signature, both identities, a quorum of
\* one or two, functions of the application, and one that names an identity
\* twice (refused at configuration).
CorePolicies ==
    {Any, All, AtMostOne, AllOf(<<Any, AtMostOne>>), IDs(<<alice, bob>>),
     Quorum(2, <<alice, bob>>), Quorum(2, <<alice, alice>>),
     AllOf(<<Quorum(1, <<alice, bob>>), AllOf(<<IDs(<<bob>>)>>)>>)}

\* Every kind of policy, lists with duplicates and unlistable identities,
\* thresholds at and beyond their limits, and AllOf nested twice.
Lists == {<<>>, <<alice>>, <<alice, bob>>, <<alice, alice>>,
          <<overlong>>, <<empty, bob>>}

SimplePolicies ==
    {Any, All, [kind |-> "nil"], [kind |-> "nilFunc"]}
    \cup {Nothing}
    \cup {IDs(l) : l \in Lists}
    \cup {Quorum(n, l) : n \in 0 .. 3, l \in Lists}

Combined ==
    {AllOf(<<>>)} \cup
    {AllOf(<<p, q>>) : p, q \in {Any, All, IDs(<<bob>>), IDs(<<bob, bob>>),
                                 Quorum(2, <<alice, bob>>),
                                 Quorum(1, <<alice, bob>>)}}

MCPolicies ==
    CorePolicies \cup SimplePolicies \cup Combined
        \cup {AllOf(<<p, f>>) : p \in Combined, f \in {AtMostOne, Nothing}}

Header(kid) == [alg |-> es256, kid |-> kid, typ |-> jwt, cty |-> none,
                extra |-> {}, wellFormed |-> TRUE]

Sig(kid, signer) == [alg |-> es256, protected |-> Header(kid), signer |-> signer]

sigA == Sig(hintA, kA)
sigB == Sig(hintB, kB)
sigX == Sig(hintX, kB)              \* a third hint, answered or not
corrupted == Sig(hintA, NilKey)     \* names a trusted key, verifies under none
anonymous == Sig(noKid, kA)
untyped == [sigA EXCEPT !.protected.typ = none]
critical == [sigB EXCEPT !.protected.extra = {"crit"}]
disallowed == [sigA EXCEPT !.alg = none]

Message(sigs) == [size |-> 1, wellFormed |-> TRUE, signatures |-> sigs,
                  payloadSize |-> 1]

\* What the resolver answers; a registry maps every kid.
Found(id, key) == [status |-> "found", keyID |-> id, key |-> key]
Failed == [NoReply EXCEPT !.status = "failed"]
Registry(a, b, x, anon) ==
    [kid \in MCHints \cup {noKid} |->
        CASE kid = hintA -> a [] kid = hintB -> b [] kid = hintX -> x
          [] OTHER -> anon]

\* Both keys trusted, and an anonymous one for messages without a kid; bob
\* rotated out and hintX an alias of alice; the key store failing for bob;
\* hintA moved to bob's key and hintB resolved to a nil key.
both == Registry(Found(alice, kA), Found(bob, kB), NoReply, Found(empty, kA))
alias == Registry(Found(alice, kA), NoReply, Found(alice, kB), NoReply)
outage == Registry(Found(alice, kA), Failed, NoReply, Failed)
moved == Registry(Found(bob, kB), Found(bob, NilKey), NoReply, NoReply)

MCTokens ==
    {Message(s) : s \in {<<>>, <<sigA>>, <<corrupted, sigB>>, <<sigA, sigB>>,
                         <<sigB, sigA>>, <<sigA, sigX>>, <<anonymous, sigB>>,
                         <<untyped, sigA>>, <<critical, sigA>>, <<corrupted>>,
                         <<sigA, disallowed>>, <<sigA, sigA, sigB>>,
                         <<sigA, corrupted, sigB>>,
                         <<sigA, sigB, sigX, sigA>>}}
        \cup {[Message(<<sigA>>) EXCEPT !.size = 0],
              [Message(<<sigA>>) EXCEPT !.size = 3],
              [Message(<<sigA>>) EXCEPT !.wellFormed = FALSE],
              [Message(<<sigA, sigB>>) EXCEPT !.payloadSize = 3]}

PairTokens == {Message(<<sigA, sigB>>), Message(<<sigA, sigX>>)}

MCRegistries == {both, alias, outage, moved}

-----------------------------------------------------------------------------
(* The run explores three parts of this instance; a behaviour stays in its *)
(* part once the messages of its calls are chosen.                         *)

Presents(c, tokens) == token[c] \in tokens \cup {NoToken}
Unused(c) == pc[c] = "idle" /\ ~ cancelled[c]

\* One call on every message, while keys change and its context ends.
OneCall ==
    /\ policy \in CorePolicies
    /\ Unused(c2)

\* One call that nothing disturbs, on every message and policy.
EveryPolicy ==
    /\ registry = both
    /\ ~ cancelled[c1] /\ Unused(c2)

\* Two calls that share the verifier, the second beginning after the first.
TwoCalls ==
    /\ policy \in {Any, AtMostOne, Quorum(2, <<alice, bob>>)}
    /\ registry \in {both, alias} /\ seen[c1] \subseteq {both, alias}
    /\ pc[c1] # "idle"
    /\ \A c \in Calls : Presents(c, PairTokens)

Explored == OneCall \/ EveryPolicy \/ TwoCalls

\* Next, with the environment kept to these parts.
MCNext ==
    \/ \E c \in Calls : Step(c)
    \/ \E c \in Calls : (VerifyMessage(c) \/ Cancel(c)) /\ Explored'
    \/ ChangeRegistry /\ Explored'

MCSpec == Init /\ [][MCNext]_vars /\ Fairness
=============================================================================
