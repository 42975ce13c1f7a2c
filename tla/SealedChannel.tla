--------------------------- MODULE SealedChannel ---------------------------
(***************************************************************************)
(* What encryption promises the two applications that exchange tokens,     *)
(* without tokens, headers, options or resolvers: a message is opened only *)
(* with one of the keys it was sealed for, and what is in it, the plaintext*)
(* and the data authenticated with it, is what was sealed. Nothing is said *)
(* about how often and in which order messages are opened, or if at all.   *)
(***************************************************************************)
CONSTANTS
    Openers,        \* those who open messages
    Contents,       \* pairs of a plaintext and its authenticated data
    SealKeys,
    Nothing         \* what an opener has before it has opened a message

VARIABLES
    sealed,     \* the messages sealed: [content, keys]
    opened      \* what each opener has just opened: [content, key], or Nothing

vars == <<sealed, opened>>

Init ==
    /\ sealed = {}
    /\ opened = [c \in Openers |-> Nothing]

Seal ==
    /\ \E content \in Contents, keys \in SUBSET SealKeys :
          sealed' = sealed \cup {[content |-> content, keys |-> keys]}
    /\ UNCHANGED opened

Open(c) ==
    /\ \E message \in sealed : \E key \in message.keys :
          opened' = [opened EXCEPT
                       ![c] = [content |-> message.content, key |-> key]]
    /\ UNCHANGED sealed

Discard(c) ==
    /\ opened' = [opened EXCEPT ![c] = Nothing]
    /\ UNCHANGED sealed

Next == Seal \/ \E c \in Openers : Open(c) \/ Discard(c)

Spec == Init /\ [][Next]_vars
=============================================================================
