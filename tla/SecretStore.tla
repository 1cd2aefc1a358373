---------------------------- MODULE SecretStore ----------------------------
(***************************************************************************)
(* What a box's vault promises the programs that use it: a table of        *)
(* secrets that changes one whole operation at a time, opens in one        *)
(* chassis or with one recovery phrase, and comes back after a power cut   *)
(* as it was last saved. Vault.tla is the code that has to keep this.      *)
(***************************************************************************)
CONSTANTS
    Name,       \* names of secrets
    Value,      \* values a secret may have
    NoValue,    \* no such secret
    Chassis,    \* machines the stick may be in
    Phrases,    \* recovery phrases
    None        \* no vault: no phrase, no home

VARIABLES
    secret,     \* each name's value
    phrase,     \* the recovery phrase that works
    home,       \* the chassis in which the vault opens without it
    saved       \* the same three, as the media hold them

store == <<secret, phrase, home, saved>>

Table == [Name -> Value \cup {NoValue}]

Init ==
    /\ secret \in Table
    /\ phrase \in Phrases \cup {None}
    /\ home \in Chassis \cup {None}
    /\ saved = [secret |-> secret, phrase |-> phrase, home |-> home]

Put(n, v) == /\ phrase # None
             /\ secret' = [secret EXCEPT ![n] = v]
             /\ UNCHANGED <<phrase, home, saved>>

Forget(n) == Put(n, NoValue)

\* The old phrase stops working with the same step that makes the new one.
Rephrase(p) == /\ p # phrase
               /\ phrase' = p
               /\ UNCHANGED <<secret, home, saved>>

Rehome(c) == /\ home' = c
             /\ UNCHANGED <<secret, phrase, saved>>

\* The first vault of a box: its secrets, kept in plain files so far, stay.
Found(p, c) == /\ phrase = None
               /\ phrase' = p /\ home' = c
               /\ UNCHANGED <<secret, saved>>

Save == /\ saved' = [secret |-> secret, phrase |-> phrase, home |-> home]
        /\ UNCHANGED <<secret, phrase, home>>

Cut == /\ secret' = saved.secret /\ phrase' = saved.phrase /\ home' = saved.home
       /\ UNCHANGED saved

Next == \/ \E n \in Name : Forget(n) \/ \E v \in Value : Put(n, v)
        \/ \E p \in Phrases : Rephrase(p) \/ \E c \in Chassis : Found(p, c)
        \/ \E c \in Chassis : Rehome(c)
        \/ Save \/ Cut

Spec == Init /\ [][Next]_store
=============================================================================
