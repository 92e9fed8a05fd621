---------------------------- MODULE WriteConsent ----------------------------
(***************************************************************************)
(* What the write path promises its user: a transaction reaches the chain  *)
(* only on a consent given for exactly that transaction, and one consent   *)
(* is good for one delivery.  A consent may lapse at any time.             *)
(***************************************************************************)
EXTENDS Naturals

CONSTANT Txs

VARIABLES
    agreed,          \* how often the user has said yes to each of them
    consented,       \* those a yes still covers: said, not delivered or lapsed
    received         \* how often the chain has been handed each of them

vars == <<agreed, consented, received>>

Init ==
    /\ agreed = [t \in Txs |-> 0]
    /\ consented = {}
    /\ received = [t \in Txs |-> 0]

Consent(t) ==
    /\ agreed' = [agreed EXCEPT ![t] = @ + 1]
    /\ consented' = consented \union {t}
    /\ UNCHANGED received

Lapse ==
    /\ consented' \in SUBSET consented
    /\ UNCHANGED <<agreed, received>>

Deliver(t) ==
    /\ t \in consented
    /\ consented' = consented \ {t}
    /\ received' = [received EXCEPT ![t] = @ + 1]
    /\ UNCHANGED agreed

Next == Lapse \/ \E t \in Txs : Consent(t) \/ Deliver(t)

Spec == Init /\ [][Next]_vars
=============================================================================
