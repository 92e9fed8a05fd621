-------------------------- MODULE CallbackDelivery --------------------------
(***************************************************************************)
(* What the durable callback outbox promises, without saying how: once a   *)
(* callback is owed it stays owed until the validator has it, and a        *)
(* callback the validator has was owed first.  The detailed module is      *)
(* CallbackOutbox, which instantiates this one.                            *)
(***************************************************************************)
CONSTANT Keys        \* the callbacks: what identifies one at the validator

VARIABLES
    owed,            \* callbacks recorded and not yet forgotten
    delivered        \* callbacks the validator has acknowledged or applied

vars == <<owed, delivered>>

Init == owed = {} /\ delivered = {}

(* A broadcast was observed: its callback is now owed.                     *)
Owe(k) ==
    /\ owed' = owed \union {k}
    /\ UNCHANGED delivered

(* Only an owed callback reaches the validator; reaching it twice is the   *)
(* same as once.                                                           *)
Deliver(k) ==
    /\ k \in owed
    /\ delivered' = delivered \union {k}
    /\ UNCHANGED owed

(* Only a delivered callback is forgotten.                                 *)
Forget(k) ==
    /\ k \in delivered
    /\ owed' = owed \ {k}
    /\ UNCHANGED delivered

Next == \E k \in Keys : Owe(k) \/ Deliver(k) \/ Forget(k)

Spec == Init /\ [][Next]_vars
=============================================================================
