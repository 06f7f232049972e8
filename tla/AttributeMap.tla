---------------------------- MODULE AttributeMap ----------------------------
(***************************************************************************)
(* What a keyed update of a conversation promises: it adds its own key in  *)
(* one step and takes nobody else's away.  Once a guarantee the update     *)
(* rests on has been broken, keys may be lost.                             *)
(***************************************************************************)
CONSTANT Keys

VARIABLES
    store,    \* the keys on the conversation
    broken    \* a guarantee has been broken

vars == <<store, broken>>

Init == store = {} /\ broken = FALSE

Update(k) == store' = store \cup {k} /\ UNCHANGED broken

Break == broken' = TRUE /\ UNCHANGED store

Clobber == broken /\ store' \in SUBSET Keys /\ UNCHANGED broken

Next == \/ \E k \in Keys : Update(k)
        \/ Break
        \/ Clobber

Spec == Init /\ [][Next]_vars
=============================================================================
