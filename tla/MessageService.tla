--------------------------- MODULE MessageService ---------------------------
(***************************************************************************)
(* What the agent bot promises a customer: a message it has accepted (owed *)
(* a turn) is taken into some turn, and a turn leaves no message behind    *)
(* that was owed when it read the conversation.                            *)
(***************************************************************************)
CONSTANT Messages

VARIABLES
    owed,    \* messages accepted by the bot
    taken    \* messages some turn has read as the customer's words

Init == owed = {} /\ taken = {}

(* A message is accepted. *)
Owe(m) == owed' = owed \cup {m} /\ UNCHANGED taken

(* A turn reads the conversation: everything owed, possibly more. *)
Turn ==
    /\ taken' \in SUBSET Messages
    /\ owed \cup taken \subseteq taken'
    /\ UNCHANGED owed

Next == (\E m \in Messages : Owe(m)) \/ Turn

vars == <<owed, taken>>

(* As long as a message is owed and not taken, a turn will come. *)
Spec == Init /\ [][Next]_vars /\ WF_vars(Turn /\ ~(owed \subseteq taken))
=============================================================================
