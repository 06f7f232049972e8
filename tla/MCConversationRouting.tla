---- MODULE MCConversationRouting ----
(* Both agents have the channel second.  A failed lookup makes it one that *)
(* the first agent has first and the second does not have.                 *)
EXTENDS ConversationRouting, TLC

MCRank == [own |-> (1 :> 2 @@ 2 :> 2), web |-> (1 :> 1 @@ 2 :> 4)]
==========================================================================
