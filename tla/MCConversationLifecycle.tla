---------------------- MODULE MCConversationLifecycle ----------------------
(***************************************************************************)
(* Finite instances of ConversationLifecycle for TLC.  Handlers of one     *)
(* kind are interchangeable: nothing in the specification tells two slots  *)
(* of Replies, or two of Resolutions, apart.                               *)
(***************************************************************************)
EXTENDS ConversationLifecycle, TLC

Interchangeable == Permutations(Replies) \cup Permutations(Resolutions)

=============================================================================
