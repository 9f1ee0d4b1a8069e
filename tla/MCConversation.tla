--------------------------- MODULE MCConversation ---------------------------
(***************************************************************************)
(* A client that has loaded one message reconnects while two more are sent *)
(* and two edits or deletes run.  Pages of one message make the catch-up   *)
(* walk; two pages are its cap.                                            *)
(***************************************************************************)
EXTENDS Conversation, TLC

EditorSymmetry == Permutations(Editors)
=============================================================================
