--------------------------- MODULE MCMessageSend ---------------------------
(***************************************************************************)
(* A small instance of MessageSend.  Requests a1 and a2 retry one key, b1  *)
(* sends under another key of the same user.  a1 and b1 want the same      *)
(* attachments; a2 comes without them (nothing compares the bodies of two  *)
(* sends with one key), so that only the claim keeps a2 from a second row. *)
(***************************************************************************)
EXTENDS MessageSend, TLC

CONSTANTS a1, a2, b1, ka, kb, m1, m2

KeyOfTwo == (a1 :> ka) @@ (a2 :> ka) @@ (b1 :> kb)
WantsMost == [r \in Requests |-> IF r = a2 THEN {} ELSE Media]
OwnsAll == [k \in Keys |-> Media]
=============================================================================
