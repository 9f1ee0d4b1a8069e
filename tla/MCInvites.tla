----------------------------- MODULE MCInvites -----------------------------
(***************************************************************************)
(* Two invites for one address; ids from 3 on are for another address.     *)
(***************************************************************************)
EXTENDS Invites, TLC

CONSTANTS r1, r2, r3
MCEmailOf == [i \in InviteIds |-> IF i > 2 THEN "bob" ELSE "ann"]
Symmetry == Permutations(Requests)
=============================================================================
