------------------------ MODULE MCSessionRevocation ------------------------
(***************************************************************************)
(* Small instances of SessionRevocation: one user with two sessions (two   *)
(* devices), or one session.                                               *)
(***************************************************************************)
EXTENDS SessionRevocation, TLC

CONSTANTS u1, s1, s2, w1, w2

OwnerOne == (s1 :> u1) @@ (s2 :> u1)
OwnerSingle == (s1 :> u1)
\* For OwnerOne, under which the two sessions are alike.
DeviceSymmetry == Permutations(Workers) \cup Permutations(Sessions)
=============================================================================
