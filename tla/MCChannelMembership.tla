------------------------ MODULE MCChannelMembership ------------------------
(***************************************************************************)
(* ChannelMembership with two or three users and two concurrent requests.  *)
(***************************************************************************)
EXTENDS ChannelMembership, TLC

CONSTANTS t1, t2

\* A channel as create_channel leaves it, with user 1 as its creator.
NewChannel == [u \in Users |-> IF u = 1 THEN "admin" ELSE "none"]

\* A channel whose creator has added a second admin and a member.
TwoAdmins == [u \in Users |-> IF u <= 2 THEN "admin" ELSE "member"]

InIdOrder == [u \in Users |-> u]

TxnSymmetry == Permutations(Txns)
=============================================================================
