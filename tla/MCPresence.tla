----------------------------- MODULE MCPresence -----------------------------
(***************************************************************************)
(* Presence with three tabs on two app instances.                          *)
(***************************************************************************)
EXTENDS Presence, TLC

CONSTANTS c1, c2, c3, i1, i2

TwoInstances == (c1 :> i1) @@ (c2 :> i2) @@ (c3 :> i1)
=============================================================================
