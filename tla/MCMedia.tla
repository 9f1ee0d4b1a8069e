------------------------------ MODULE MCMedia ------------------------------
(***************************************************************************)
(* Two attachments, two sweeps that overlap and one send.                  *)
(***************************************************************************)
EXTENDS MediaLifecycle
=============================================================================
