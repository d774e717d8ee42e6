------------------------------ MODULE MCScreen ------------------------------
(* Screen output and terminal switching on screens of two rows. *)
EXTENDS Screen
=============================================================================
