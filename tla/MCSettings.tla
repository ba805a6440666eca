------------------------------ MODULE MCSettings ---------------------------
(* The constants are given by the .cfg files. *)
EXTENDS Settings

=============================================================================
