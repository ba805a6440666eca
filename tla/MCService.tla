------------------------------ MODULE MCService ----------------------------
(* Service for TLC: every stream has two responses. *)
EXTENDS Service

MCTotal == [c \in Stream |-> 2]

=============================================================================
