------------------------------ MODULE MCTokens ------------------------------
(* An instance of Tokens for TLC: every text of up to MaxLength characters. *)
EXTENDS Tokens
=============================================================================
