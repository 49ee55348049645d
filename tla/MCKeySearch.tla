----------------------------- MODULE MCKeySearch -----------------------------
(* Keys on both sides of zero: nodes of up to six keys out of seven.         *)
EXTENDS KeySearch

Key7 == -3..3

=============================================================================
