------------------------------ MODULE MCSpell ------------------------------
(* A small instance of SpellPreparation for TLC. *)
EXTENDS SpellPreparation
=============================================================================
