------------------------------ MODULE MCDeath ------------------------------
(* Small instances of DeathCycle for TLC. *)
EXTENDS DeathCycle

CONSTANTS ann, kay, lee, b1, b2, g1

=============================================================================
