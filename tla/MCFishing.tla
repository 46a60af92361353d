----------------------------- MODULE MCFishing -----------------------------
(* Small instances of FishingSession for TLC. *)
EXTENDS FishingSession

CONSTANTS a1, fish, b1, b2, t1, t2, bank, pier, hall

Other == {"roundtime"}
AllKeys == Callbacks \cup Other
=============================================================================
