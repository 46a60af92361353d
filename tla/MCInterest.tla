----------------------------- MODULE MCInterest -----------------------------
(* Small worlds for Interest, joined by exits in both directions and by one   *)
(* that leads one way.  The lane has two tags and a region: it belongs to the *)
(* town, to the docks and to the shire.                                       *)
EXTENDS Interest

CONSTANTS square, lane, quay, crypt, moor, town, docks, shire, ann, bob, lamp

World ==
  {<<square, lane>>, <<lane, square>>, <<lane, crypt>>, <<crypt, lane>>, <<crypt, square>>,
   <<quay, lane>>, <<moor, crypt>>} \cap (Rooms \X Rooms)
Tags ==
  [r \in Rooms |-> CASE r = square -> <<town>> [] r = lane -> <<town, docks>>
                     [] r = quay -> <<docks>> [] OTHER -> <<>>]
Lands == [r \in Rooms |-> IF r \in {lane, crypt} THEN shire ELSE None]
=============================================================================
