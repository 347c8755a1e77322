------------------------------ MODULE MCMyPage ------------------------------
(***************************************************************************)
(* Values of MyPage's constants for the runs.                              *)
(***************************************************************************)
EXTENDS MyPage

CONSTANTS alice, bob, carol

MCFirstHolders == [x \in 0 .. 1 |-> IF x = 0 THEN alice ELSE carol]
MCFirstSellers == [id \in {0} |-> alice]
=============================================================================
