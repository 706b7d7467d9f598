------------------------------- MODULE MCArc -------------------------------
(* Small instances of Arc: chains of blocks that own each other. *)
EXTENDS Arc, TLC

CONSTANTS b1, b2, m1, m2

TwoHomes == m1 :> b1 @@ m2 :> b2
=============================================================================
