-------------------------- MODULE MCGuestPurchase --------------------------
(* Small instances of GuestPurchase for TLC.                               *)
EXTENDS GuestPurchase

CONSTANT u1

MCRecipient == [p \in Purchase |-> u1]
=============================================================================
