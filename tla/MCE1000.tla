------------------------------ MODULE MCE1000 ------------------------------
(* Three descriptors: one being sent, one waiting, one free, and the driver  *)
(* can be a whole ring ahead of the card.                                    *)
EXTENDS E1000
=============================================================================
