------------------------------ MODULE MCMemory ------------------------------
(* A heap of 128 bytes: room for up to five blocks, requests around the      *)
(* split threshold (HEADER + SPLIT_SLACK) and around the 4-byte rounding.    *)
EXTENDS Memory

MCTestSizes == <<18, 9, 4>>
=============================================================================
