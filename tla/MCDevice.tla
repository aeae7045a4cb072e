------------------------------ MODULE MCDevice ------------------------------
(***************************************************************************)
(* A small board for TLC: two pages, two images, a few power cuts.         *)
(***************************************************************************)
EXTENDS Device
=============================================================================
