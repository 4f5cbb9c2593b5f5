---------------------------- MODULE MCSecureDrop ----------------------------
(***************************************************************************)
(* A small instance of SecureDrop.                                         *)
(***************************************************************************)
EXTENDS SecureDrop

CONSTANTS p1, p2, j1, f1
=============================================================================
