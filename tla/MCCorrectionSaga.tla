--------------------------- MODULE MCCorrectionSaga ---------------------------
(***************************************************************************)
(* Small instances of CorrectionSaga: c1 corrects the original claim, c2   *)
(* the claim of c1.                                                        *)
(***************************************************************************)
EXTENDS CorrectionSaga

CONSTANTS c1, c2, k1, k2

Citing == [c \in Correction |-> IF c = c2 THEN c1 ELSE Original]
===============================================================================
