----------------------------- MODULE MCBufCache -----------------------------
(***************************************************************************)
(* Instances of BufCache for TLC.  Sectors are interchangeable: nothing    *)
(* compares them but for equality.                                         *)
(***************************************************************************)
EXTENDS BufCache, TLC

SectorSymmetry == Permutations(Sectors)
=============================================================================
