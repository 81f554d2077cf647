--------------------------- MODULE MCChromiumStore ---------------------------
(***************************************************************************)
(* ChromiumStore for TLC.                                                  *)
(***************************************************************************)
EXTENDS ChromiumStore, TLC

MCListed == {1}
MCSymmetry == Permutations(Names) \cup Permutations(Guids)
=============================================================================
