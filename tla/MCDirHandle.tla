----------------------------- MODULE MCDirHandle ------------------------------
(***************************************************************************)
(* DirHandle for TLC: the owner of the mount, which has accmode=700.       *)
(***************************************************************************)
EXTENDS DirHandle, TLC

MCAccmode == {"usr"} \X {"r", "w", "x"}
MCClasses == {"usr", "grp", "oth"}
MCTagged  == {1}

MCSymmetry == Permutations(Handles) \cup Permutations(Names)
=============================================================================
