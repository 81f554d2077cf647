---------------------------- MODULE MCFileHandle ----------------------------
(***************************************************************************)
(* FileHandle for TLC: one letter besides the newline, the limits of each  *)
(* run are in its configuration.                                           *)
(***************************************************************************)
EXTENDS FileHandle

CONSTANTS a

MCLetters == {a, Newline}

\* Every two of the three flags in all four combinations.
MCMounts == {[eol |-> e, exclusive |-> x, ctime |-> e = x] : e, x \in BOOLEAN}
=============================================================================
