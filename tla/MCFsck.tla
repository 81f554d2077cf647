-------------------------------- MODULE MCFsck --------------------------------
(***************************************************************************)
(* Four directories, three deep, and two bookmarks; the walk can leave one *)
(* directory and enter another within one call of fsck_next().             *)
(***************************************************************************)
EXTENDS Fsck, TLC

CONSTANTS d1, d2, d3, b1, b2

MCTree == Root :> <<d1, b1, d2>> @@ d1 :> <<b2, d3>> @@ d2 :> <<>> @@ d3 :> <<>>
=============================================================================
