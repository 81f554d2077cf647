--------------------------- MODULE MCChromiumSync ---------------------------
(***************************************************************************)
(* Instances of ChromiumSync for TLC.  The third state of the file has the *)
(* bookmarks of the first one: somebody took a change back.                *)
(***************************************************************************)
EXTENDS ChromiumSync

CONSTANTS i1, i2, a1, a2

MCInodes    == {i1, i2}
MCAddresses == {a1, a2}
MCChecksum  == [n \in Stamps |-> IF n = 3 THEN 1 ELSE n]
=============================================================================
