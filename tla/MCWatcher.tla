------------------------------ MODULE MCWatcher ------------------------------
(***************************************************************************)
(* Instances of Watcher for TLC.  With two inodes, the file can be         *)
(* replaced while its older inode is still open or under another name.     *)
(***************************************************************************)
EXTENDS Watcher

CONSTANTS i1, i2

MCInodes == {i1, i2}
=============================================================================
