--------------------------- MODULE MCFirefoxStore ---------------------------
(***************************************************************************)
(* FirefoxStore for TLC: about:blank and another URL of the same origin.  *)
(***************************************************************************)
EXTENDS FirefoxStore

MCOrigin == [u \in Urls |-> "about:"]
MCBoth == BOOLEAN
MCSymmetry == Permutations(Names)
=============================================================================
