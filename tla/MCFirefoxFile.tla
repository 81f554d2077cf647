---------------------------- MODULE MCFirefoxFile -----------------------------
(***************************************************************************)
(* FirefoxFile for TLC: about:blank and another URL of the same origin.    *)
(***************************************************************************)
EXTENDS FirefoxFile

MCOrigin == [u \in Urls |-> "about:"]
MCTitle == {FALSE}
=============================================================================
