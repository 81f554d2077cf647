------------------------------ MODULE MCHashmap -------------------------------
(***************************************************************************)
(* Hashmap for TLC: keys are numbers, in the order of their hash codes,    *)
(* since one key is like another.                                          *)
(***************************************************************************)
EXTENDS Hashmap, TLC

MCInit ==
    /\ Init
    /\ \A k \in Keys : k + 1 \in Keys => hash[k] <= hash[k + 1]

MCSpec        == MCInit /\ [][Next]_vars
MCReplaceSpec == MCInit /\ [][ReplaceNext]_vars

MCSymmetry == Permutations(Entries)
=============================================================================
