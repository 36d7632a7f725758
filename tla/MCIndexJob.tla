----------------------------- MODULE MCIndexJob -----------------------------
(* Instances of IndexJob for TLC.                                          *)
EXTENDS IndexJob, TLC

CONSTANTS desktop, cloud

\* The desktop app's own sequence and zotero.org's: the same change carries a
\* different number on each.
MCOffset == [b \in Backends |-> IF b = cloud THEN 3 ELSE 1]

Symmetry == Permutations(Items)
=============================================================================
