------------------------- MODULE MCProcessLifecycle -------------------------
(* Instances of ProcessLifecycle for TLC.                                    *)
EXTENDS ProcessLifecycle, TLC

CONSTANTS g1, g2, b1, b2, s1, s2, s3

Symmetry == Permutations({b1, b2}) \cup Permutations({s1, s2})

=============================================================================
