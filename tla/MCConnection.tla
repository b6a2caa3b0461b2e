---------------------------- MODULE MCConnection ----------------------------
(* Instances of Connection for TLC.                                        *)
EXTENDS Connection, TLC

\* No definition of Connection tells two streams apart, so for safety any
\* permutation of them may be taken.
StreamSymmetry == Permutations(Stream)
=============================================================================
