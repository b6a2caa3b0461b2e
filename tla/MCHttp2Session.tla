--------------------------- MODULE MCHttp2Session ---------------------------
(* Instances of Http2Session for TLC.                                      *)
EXTENDS Http2Session, TLC

\* No definition of Http2Session tells two streams apart, so for safety any
\* permutation of them may be taken.
StreamSymmetry == Permutations(Stream)
=============================================================================
