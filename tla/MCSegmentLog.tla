---------------------------- MODULE MCSegmentLog ----------------------------
(* Small instances of SegmentLog for TLC.                                  *)
EXTENDS SegmentLog, TLC

\* The handles are interchangeable.
Symmetry == Permutations(Handle)
=============================================================================
