-------------------------- MODULE MCContextPublish --------------------------
\* ContextPublish for TLC.  The processes are interchangeable.
EXTENDS ContextPublish, TLC

Symmetry == Permutations(Proc)
=============================================================================
