---------------------------- MODULE MCAgentTurn -----------------------------
\* AgentTurn for TLC.  The invocations are interchangeable.
EXTENDS AgentTurn, TLC

Symmetry == Permutations(Owner)
=============================================================================
