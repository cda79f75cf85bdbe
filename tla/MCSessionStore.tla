--------------------------- MODULE MCSessionStore ---------------------------
(* Small instances of SessionStore for TLC.                                *)
EXTENDS SessionStore, TLC

\* Invocations are interchangeable, and so are prompts.
Symmetry == Permutations(Proc) \cup Permutations(Prompt)
=============================================================================
