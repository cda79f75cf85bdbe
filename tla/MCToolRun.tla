------------------------------ MODULE MCToolRun ------------------------------
\* ToolRun for TLC.  Workers and branches are interchangeable.
EXTENDS ToolRun, TLC

Symmetry == Permutations(Worker) \cup Permutations(Branch)
=============================================================================
