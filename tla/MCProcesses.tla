------------------------------ MODULE MCProcesses ------------------------------
EXTENDS Processes, TLC

CONSTANTS r1, r2, p1, p2

Symmetry == Permutations(Processes) \cup Permutations(Paths)
================================================================================
