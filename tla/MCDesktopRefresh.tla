---------------------------- MODULE MCDesktopRefresh ---------------------------
EXTENDS DesktopRefresh, TLC

CONSTANTS r1, r2, t1

Symmetry == Permutations({r1, r2})
================================================================================
