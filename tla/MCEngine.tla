-------------------------------- MODULE MCEngine -------------------------------
EXTENDS Engine

MCPages == [k \in Kinds |-> 2]
================================================================================
