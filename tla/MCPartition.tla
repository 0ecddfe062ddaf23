----------------------------- MODULE MCPartition -----------------------------
\* An instance of the life of a partition for model checking.
EXTENDS Partition

CONSTANTS s1, s2, b1
=============================================================================
