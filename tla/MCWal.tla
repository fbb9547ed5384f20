-------------------------------- MODULE MCWal --------------------------------
EXTENDS Wal, TLC

CONSTANTS c1, c2

Symmetry == Permutations({c1, c2})
=============================================================================
