---- MODULE MCSuperJournal ----
EXTENDS SuperJournal, TLC
Symmetry == Permutations(DB)
====
